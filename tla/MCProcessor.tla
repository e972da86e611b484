----------------------------- MODULE MCProcessor ------------------------------
(* Instances of Processor for TLC.                                           *)
EXTENDS Processor

\* Configurations of each kind.
MCConfigData ==
  {[outcome |-> "ok", modbus |-> TRUE, units |-> TRUE],
   [outcome |-> "ok", modbus |-> FALSE, units |-> FALSE],
   [outcome |-> "invalid", modbus |-> TRUE, units |-> FALSE],
   [outcome |-> "crash", modbus |-> FALSE, units |-> FALSE]}
===============================================================================
