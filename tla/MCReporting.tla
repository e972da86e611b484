----------------------------- MODULE MCReporting ------------------------------
(* Instances of Reporting for TLC.                                           *)
EXTENDS Reporting, TLC

\* Nothing but what is named happens.
Scenario(some) ==
  some @@ [change |-> 0, restart |-> 0, failure |-> 0, disconnection |-> 0,
           visit |-> 0, stale |-> 0]

MCScenarios ==
  {Scenario([change |-> 1, restart |-> 1]),
   Scenario([restart |-> 1, failure |-> 1]),
   Scenario([change |-> 2, failure |-> 1, disconnection |-> 1]),
   Scenario([change |-> 3, visit |-> 1, stale |-> 2]),
   Scenario([change |-> 1, visit |-> 1, disconnection |-> 1, stale |-> 1]),
   Scenario([restart |-> 1, stale |-> 1])}
===============================================================================
