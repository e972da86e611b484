----------------------------- MODULE MCRemoteUnit -----------------------------
(* Instances of RemoteUnit for TLC.                                          *)
EXTENDS RemoteUnit, TLC

MCDefault == [timeout |-> 1, rf |-> 0]
MCOther == [timeout |-> 0, rf |-> 1]
MCConfigs == {MCDefault, MCOther}

\* A request to open the valves, one to shut them that is too long to be
\* answered, a change of the configuration and its persisting, and a packet
\* that is not executed.
MCPackets ==
  LET command(n, a) == [name |-> n, arg |-> a]
      valid(commands) == [valid |-> TRUE, commands |-> commands]
      set(on) == command("SetSolenoidState", [force |-> FALSE, on |-> on])
  IN  {valid(<<set(Valve), command("GetSensorValue", TRUE)>>),
       valid(<<command("GetBatteryRaw", 0), set({}), command("TooLarge", 0)>>),
       valid(<<command("GetSignalStrength", 0), command("ClearFaults", 0),
               command("SetConfig", MCOther), command("ApplyRfConfig", 0)>>),
       valid(<<command("PersistConfig", 0)>>),
       [valid |-> FALSE, commands |-> <<>>]}
==============================================================================
