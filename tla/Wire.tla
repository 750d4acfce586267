-------------------------------- MODULE Wire --------------------------------
(***************************************************************************)
(* The message types and the classes of service of the protocol:           *)
(* include/new_mavlink/wire.hpp and src/wire.cpp.  A type is its name, and *)
(* TypeCode its number on the wire.                                        *)
(***************************************************************************)
EXTENDS Naturals

TypeCode ==
  [Hello |-> 1, Accept |-> 2, Finish |-> 3, Subscribe |-> 4, Resync |-> 5,
   Unsubscribe |-> 6, Heartbeat |-> 16, VehicleState |-> 17, Position |-> 18,
   Attitude |-> 19, Battery |-> 20, LinkStats |-> 21, SafetyEvent |-> 22,
   FailsafeEvent |-> 23, GeofenceEvent |-> 24, CommandRequest |-> 48,
   CommandAck |-> 49, CommandResult |-> 50, SchemaManifest |-> 64,
   RateReport |-> 65, DiagnosticEvent |-> 66]

MessageType == DOMAIN TypeCode

Qos == {"CriticalReliable", "CommandReliable", "StateLatest",
        "TelemetryBestEffort", "Liveness", "Explicit"}

known_type(type) == type \in MessageType

state_type(type) ==
  type \in {"VehicleState", "Position", "Attitude", "Battery", "LinkStats",
            "RateReport"}

command_type(type) == type \in {"CommandRequest", "CommandAck", "CommandResult"}

control_type(type) ==
  type \in {"Hello", "Accept", "Finish", "Subscribe", "Unsubscribe", "Resync"}
=============================================================================
