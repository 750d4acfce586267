------------------------------ MODULE Px4Probe ------------------------------
(***************************************************************************)
(* apps/px4_adapter_probe.cpp with the command path of                     *)
(* src/mavlink2_adapter.cpp: one COMMAND_LONG is sent to PX4, and a        *)
(* COMMAND_ACK for it is awaited for three seconds.                        *)
(*                                                                         *)
(* A datagram is the sequence of its frames, and whether recvfrom has cut  *)
(* it off in the middle of another one.  The MAVLink library keeps the     *)
(* state of its parser from one call to the next: after a datagram that    *)
(* was cut off it takes the next bytes for the rest of a frame.            *)
(***************************************************************************)
EXTENDS Naturals, Sequences

CONSTANTS
  Commands,   \* the command ids that the probe is started with
  Earlier,    \* those that others sent: PX4's answers may come here, and late
  Datagrams,  \* what may arrive: sequences of ids, 0 for a frame that is no
              \*   ACK, and whether the datagram was cut off
  Deadline,   \* 3 s
  MaxInbox    \* bound: datagrams that wait at the socket; others are dropped

ASSUME ProbeAssumption ==
  /\ Commands \subseteq Nat \ {0} /\ Earlier \subseteq Nat \ {0}
  /\ Datagrams \subseteq [frames : Seq(Nat), cut : BOOLEAN]
  /\ Deadline \in Nat /\ MaxInbox \in Nat

VARIABLES
  command,   \* argv[3]
  pc,        \* "start", "open" with a socket, "waiting", "ended"
  code,      \* what main returns
  elapsed,   \* time since the command was sent, up to the deadline
  parser,    \* of MAVLINK_COMM_0: "idle", or "inside" a frame
  inbox,     \* the datagrams at the socket
  under_way, \* the command on its way to PX4, or 0
  executed,  \* the ids of the commands that PX4 has got
  earlier    \* history: those it had before the probe started

vars == <<command, pc, code, elapsed, parser, inbox, under_way, executed, earlier>>

command_allowed(id) == id \in {400, 22, 21}

Init ==
  /\ command \in Commands
  /\ pc = "start"
  /\ code = 0
  /\ elapsed = 0
  /\ parser = "idle"
  /\ inbox = <<>>
  /\ under_way = 0
  /\ earlier \in SUBSET Earlier
  /\ executed = earlier

End(c) == pc' = "ended" /\ code' = c
-----------------------------------------------------------------------------
\* A command that is not allowed ends the probe; socket and bind may fail.
Start ==
  /\ pc = "start"
  /\ IF ~command_allowed(command) THEN End(0)
     ELSE End(2) \/ End(3) \/ (pc' = "open" /\ UNCHANGED code)
  /\ UNCHANGED <<command, elapsed, parser, inbox, under_way, executed, earlier>>

\* The request that main fills in passes every check of encode_command_long
\* when its command does; the exit code 4 is for one that does not.
encode_command_long(id) == command_allowed(id)

\* The heartbeat, whose fate nobody looks at, and the command.
SendCommand ==
  /\ pc = "open"
  /\ encode_command_long(command)
  /\ \/ End(5) /\ UNCHANGED under_way
     \/ pc' = "waiting" /\ under_way' = command /\ UNCHANGED code
  /\ UNCHANGED <<command, elapsed, parser, inbox, executed, earlier>>

\* The frames that the parser gets out of a datagram: all, or, when it starts
\* inside a frame, those after the ones it has swallowed.
Parsed(d) ==
  IF parser = "idle" THEN {d.frames}
  ELSE {SubSeq(d.frames, n, Len(d.frames)) : n \in 1 .. Len(d.frames) + 1}

\* Frame i is the one at which decode_command_ack stops.
FirstAck(frames, i) == frames[i] # 0 /\ \A j \in 1 .. i - 1 : frames[j] = 0

\* Mutant: any allowed ACK will do.
acknowledges_any(frames) ==
  \E i \in DOMAIN frames : FirstAck(frames, i) /\ command_allowed(frames[i])

\* decode_command_ack and the check of its result: the first ACK of the
\* datagram counts, whatever comes after it.
acknowledges(frames) ==
  \E i \in DOMAIN frames :
    /\ FirstAck(frames, i)
    /\ command_allowed(frames[i])
    /\ frames[i] = command

\* The parser after the call: it stops at the first ACK.
ParserAfter(d, frames) ==
  IF \E i \in DOMAIN frames : FirstAck(frames, i) THEN {"idle"}
  ELSE IF d.cut THEN {"inside"}
  ELSE IF parser = "inside" THEN {"idle", "inside"}
  ELSE {"idle"}

\* Mutant: the three seconds start anew with every datagram.
elapsed_after_restarted == 0

\* The deadline is fixed: a datagram does not move it.
elapsed_after == elapsed

\* select and recvfrom return a datagram.  One that is empty ends the loop;
\* one that comes as the time ends may still be looked at.
Receive ==
  /\ pc = "waiting"
  /\ inbox # <<>>
  /\ LET d == Head(inbox) IN
     \E frames \in Parsed(d) :
       /\ inbox' = Tail(inbox)
       /\ parser' \in ParserAfter(d, frames)
       /\ elapsed' = elapsed_after
       /\ IF acknowledges(frames) THEN End(0)
          ELSE IF elapsed >= Deadline \/ (d.frames = <<>> /\ ~d.cut) THEN End(6)
          ELSE UNCHANGED <<pc, code>>
  /\ UNCHANGED <<command, under_way, executed, earlier>>

\* The time is over, or select fails.
Expire ==
  /\ pc = "waiting"
  /\ elapsed >= Deadline
  /\ End(6)
  /\ UNCHANGED <<command, elapsed, parser, inbox, under_way, executed, earlier>>

SelectFails ==
  /\ pc = "waiting"
  /\ End(6)
  /\ UNCHANGED <<command, elapsed, parser, inbox, under_way, executed, earlier>>

Tick ==
  /\ pc = "waiting"
  /\ elapsed < Deadline
  /\ elapsed' = elapsed + 1
  /\ UNCHANGED <<command, pc, code, parser, inbox, under_way, executed, earlier>>
-----------------------------------------------------------------------------
\* PX4 gets the command, or never.
Execute ==
  /\ under_way # 0
  /\ executed' = executed \cup {under_way}
  /\ under_way' = 0
  /\ UNCHANGED <<command, pc, code, elapsed, parser, inbox, earlier>>

\* PX4 sends what it likes, again and again, but ACKs only for what it got.
Px4Sends ==
  /\ pc = "waiting"
  /\ Len(inbox) < MaxInbox
  /\ \E d \in Datagrams :
       /\ \A i \in DOMAIN d.frames : d.frames[i] \in executed \cup {0}
       /\ inbox' = Append(inbox, d)
  /\ UNCHANGED <<command, pc, code, elapsed, parser, under_way, executed, earlier>>

Next ==
  \/ Start \/ SendCommand \/ Receive \/ Expire \/ SelectFails
  \/ Tick \/ Execute \/ Px4Sends

\* The probe is given the processor, and time passes; nothing is assumed of
\* PX4, nor of select before its time is over.
Fairness ==
  WF_vars(Start) /\ WF_vars(SendCommand) /\ WF_vars(Receive) /\ WF_vars(Expire)
    /\ WF_vars(Tick)

Spec == Init /\ [][Next]_vars /\ Fairness
-----------------------------------------------------------------------------
\* The probe reports an ACK only for a command that PX4 has got: not for the
\* ACK of another one, and, where PX4 had not got that command before, only
\* for the one the probe sent itself.
NoFalsePass ==
  pc = "ended" /\ code = 0 /\ command_allowed(command) => command \in executed

\* The probe ends, though datagrams that are no answer never stop coming.
ProbeEnds == <>(pc = "ended")
=============================================================================
