------------------------------ MODULE Pipeline ------------------------------
(***************************************************************************)
(* The three applications in a chain: apps/vehicle_endpoint.cpp publishes, *)
(* apps/proxy_service.cpp opens each record and seals it again for the     *)
(* ground station, apps/gcs_endpoint.cpp shows it, over the UdpEndpoint    *)
(* and the NativeEndpoint of src/transport.cpp.                            *)
(*                                                                         *)
(* A datagram on its way may never arrive, arrive late or after younger    *)
(* ones; a fault repeats it, damages it, or makes a send or a receive fail. *)
(* All keys are those of session 1, epoch 1, so that a nonce is a link and *)
(* a sequence.  No published message has a deadline, and no record is      *)
(* opened by another process than the one it was sealed for: of the errors *)
(* of open_uncommitted, Replay and AuthenticationFailed are left.          *)
(*                                                                         *)
(* A unit of time is the 1000 ms of a receive.  The vehicle polls ten      *)
(* times in one; of these the first is modelled, the others have nothing   *)
(* to send.  A failure before the loops (exit codes 2 and 3: arguments,    *)
(* sockets, key derivation) leaves a process without a step here.          *)
(***************************************************************************)
EXTENDS ReplayWindow, Sequences, FiniteSets

CONSTANTS
  Durations,           \* the duration_ms arguments that the three are started with
  snapshot_period_ms,  \* kHelpfulSnapshotPeriodMs, 10 units
  ChangeAt,            \* when the vehicle's position changes, 3 units
  MaxOvertake,         \* bound: how far a datagram may fall behind
  MaxFaults,           \* bound: repeated, damaged and unsent datagrams
  MayRestart           \* whether the proxy is started again when it has ended

Processes == {"vehicle", "proxy", "gcs"}

\* The link on which a process receives is named after the process.
Receivers == {"proxy", "gcs"}

ASSUME PipelineAssumption ==
  /\ Durations \subseteq [Processes -> Nat]
  /\ ChangeAt \in Nat \ {0}
  /\ MaxOvertake \in 0 .. Window - 1 /\ MaxFaults \in Nat
  /\ MayRestart \in BOOLEAN

VARIABLES
  now, has, state, generation, dirty, next_snapshot_ms, sent, reported, since,
             \* the publisher of the vehicle, its now the loop's now_ms
  status,    \* "up", or why the process ended
  duration,  \* duration_ms
  age,       \* time since the start, up to the duration
  elapsed,   \* age when the iteration began
  waited,    \* time since then, up to one unit
  vehicle,   \* the updates still to make, whether poll was called, the
             \*   messages still to send, and the counter sequence
  high,      \* send_high_water_ of the sending sessions, -1 before the first
  replay,    \* replay_ of the receiving sessions
  proxy,     \* egress_sequence and received_any
  wire,      \* the datagrams under way to each receiver
  shown,     \* what the ground station has counted: received_count and more
  faults,    \* how many of the faults of the links have happened
  published, \* history: the messages the vehicle has sent
  again,     \* history: those the ground station has counted twice
  sealed     \* history: the records sealed for each receiver, kept where the
             \*   proxy may restart

Pub == INSTANCE Publisher WITH
         source_id <- 1, destination_id <- 3, GenerationMax <- 9, TimeMax <- 99,
         Values <- [s \in {"Position", "Attitude", "Battery"} |-> {}],
         Capacities <- {3}

publisher ==
  <<now, has, state, generation, dirty, next_snapshot_ms, sent, reported, since>>
clocks == <<age, elapsed, waited>>
history == <<published, again, sealed>>

vars == <<publisher, status, duration, clocks, vehicle, high, replay, proxy,
          wire, shown, faults, history>>
-----------------------------------------------------------------------------
Value(resource, body) ==
  [resource_id |-> resource, source_id |-> 1, body |-> body, in_range |-> TRUE]

\* The updates of the iteration at time t.
updates(t) ==
  IF t = 0 THEN << <<"Position", Value(42, 1)>>, <<"Attitude", Value(43, 1)>>,
                   <<"Battery", Value(44, 1)>> >>
  ELSE IF t = ChangeAt THEN << <<"Position", Value(42, 2)>> >>
  ELSE <<>>

Init ==
  /\ Pub!Init
  /\ status = [p \in Processes |-> "up"]
  /\ duration \in Durations
  /\ age = [p \in Processes |-> 0]
  /\ elapsed = [p \in Processes |-> 0]
  /\ waited = [p \in Processes |-> 0]
  /\ vehicle = [updates |-> updates(0), polled |-> FALSE, messages |-> <<>>, sequence |-> 0]
  /\ high = [p \in Receivers |-> -1]
  /\ replay = [p \in Receivers |-> EmptyWindow]
  /\ proxy = [egress_sequence |-> 0, received_any |-> FALSE]
  /\ wire = [p \in Receivers |-> {}]
  /\ shown = {}
  /\ faults = 0
  /\ published = {}
  /\ again = {}
  /\ sealed = [p \in Receivers |-> {}]

End(p, why) == status' = [status EXCEPT ![p] = why]

\* The next iteration of the loop of p begins.
Iterate(p) ==
  /\ elapsed' = [elapsed EXCEPT ![p] = age[p]]
  /\ waited' = [waited EXCEPT ![p] = 0]

over(p) == elapsed[p] >= duration[p]

Least(a, b) == IF a < b THEN a ELSE b

Tick ==
  /\ age' = [p \in Processes |-> Least(age[p] + 1, duration[p])]
  /\ waited' = [p \in Processes |-> Least(waited[p] + 1, 1)]
  /\ UNCHANGED <<publisher, status, duration, elapsed, vehicle, high, replay,
                 proxy, wire, shown, faults, history>>
-----------------------------------------------------------------------------
\* seal checks that the sequences of a session ascend.
seal_accepts(to, sequence) == sequence > high[to]

\* NativeEndpoint::send: seal, which uses the sequence up, and send_to, which
\* may fail.  Record r goes to process to; the result is why the caller ends,
\* or "up" where it does not.
send_result(to, r, sent_to) ==
  IF ~seal_accepts(to, r.sequence) THEN "InvalidHeader"
  ELSE IF ~sent_to THEN "unsent" ELSE "up"

Send(to, r, sent_to) ==
  /\ sent_to \/ faults < MaxFaults
  /\ high' = [high EXCEPT ![to] = IF seal_accepts(to, r.sequence) THEN r.sequence ELSE @]
  /\ sealed' = IF MayRestart /\ seal_accepts(to, r.sequence)
               THEN [sealed EXCEPT ![to] = @ \cup {r}] ELSE sealed

\* Mutant: the proxy looks at the time before it sends.
Datagrams_not_late(to, r, sent_to) ==
  IF send_result(to, r, sent_to) = "up" /\ (to = "gcs" => ~over("proxy")) THEN {r} ELSE {}

\* What wire[to] gets.
Datagrams(to, r, sent_to) ==
  IF send_result(to, r, sent_to) = "up" THEN {r} ELSE {}

VehicleUp == status["vehicle"] = "up"

VehicleUpdate ==
  /\ VehicleUp
  /\ vehicle.updates # <<>>
  /\ Pub!Update(Head(vehicle.updates)[1], Head(vehicle.updates)[2])
  /\ vehicle' = [vehicle EXCEPT !.updates = Tail(@)]
  /\ UNCHANGED <<status, duration, clocks, high, replay, proxy, wire, shown,
                 faults, history>>

\* The messages of poll, in the order of the types.
polled_messages ==
  LET order(s) == [Position |-> 1, Attitude |-> 2, Battery |-> 3][s]
      S        == Pub!polled(3)
      nth(n)   == CHOOSE s \in S : Cardinality({u \in S : order(u) < order(s)}) = n - 1
  IN  [n \in 1 .. Cardinality(S) |-> Pub!published(nth(n), Pub!due)]

VehiclePoll ==
  /\ VehicleUp
  /\ vehicle.updates = <<>> /\ ~vehicle.polled
  /\ Pub!PollDue(3) \/ Pub!PollChanged(3)
  /\ vehicle' = [vehicle EXCEPT !.polled = TRUE, !.messages = polled_messages]
  /\ UNCHANGED <<status, duration, clocks, high, replay, proxy, wire, shown,
                 faults, history>>

VehicleSend ==
  \E sent_to \in BOOLEAN :
    LET r      == [sequence |-> vehicle.sequence, message |-> Head(vehicle.messages),
                   origin |-> vehicle.sequence]
        result == send_result("proxy", r, sent_to)
    IN
    /\ VehicleUp
    /\ vehicle.messages # <<>>
    /\ vehicle' = [vehicle EXCEPT !.messages = Tail(@), !.sequence = @ + 1]
    /\ Send("proxy", r, sent_to)
    /\ wire' = [wire EXCEPT !["proxy"] = @ \cup Datagrams("proxy", r, sent_to)]
    /\ published' = IF result = "up" THEN published \cup {r.origin} ELSE published
    /\ End("vehicle", result)
    /\ faults' = IF sent_to THEN faults ELSE faults + 1
    /\ UNCHANGED <<publisher, duration, clocks, replay, proxy, shown, again>>

\* The end of the last iteration, and of any other.
VehicleEnd ==
  /\ VehicleUp
  /\ vehicle.polled /\ vehicle.messages = <<>>
  /\ now >= duration["vehicle"]
  /\ End("vehicle", "done")
  /\ UNCHANGED <<publisher, duration, clocks, vehicle, high, replay, proxy,
                 wire, shown, faults, history>>

VehicleSleep ==
  /\ VehicleUp
  /\ vehicle.polled /\ vehicle.messages = <<>>
  /\ now < duration["vehicle"] /\ waited["vehicle"] = 1
  /\ Pub!Tick
  /\ vehicle' = [vehicle EXCEPT !.updates = updates(now + 1), !.polled = FALSE]
  /\ Iterate("vehicle")
  /\ UNCHANGED <<status, duration, age, high, replay, proxy, wire, shown,
                 faults, history>>
-----------------------------------------------------------------------------
\* UdpEndpoint::receive returns datagram r to process p.
Arrives(p, r, fate) ==
  /\ status[p] = "up"
  /\ r.sequence + MaxOvertake >= replay[p].high_water
  /\ fate = "whole" \/ faults < MaxFaults

Fates == {"whole", "repeated", "damaged"}

\* What stays under way.
Left(p, r, fate) == IF fate = "repeated" THEN wire[p] ELSE wire[p] \ {r}

\* receive_uncommitted of a datagram.
open_error(p, r, fate) ==
  IF ~accepted(replay[p], r.sequence) THEN "Replay"
  ELSE IF fate = "damaged" THEN "AuthenticationFailed" ELSE "None"

\* The schema check of the proxy and of the ground station.  What fails it is
\* skipped and left uncommitted; the messages of the vehicle pass.
schema_accepts(m) == m.type \in Pub!Streams /\ Pub!decode_state(m)

\* An error ends the process, in the ground station without a word.
Refuse(p) ==
  \E r \in wire[p], fate \in Fates :
    /\ Arrives(p, r, fate)
    /\ open_error(p, r, fate) # "None"
    /\ wire' = [wire EXCEPT ![p] = Left(p, r, fate)]
    /\ End(p, open_error(p, r, fate))
    /\ faults' = IF fate = "whole" THEN faults ELSE faults + 1
    /\ UNCHANGED <<publisher, duration, clocks, vehicle, high, replay, proxy,
                   shown, history>>

\* Mutant: a process that is to run for some time does not look at the time
\* when it has waited in vain.
NothingReceived_forever(p) ==
  /\ status[p] = "up"
  /\ IF duration[p] = 0 THEN End(p, "Timeout") /\ UNCHANGED <<elapsed, waited>>
     ELSE Iterate(p) /\ UNCHANGED status

\* receive_uncommitted has set the error Timeout.
NothingReceived(p) ==
  /\ status[p] = "up"
  /\ IF duration[p] = 0 THEN End(p, "Timeout") /\ UNCHANGED <<elapsed, waited>>
     ELSE IF over(p) THEN End(p, "done") /\ UNCHANGED <<elapsed, waited>>
     ELSE Iterate(p) /\ UNCHANGED status

\* The time of select is over.
Timeout(p) ==
  /\ waited[p] = 1
  /\ NothingReceived(p)
  /\ UNCHANGED <<publisher, duration, age, vehicle, high, replay, proxy, wire,
                 shown, faults, history>>

\* select fails, or the datagram is empty: the same error, before its time.
ReceiveFails(p) ==
  /\ faults < MaxFaults
  /\ NothingReceived(p)
  /\ faults' = faults + 1
  /\ UNCHANGED <<publisher, duration, age, vehicle, high, replay, proxy, wire,
                 shown, history>>

\* Mutant: the record is not committed.
endpoint_commit_dropped(w, r) == w

\* NativeEndpoint::commit.  The window is the one that open_uncommitted asked,
\* so that it does not fail.
endpoint_commit(w, r) == commit(w, r.sequence)

\* Mutant: the record keeps the sequence of the vehicle.
egress_record_kept(r) == r

\* The header the proxy seals a record again under.
egress_record(r) == [r EXCEPT !.sequence = proxy.egress_sequence]

\* A record of the vehicle is opened, committed, sealed under the keys of the
\* other link with a sequence of the proxy's own, and sent.
Forward ==
  \E r \in wire["proxy"], fate \in Fates \ {"damaged"}, sent_to \in BOOLEAN :
    LET out    == egress_record(r)
        result == send_result("gcs", out, sent_to)
    IN
    /\ Arrives("proxy", r, fate)
    /\ open_error("proxy", r, fate) = "None"
    /\ schema_accepts(r.message)
    /\ replay' = [replay EXCEPT !["proxy"] = endpoint_commit(@, r)]
    /\ proxy' = [egress_sequence |-> proxy.egress_sequence + 1, received_any |-> TRUE]
    /\ Send("gcs", out, sent_to)
    /\ wire' = [wire EXCEPT !["proxy"] = Left("proxy", r, fate),
                            !["gcs"] = @ \cup Datagrams("gcs", out, sent_to)]
    /\ faults' = faults + (IF fate = "whole" THEN 0 ELSE 1) + (IF sent_to THEN 0 ELSE 1)
    /\ faults' <= MaxFaults
    /\ IF result # "up" THEN End("proxy", result) /\ UNCHANGED <<elapsed, waited>>
       ELSE IF over("proxy") THEN End("proxy", "done") /\ UNCHANGED <<elapsed, waited>>
       ELSE Iterate("proxy") /\ UNCHANGED status
    /\ UNCHANGED <<publisher, duration, age, vehicle, shown, published, again>>

\* A record of the proxy is opened, shown and committed.
Show ==
  \E r \in wire["gcs"], fate \in Fates \ {"damaged"} :
    /\ Arrives("gcs", r, fate)
    /\ open_error("gcs", r, fate) = "None"
    /\ schema_accepts(r.message)
    /\ replay' = [replay EXCEPT !["gcs"] = endpoint_commit(@, r)]
    /\ shown' = shown \cup {r.origin}
    /\ again' = IF r.origin \in shown THEN again \cup {r.origin} ELSE again
    /\ wire' = [wire EXCEPT !["gcs"] = Left("gcs", r, fate)]
    /\ faults' = IF fate = "whole" THEN faults ELSE faults + 1
    /\ IF over("gcs") THEN End("gcs", "done") /\ UNCHANGED <<elapsed, waited>>
       ELSE Iterate("gcs") /\ UNCHANGED status
    /\ UNCHANGED <<publisher, duration, age, vehicle, high, proxy,
                   published, sealed>>

\* Mutant: the ground station counts, and does not look at the count.
exit_code_uncounted(p) ==
  IF status[p] \in {"InvalidHeader", "unsent"} THEN 5
  ELSE IF p # "gcs" /\ status[p] # "done" THEN 4
  ELSE IF p = "proxy" /\ ~proxy.received_any THEN 4
  ELSE 0

\* What main returns.
exit_code(p) ==
  IF status[p] \in {"InvalidHeader", "unsent"} THEN 5
  ELSE IF p # "gcs" /\ status[p] # "done" THEN 4
  ELSE IF p = "proxy" /\ ~proxy.received_any THEN 4
  ELSE IF p = "gcs" /\ shown = {} THEN 4
  ELSE 0

\* The proxy is started again: its sessions, windows and counters are new,
\* and the keys are not.
RestartProxy ==
  /\ status["proxy"] # "up"
  /\ MayRestart
  /\ status' = [status EXCEPT !["proxy"] = "up"]
  /\ age' = [age EXCEPT !["proxy"] = 0]
  /\ elapsed' = [elapsed EXCEPT !["proxy"] = 0]
  /\ waited' = [waited EXCEPT !["proxy"] = 0]
  /\ high' = [high EXCEPT !["gcs"] = -1]
  /\ replay' = [replay EXCEPT !["proxy"] = EmptyWindow]
  /\ proxy' = [egress_sequence |-> 0, received_any |-> FALSE]
  /\ UNCHANGED <<publisher, duration, vehicle, wire, shown, faults, history>>

VehicleNext == VehicleUpdate \/ VehiclePoll \/ VehicleSend \/ VehicleEnd \/ VehicleSleep
ProxyNext == Refuse("proxy") \/ Timeout("proxy") \/ ReceiveFails("proxy") \/ Forward
GcsNext == Refuse("gcs") \/ Timeout("gcs") \/ ReceiveFails("gcs") \/ Show

Next == Tick \/ VehicleNext \/ ProxyNext \/ GcsNext

\* Time passes, the vehicle is given the processor, and select returns when
\* its time is over; nothing is assumed of the links.
Fairness ==
  WF_vars(Tick) /\ WF_vars(VehicleNext) /\ \A p \in Receivers : WF_vars(Timeout(p))

Spec == Init /\ [][Next]_vars /\ Fairness

\* The chain with a proxy that is started again.
RestartSpec == Init /\ [][Next \/ RestartProxy]_vars
-----------------------------------------------------------------------------
\* The ground station shows nothing twice and nothing that the vehicle has not
\* sent, whatever the two links repeat, damage and reorder.
ShownOnce == again = {} /\ shown \subseteq published

\* Datagrams that overtake each other within the window, or get lost, end no
\* process: only one that is repeated or damaged does, and a send that fails.
ReorderHarmless ==
  faults = 0 => \A p \in Processes : status[p] \in {"up", "done", "Timeout"}

\* No process swallows a message: without faults, what the vehicle has sent is
\* shown or still under way on one of the links.
NothingSwallowed ==
  faults = 0 =>
    published \subseteq shown \cup {r.origin : r \in wire["proxy"] \cup wire["gcs"]}

\* The exit codes tell the same story: without faults, when the ground station
\* reports success, so does whoever else has ended.
CodesAgree ==
  faults = 0 /\ status["gcs"] # "up" /\ exit_code("gcs") = 0 =>
    \A p \in Processes : status[p] # "up" => exit_code(p) = 0

\* Every process ends, with whatever datagrams arriving or none.
AllEnd == \A p \in Processes : <>(status[p] # "up")

\* No nonce is used for two messages: two records sealed for one receiver, by
\* whichever run of a process, differ in their sequence.
NonceFresh ==
  \A p \in Receivers : \A r, s \in sealed[p] :
    r.sequence = s.sequence => r.message = s.message
=============================================================================
