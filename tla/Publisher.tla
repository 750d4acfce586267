----------------------------- MODULE Publisher -----------------------------
(***************************************************************************)
(* Class StatePublisher, include/new_mavlink/publisher.hpp and             *)
(* src/publisher.cpp: it keeps the last position, attitude and battery,    *)
(* sends a delta of what has changed at the next poll, and a snapshot of   *)
(* everything once per period.                                             *)
(*                                                                         *)
(* The three update_, changed_ and build_ functions differ in the fields   *)
(* of a value only; here they are one, with the stream as a parameter.     *)
(***************************************************************************)
EXTENDS Messages, FiniteSets

CONSTANTS
  source_id,           \* the ids of the publisher and of its peer
  destination_id,
  snapshot_period_ms,  \* the period the constructor settles on, never 0
  GenerationMax,       \* the largest generation: UINT32_MAX
  TimeMax,             \* the largest time: UINT64_MAX
  Values,              \* Values[s]: what callers report for stream s, records
                       \*   of a resource_id, a source_id, a body, in_range
  Capacities           \* the output_capacity of the calls of poll

Streams == {"Position", "Attitude", "Battery"}

ASSUME PublisherAssumption ==
  /\ source_id \in Nat /\ destination_id \in Nat
  /\ snapshot_period_ms \in Nat \ {0}
  /\ GenerationMax \in Nat \ {0} /\ TimeMax \in Nat
  /\ snapshot_period_ms <= TimeMax
  /\ Capacities \subseteq Nat
  /\ \A s \in Streams : \A v \in Values[s] :
       /\ DOMAIN v = {"resource_id", "source_id", "body", "in_range"}
       /\ v.resource_id \in Nat /\ v.source_id \in Nat
       /\ v.in_range \in BOOLEAN

VARIABLES
  now,               \* the clock of the caller
  has,               \* state_.has_position, ...
  state,             \* state_.position, ..., its meta included
  generation,        \* position_generation_, ...
  dirty,             \* position_dirty_, ...
  next_snapshot_ms,  \* next_snapshot_ms_, 0 before the first update
  sent,              \* the last message that poll wrote for each stream
  reported,          \* history: the last value callers reported
  since              \* history: when the wait for the next snapshot began

vars == <<now, has, state, generation, dirty, next_snapshot_ms, sent, reported, since>>

Nothing == [none |-> TRUE]

Init ==
  /\ now = 0
  /\ has = [s \in Streams |-> FALSE]
  /\ state = [s \in Streams |-> Nothing]
  /\ generation = [s \in Streams |-> 0]
  /\ dirty = [s \in Streams |-> FALSE]
  /\ next_snapshot_ms = 0
  /\ sent = [s \in Streams |-> Nothing]
  /\ reported = [s \in Streams |-> Nothing]
  /\ since = 0
-----------------------------------------------------------------------------
\* Mutant: the generation wraps at its width.
next_generation_wraps(current) == IF current = GenerationMax THEN 1 ELSE current + 1

\* Mutant: the generation stays where it starts.
next_generation_stuck(current) == 1

next_generation(current) == IF current = GenerationMax THEN current ELSE current + 1

\* Mutant: every report counts as a change.
changed_always(s, v) == TRUE

\* changed_position, changed_attitude, changed_battery
changed(s, v) ==
  has[s] => \/ state[s].meta.resource_id # v.resource_id
            \/ state[s].meta.source_id # v.source_id
            \/ state[s].body # v.body

\* Mutant: no update starts the snapshots.
first_snapshot_never == next_snapshot_ms

\* Mutant: every update puts the snapshot off.
first_snapshot_restarted == (now + snapshot_period_ms) % (TimeMax + 1)

\* When the next snapshot is due after an update: the first update sets it,
\* in arithmetic that wraps.
first_snapshot ==
  IF next_snapshot_ms = 0 THEN (now + snapshot_period_ms) % (TimeMax + 1)
  ELSE next_snapshot_ms

\* update_position, update_attitude, update_battery, returning true; one that
\* returns false has changed nothing.
Update(s, v) ==
  LET source == IF v.source_id = 0 THEN source_id ELSE v.source_id
      next   == next_generation(generation[s])
  IN
  /\ changed(s, v)
  /\ state' = [state EXCEPT ![s] =
                 [meta |-> StateMeta(v.resource_id, next,
                                     IF has[s] THEN generation[s] ELSE 0,
                                     source, 0),
                  body |-> v.body, in_range |-> v.in_range]]
  /\ has' = [has EXCEPT ![s] = TRUE]
  /\ generation' = [generation EXCEPT ![s] = next]
  /\ dirty' = [dirty EXCEPT ![s] = TRUE]
  /\ next_snapshot_ms' = first_snapshot
  /\ reported' = [reported EXCEPT ![s] = v]
  /\ since' = IF next_snapshot_ms = 0 THEN now ELSE since
  /\ UNCHANGED <<now, sent>>

\* A call of update_ that returns false.
UpdateUnchanged(s, v) ==
  /\ ~changed(s, v)
  /\ reported' = [reported EXCEPT ![s] = v]
  /\ UNCHANGED <<now, has, state, generation, dirty, next_snapshot_ms, sent, since>>
-----------------------------------------------------------------------------
\* The message build_position, build_attitude, build_battery write; snapshot
\* is the flag of the header and the kind of the PublishedMessage.
published(s, snapshot) ==
  [type |-> s, qos |-> "StateLatest", source_id |-> source_id,
   destination_id |-> destination_id, deadline_ms |-> 0,
   length |-> kStateBytes[s], snapshot |-> snapshot,
   meta |-> [state[s].meta EXCEPT !.snapshot = IF snapshot THEN 1 ELSE 0,
                                  !.base_generation = IF snapshot THEN 0 ELSE @],
   body |-> state[s].body, in_range |-> state[s].in_range]

\* Whether they return true.
buildable(s) == has[s] /\ encode_state(state[s].meta, state[s].in_range)

\* Mutant: the last place of the array is not used.
Within_one_less(S, capacity) ==
  {s \in S : Cardinality({t \in S : TypeCode[t] < TypeCode[s]}) < capacity - 1}

\* poll tries the streams in this order, until the caller's array is full.
Within(S, capacity) ==
  {s \in S : Cardinality({t \in S : TypeCode[t] < TypeCode[s]}) < capacity}

due == next_snapshot_ms # 0 /\ now >= next_snapshot_ms

\* schedule_next_snapshot, which does not wrap
schedule_next_snapshot ==
  IF now > TimeMax - snapshot_period_ms THEN TimeMax ELSE now + snapshot_period_ms

\* The streams that poll writes a message of: all of them when a snapshot is
\* due, those that have changed otherwise.
polled(capacity) ==
  Within({s \in Streams : buildable(s) /\ (due \/ dirty[s])}, capacity)

\* Messages of the streams of S are written to the caller's array.
Send(S, snapshot) ==
  sent' = [s \in Streams |-> IF s \in S THEN published(s, snapshot) ELSE sent[s]]

\* poll when a snapshot is due: all flags fall, whatever was written.
PollDue(capacity) ==
  /\ capacity > 0
  /\ due
  /\ Send(polled(capacity), TRUE)
  /\ dirty' = [s \in Streams |-> FALSE]
  /\ next_snapshot_ms' = schedule_next_snapshot
  /\ since' = now
  /\ UNCHANGED <<now, has, state, generation, reported>>

\* poll otherwise: the flags of what was written fall.
PollChanged(capacity) ==
  /\ capacity > 0
  /\ ~due
  /\ Send(polled(capacity), FALSE)
  /\ dirty' = [s \in Streams |-> dirty[s] /\ s \notin polled(capacity)]
  /\ UNCHANGED <<now, has, state, generation, next_snapshot_ms, reported, since>>

Tick ==
  /\ now < TimeMax
  /\ now' = now + 1
  /\ UNCHANGED <<has, state, generation, dirty, next_snapshot_ms, sent, reported, since>>

Next ==
  \/ \E s \in Streams : \E v \in Values[s] : Update(s, v) \/ UpdateUnchanged(s, v)
  \/ \E capacity \in Capacities : PollDue(capacity) \/ PollChanged(capacity)
  \/ Tick

Spec == Init /\ [][Next]_vars
-----------------------------------------------------------------------------
\* Nothing that was reported is forgotten: when a stream is not marked for the
\* next poll, the last message sent of it has its present generation and body,
\* or it has no encoding.  The array has room for the three streams.
NoLostChange ==
  \A s \in Streams :
    has[s] /\ buildable(s) /\ ~dirty[s] =>
      /\ sent[s] # Nothing
      /\ sent[s].meta.generation = generation[s]
      /\ sent[s].body = state[s].body

\* The messages of a stream never go back: a later one has a later generation,
\* or is a snapshot of the same value, until the generations are used up.
GenerationsAscend ==
  [][\A s \in Streams :
       sent'[s] # sent[s] /\ sent[s] # Nothing =>
         \/ sent'[s].meta.generation > sent[s].meta.generation
         \/ /\ sent'[s].snapshot
            /\ sent'[s].meta.generation = sent[s].meta.generation
            /\ sent'[s].body = sent[s].body
         \/ generation[s] = GenerationMax]_vars

\* The wait for a snapshot is one period at most, from the first update or the
\* last snapshot on, however many updates come in between.  Where the sum of
\* update_position wraps (publisher.cpp:59) the snapshot comes early, but for
\* the one millisecond of the clock where it wraps to 0: a first update then
\* schedules none, and leaves that to the next update.
SnapshotInSight ==
  (\E s \in Streams : has[s]) =>
    /\ since <= now
    /\ next_snapshot_ms <= since + snapshot_period_ms
    /\ next_snapshot_ms = 0 => since + snapshot_period_ms = TimeMax + 1

\* A snapshot that is due is not put off but by a poll that sends it, and a
\* receiver that has it needs nothing else: every stream that has an encoding
\* is in it, with its present generation and body, and with no base.
SnapshotComplete ==
  [][next_snapshot_ms # 0 /\ next_snapshot_ms' # next_snapshot_ms =>
       /\ now >= next_snapshot_ms
       /\ \A s \in Streams : buildable(s) =>
            /\ sent'[s].snapshot /\ sent'[s].meta.snapshot = 1
            /\ sent'[s].meta.base_generation = 0
            /\ sent'[s].meta.generation = generation[s]
            /\ sent'[s].body = state[s].body]_vars

\* A value that repeats the one reported before starts no new generation, and
\* so is not sent again: "messages that do not change are not repeated"
\* (docs/FINAL_ACCEPTANCE_SPEC.md:21).
UnchangedIgnored ==
  [][\A s \in Streams :
       generation'[s] # generation[s] => reported'[s] # reported[s]]_vars

\* What the code keeps of that: the one repeat that starts a new generation is
\* of a value whose source_id is left at 0 for the publisher to complete, which
\* changed_position compares before it is completed (publisher.cpp:33, :57).
RepeatsCompleted ==
  [][\A s \in Streams :
       generation'[s] # generation[s] /\ reported'[s] = reported[s] =>
         reported[s].source_id = 0 /\ source_id # 0]_vars
=============================================================================
