------------------------------ MODULE QosQueue ------------------------------
(***************************************************************************)
(* The operations of class BoundedQosQueue, include/new_mavlink/qos.hpp    *)
(* and src/qos.cpp, on the contents of a queue as a value:                 *)
(*   critical, events: sequences; state: a function from streams to        *)
(*   messages.                                                             *)
(***************************************************************************)
EXTENDS Messages, Sequences, FiniteSets

CONSTANT Capacity   \* capacity_

ASSUME CapacityAssumption == Capacity \in Nat

EmptyQueue == [critical |-> <<>>, events |-> <<>>, state |-> [k \in {} |-> {}]]

size(q) == Len(q.critical) + Cardinality(DOMAIN q.state) + Len(q.events)

is_state(m) == state_type(m.type) /\ m.qos = "StateLatest"

is_critical(m) ==
  ~is_state(m) /\ m.qos \in {"CriticalReliable", "CommandReliable"}
-----------------------------------------------------------------------------
\* Mutant: any message in a full queue makes room by dropping an event, and
\* the reliable ones are let in even when there is none.
push_verdict_unbounded(q, m, now) ==
  IF Capacity = 0 \/ m.length > kMaxPayloadBytes \/ expired(m, now) THEN "expired"
  ELSE IF is_state(m) /\ stream_key(m) \in DOMAIN q.state THEN "replaced"
  ELSE IF size(q) < Capacity \/ is_critical(m) THEN "added"
  ELSE IF q.events # <<>> THEN "evicted"
  ELSE "dropped"

\* What push does with a message.  The queue is never above its capacity, so
\* the loop that makes room for a state message runs once at most.
push_verdict(q, m, now) ==
  IF Capacity = 0 \/ m.length > kMaxPayloadBytes \/ expired(m, now) THEN "expired"
  ELSE IF is_state(m) /\ stream_key(m) \in DOMAIN q.state THEN "replaced"
  ELSE IF size(q) < Capacity THEN "added"
  ELSE IF is_critical(m) THEN "rejected_critical"
  ELSE IF q.events # <<>> THEN "evicted"
  ELSE "dropped"

\* The verdicts for which push returns true.
Admitted == {"replaced", "added", "evicted"}

\* Mutant: one slot for all streams of a type.
store_state_by_type(q, m) ==
  LET key == <<TypeCode[m.type], 0, 0>>
  IN  [q EXCEPT !.state =
        [k \in DOMAIN q.state \cup {key} |-> IF k = key THEN m ELSE q.state[k]]]

\* state_[key] = message
store_state(q, m) ==
  [q EXCEPT !.state =
     [k \in DOMAIN q.state \cup {stream_key(m)} |->
        IF k = stream_key(m) THEN m ELSE q.state[k]]]

\* Where an admitted message goes.
store(q, m) ==
  IF is_state(m) THEN store_state(q, m)
  ELSE IF is_critical(m) THEN [q EXCEPT !.critical = Append(@, m)]
  ELSE [q EXCEPT !.events = Append(@, m)]

\* Mutant: room is made at the expense of the reliable messages.
evict_critical(q) ==
  IF q.critical # <<>> THEN [q EXCEPT !.critical = Tail(@)]
  ELSE [q EXCEPT !.events = Tail(@)]

\* The oldest event makes room.
evict(q) == [q EXCEPT !.events = Tail(@)]

\* The contents push leaves, for a verdict of push_verdict.
push(q, m, verdict) ==
  IF verdict \notin Admitted THEN q
  ELSE store(IF verdict = "evicted" THEN evict(q) ELSE q, m)
-----------------------------------------------------------------------------
\* The index of the first message of a deque that has not expired, 0 if none.
FirstLive(s, now) ==
  IF \E i \in 1 .. Len(s) : ~expired(s[i], now)
  THEN CHOOSE i \in 1 .. Len(s) :
         /\ ~expired(s[i], now)
         /\ \A j \in 1 .. i - 1 : expired(s[j], now)
  ELSE 0

LiveKeys(q, now) == {k \in DOMAIN q.state : ~expired(q.state[k], now)}

\* The smallest live key of state_.
FirstKey(q, now) ==
  CHOOSE k \in LiveKeys(q, now) :
    \A l \in LiveKeys(q, now) \ {k} : KeyBefore(k, l)

After(s, i) == SubSeq(s, i + 1, Len(s))

\* Mutant: events are served before the reliable messages.
pop_source_events_first(q, now) ==
  IF FirstLive(q.events, now) # 0 THEN "events"
  ELSE IF FirstLive(q.critical, now) # 0 THEN "critical"
  ELSE IF LiveKeys(q, now) # {} THEN "state"
  ELSE "none"

\* Which of the three a pop is served from; what has expired is skipped.
pop_source(q, now) ==
  IF FirstLive(q.critical, now) # 0 THEN "critical"
  ELSE IF FirstLive(q.events, now) # 0 THEN "events"
  ELSE IF LiveKeys(q, now) # {} THEN "state"
  ELSE "none"

\* The message pop returns, when its source is not "none".
pop_message(q, now) ==
  LET from == pop_source(q, now) IN
  IF from = "critical" THEN q.critical[FirstLive(q.critical, now)]
  ELSE IF from = "events" THEN q.events[FirstLive(q.events, now)]
  ELSE q.state[FirstKey(q, now)]

\* Mutant: the newest reliable message is served, and not the oldest.
pop_newest_reliable(q, now) ==
  LET from == pop_source(q, now) IN
  IF from = "critical"
  THEN [q EXCEPT !.critical = SubSeq(@, 1, Len(@) - 1)]
  ELSE IF from = "events"
       THEN [q EXCEPT !.critical = <<>>,
                      !.events = After(@, FirstLive(q.events, now))]
  ELSE [q EXCEPT !.critical = <<>>, !.events = <<>>,
                 !.state = [k \in {l \in DOMAIN q.state :
                                     from = "state" /\ KeyBefore(FirstKey(q, now), l)}
                              |-> q.state[k]]]

\* The contents pop leaves: everything it went past is gone.
pop(q, now) ==
  LET from == pop_source(q, now) IN
  IF from = "critical" THEN [q EXCEPT !.critical = After(@, FirstLive(@, now))]
  ELSE IF from = "events"
       THEN [q EXCEPT !.critical = <<>>,
                      !.events = After(@, FirstLive(q.events, now))]
  ELSE [critical |-> <<>>, events |-> <<>>,
        state |-> [k \in {l \in DOMAIN q.state :
                            from = "state" /\ KeyBefore(FirstKey(q, now), l)}
                     |-> q.state[k]]]
=============================================================================
