-------------------------- MODULE PublisherProofs --------------------------
(***************************************************************************)
(* Theorems about Publisher, for every period, every range of generations  *)
(* and times, and all values that callers report; and about the cache of   *)
(* the proxy that a publisher sends to, in Telemetry.                      *)
(***************************************************************************)
EXTENDS Telemetry, FiniteSetTheorems, TLAPS

\* The meta of a stored value: its snapshot flag is set in messages only.
Metas ==
  [resource_id : Nat, generation : 1 .. GenerationMax, base_generation : Nat,
   source_id : Nat, snapshot : {0}]

\* Every variable has its type, and a stream has a generation, a value and a
\* report exactly when it was updated.
PublisherTypes ==
  /\ now \in 0 .. TimeMax
  /\ next_snapshot_ms \in 0 .. TimeMax
  /\ has \in [Streams -> BOOLEAN]
  /\ dirty \in [Streams -> BOOLEAN]
  /\ generation \in [Streams -> 0 .. GenerationMax]
  /\ DOMAIN state = Streams /\ DOMAIN sent = Streams /\ DOMAIN reported = Streams
  /\ \A s \in Streams :
       IF has[s]
       THEN state[s].meta \in Metas /\ state[s].meta.generation = generation[s]
       ELSE /\ generation[s] = 0 /\ ~dirty[s]
            /\ sent[s] = Nothing /\ reported[s] = Nothing

\* The last message of a stream is not ahead of the stream; where it has the
\* stream's generation, and generations are not used up, it has its value, and
\* there is nothing to send.
SentBehind ==
  \A s \in Streams : sent[s] # Nothing =>
    /\ has[s]
    /\ sent[s].meta.generation \in Nat
    /\ sent[s].meta.generation <= generation[s]
    /\ sent[s].meta.generation = generation[s] /\ generation[s] # GenerationMax =>
         ~dirty[s] /\ sent[s].body = state[s].body

\* The snapshot is never further away than a period from when the wait for it
\* began, and it is scheduled from the first update on unless that computes the
\* one time that wraps to 0.
SnapshotScheduled ==
  /\ since \in Nat /\ since <= now
  /\ next_snapshot_ms <= since + snapshot_period_ms
  /\ (\E s \in Streams : has[s]) /\ next_snapshot_ms = 0 =>
       since + snapshot_period_ms = TimeMax + 1

PublisherInv == PublisherTypes /\ SentBehind /\ SnapshotScheduled

-----------------------------------------------------------------------------
\* A time that is not past the last one does not wrap; any other does, and the
\* only one before twice the last that wraps to 0 is the one after the last.
LEMMA Wrapped ==
  ASSUME NEW t \in Nat, NEW n \in Nat
  PROVE  /\ t % (n + 1) \in 0 .. n
         /\ t % (n + 1) <= t
         /\ t <= n => t % (n + 1) = t
         /\ t # 0 /\ t <= 2 * n /\ t % (n + 1) = 0 => t = n + 1
<1>1. n + 1 \in Nat \ {0}
  OBVIOUS
<1>2. t % (n + 1) \in 0 .. n
  BY <1>1
<1>3. t <= n => t % (n + 1) = t
  BY <1>1
<1>4. t % (n + 1) <= t
  BY <1>2, <1>3
<1>5. ASSUME t # 0, t <= 2 * n, t % (n + 1) = 0
      PROVE  t = n + 1
  <2>1. t = (n + 1) * (t \div (n + 1)) /\ t \div (n + 1) \in Nat
    BY <1>1, <1>5
  <2>2. t \div (n + 1) < 2
    BY <1>5
  <2>3. t \div (n + 1) = 0 \/ t \div (n + 1) = 1
    BY <2>1, <2>2
  <2> QED
    BY <1>5, <2>1, <2>3
<1> QED
  BY <1>2, <1>3, <1>4, <1>5

\* The next generation is a generation, and a later one until they are used up.
LEMMA NextGeneration ==
  ASSUME NEW g \in 0 .. GenerationMax
  PROVE  /\ next_generation(g) \in 1 .. GenerationMax
         /\ g # GenerationMax => next_generation(g) > g
         /\ g <= next_generation(g)
BY PublisherAssumption DEF next_generation

\* The message of a stream has the generation and the value of the stream.
LEMMA PublishedMeaning ==
  ASSUME NEW s \in Streams, NEW flag \in BOOLEAN, state[s].meta \in Metas
  PROVE  /\ published(s, flag) # Nothing
         /\ published(s, flag).snapshot = flag
         /\ published(s, flag).body = state[s].body
         /\ published(s, flag).meta.generation = state[s].meta.generation
         /\ flag => /\ published(s, flag).meta.snapshot = 1
                    /\ published(s, flag).meta.base_generation = 0
<1>1. "type" \in DOMAIN published(s, flag) /\ "type" \notin DOMAIN Nothing
  BY DEF published, Nothing
<1> QED
  BY <1>1 DEF published, Metas

\* What a message that is sent changes of sent.
LEMMA SendMeaning ==
  ASSUME NEW S, NEW flag \in BOOLEAN, Send(S, flag), DOMAIN sent = Streams
  PROVE  /\ DOMAIN sent' = Streams
         /\ \A s \in Streams :
              sent'[s] = IF s \in S THEN published(s, flag) ELSE sent[s]
BY DEF Send

-----------------------------------------------------------------------------
(***************************************************************************)
(* The inductive invariant.                                                *)
(***************************************************************************)

\* Nothing is sent, stored or scheduled at the start.
LEMMA PublisherInit == Init => PublisherInv
BY PublisherAssumption
   DEF Init, PublisherInv, PublisherTypes, SentBehind, SnapshotScheduled

\* An update of a stream.
LEMMA UpdateStep ==
  ASSUME PublisherInv, NEW s \in Streams, NEW v \in Values[s], Update(s, v)
  PROVE  PublisherInv'
<1> DEFINE source == IF v.source_id = 0 THEN source_id ELSE v.source_id
           next   == next_generation(generation[s])
           base   == IF has[s] THEN generation[s] ELSE 0
           meta   == StateMeta(v.resource_id, next, base, source, 0)
<1> USE DEF PublisherInv
<1>0. /\ GenerationMax \in Nat /\ TimeMax \in Nat /\ source_id \in Nat
      /\ snapshot_period_ms \in Nat \ {0} /\ snapshot_period_ms <= TimeMax
      /\ v.resource_id \in Nat /\ v.source_id \in Nat
  BY PublisherAssumption
<1>1. generation[s] \in 0 .. GenerationMax
  BY DEF PublisherTypes
<1>2. /\ next \in 1 .. GenerationMax /\ generation[s] <= next
      /\ generation[s] # GenerationMax => next > generation[s]
  BY <1>1, NextGeneration
<1>3. meta \in Metas /\ meta.generation = next
  <2>1. base \in Nat /\ source \in Nat
    BY <1>0, <1>1
  <2> HIDE DEF base, source, next
  <2> QED
    BY <1>0, <1>2, <2>1 DEF StateMeta, Metas
<1>4. /\ DOMAIN state' = Streams
      /\ state'[s].meta = meta
      /\ \A t \in Streams \ {s} : state'[t] = state[t]
  BY DEF Update, PublisherTypes
<1> HIDE DEF meta, next
<1>5. /\ has' = [has EXCEPT ![s] = TRUE]
      /\ generation' = [generation EXCEPT ![s] = next]
      /\ dirty' = [dirty EXCEPT ![s] = TRUE]
      /\ next_snapshot_ms' = first_snapshot
      /\ reported' = [reported EXCEPT ![s] = v]
      /\ since' = (IF next_snapshot_ms = 0 THEN now ELSE since)
      /\ now' = now /\ sent' = sent
  BY DEF Update, next
<1>6. /\ first_snapshot \in 0 .. TimeMax
      /\ first_snapshot <= since' + snapshot_period_ms
      /\ first_snapshot = 0 => since' + snapshot_period_ms = TimeMax + 1
      /\ since' \in Nat /\ since' <= now
  <2>1. /\ now \in Nat /\ now + snapshot_period_ms \in Nat
        /\ now + snapshot_period_ms <= 2 * TimeMax
    BY <1>0 DEF PublisherTypes
  <2>2. /\ (now + snapshot_period_ms) % (TimeMax + 1) \in 0 .. TimeMax
        /\ (now + snapshot_period_ms) % (TimeMax + 1) <= now + snapshot_period_ms
        /\ now + snapshot_period_ms <= TimeMax =>
             (now + snapshot_period_ms) % (TimeMax + 1) = now + snapshot_period_ms
        /\ now + snapshot_period_ms # 0 /\ (now + snapshot_period_ms) % (TimeMax + 1) = 0 =>
             now + snapshot_period_ms = TimeMax + 1
    BY <1>0, <2>1, Wrapped
  <2>3. CASE next_snapshot_ms = 0
    <3>1. first_snapshot = (now + snapshot_period_ms) % (TimeMax + 1) /\ since' = now
      BY <1>5, <2>3 DEF first_snapshot
    <3>2. now + snapshot_period_ms # 0
      BY <1>0, <2>1
    <3> QED
      BY <2>1, <2>2, <3>1, <3>2
  <2>4. CASE next_snapshot_ms # 0
    BY <1>5, <2>4 DEF first_snapshot, PublisherTypes, SnapshotScheduled
  <2> QED
    BY <2>3, <2>4
<1>7. PublisherTypes'
  <2>1. \A t \in Streams :
          IF has'[t]
          THEN state'[t].meta \in Metas /\ state'[t].meta.generation = generation'[t]
          ELSE /\ generation'[t] = 0 /\ ~dirty'[t]
               /\ sent'[t] = Nothing /\ reported'[t] = Nothing
    BY <1>3, <1>4, <1>5 DEF PublisherTypes
  <2>2. /\ has' \in [Streams -> BOOLEAN] /\ dirty' \in [Streams -> BOOLEAN]
        /\ generation' \in [Streams -> 0 .. GenerationMax]
        /\ DOMAIN sent' = Streams /\ DOMAIN reported' = Streams
    BY <1>0, <1>2, <1>5 DEF PublisherTypes
  <2> QED
    BY <1>4, <1>5, <1>6, <2>1, <2>2 DEF PublisherTypes
<1>8. SentBehind'
  <2> SUFFICES ASSUME NEW t \in Streams, sent[t] # Nothing
               PROVE  /\ has'[t]
                      /\ sent[t].meta.generation \in Nat
                      /\ sent[t].meta.generation <= generation'[t]
                      /\ sent[t].meta.generation = generation'[t]
                           /\ generation'[t] # GenerationMax =>
                           ~dirty'[t] /\ sent[t].body = state'[t].body
    BY <1>5 DEF SentBehind
  <2>1. /\ has[t] /\ sent[t].meta.generation \in Nat
        /\ sent[t].meta.generation <= generation[t]
        /\ sent[t].meta.generation = generation[t] /\ generation[t] # GenerationMax =>
             ~dirty[t] /\ sent[t].body = state[t].body
    BY DEF SentBehind
  <2>2. CASE t = s
    <3>1. has'[t] /\ generation'[t] = next
      BY <1>5, <2>2 DEF PublisherTypes
    <3>2. next = GenerationMax \/ next > generation[s]
      BY <1>0, <1>1, <1>2
    <3> QED
      BY <1>0, <1>1, <1>2, <2>1, <2>2, <3>1, <3>2
  <2>3. CASE t # s
    <3>1. /\ has'[t] = has[t] /\ generation'[t] = generation[t]
          /\ dirty'[t] = dirty[t] /\ state'[t] = state[t]
      BY <1>4, <1>5, <2>3 DEF PublisherTypes
    <3> QED
      BY <2>1, <3>1
  <2> QED
    BY <2>2, <2>3
<1>9. SnapshotScheduled'
  BY <1>5, <1>6 DEF SnapshotScheduled
<1> QED
  BY <1>7, <1>8, <1>9

\* A poll, due or not: of the flags that were up some are left.
LEMMA PollStep ==
  ASSUME PublisherInv, NEW S, NEW flag \in BOOLEAN,
         S \subseteq {s \in Streams : has[s]},
         Send(S, flag),
         dirty' \in [Streams -> BOOLEAN],
         \A s \in Streams : dirty'[s] => dirty[s] /\ s \notin S,
         UNCHANGED <<now, has, state, generation, reported>>
  PROVE  /\ SentBehind'
         /\ next_snapshot_ms' \in 0 .. TimeMax => PublisherTypes'
<1> USE DEF PublisherInv
<1>1. /\ DOMAIN sent' = Streams
      /\ \A s \in Streams :
           sent'[s] = IF s \in S THEN published(s, flag) ELSE sent[s]
  BY SendMeaning DEF PublisherTypes
<1>2. \A s \in S : /\ published(s, flag).body = state[s].body
                   /\ published(s, flag).meta.generation = generation[s]
                   /\ generation[s] \in Nat
  BY PublishedMeaning, PublisherAssumption DEF PublisherTypes
<1>3. SentBehind'
  <2> SUFFICES ASSUME NEW s \in Streams, sent'[s] # Nothing
               PROVE  /\ has[s]
                      /\ sent'[s].meta.generation \in Nat
                      /\ sent'[s].meta.generation <= generation[s]
                      /\ sent'[s].meta.generation = generation[s]
                           /\ generation[s] # GenerationMax =>
                           ~dirty'[s] /\ sent'[s].body = state[s].body
    BY DEF SentBehind
  <2>1. CASE s \in S
    BY <1>1, <1>2, <2>1
  <2>2. CASE s \notin S
    BY <1>1, <2>2 DEF SentBehind
  <2> QED
    BY <2>1, <2>2
<1>4. ASSUME next_snapshot_ms' \in 0 .. TimeMax
      PROVE  PublisherTypes'
  <2>1. \A s \in Streams : ~has[s] =>
          ~dirty'[s] /\ sent'[s] = Nothing
    BY <1>1 DEF PublisherTypes
  <2> QED
    BY <1>1, <1>4, <2>1 DEF PublisherTypes
<1> QED
  BY <1>3, <1>4

\* The invariant is kept by every step.
LEMMA PublisherStep == PublisherInv /\ [Next]_vars => PublisherInv'
<1> SUFFICES ASSUME PublisherInv, [Next]_vars PROVE PublisherInv'
  OBVIOUS
<1>0. /\ TimeMax \in Nat /\ snapshot_period_ms \in Nat \ {0}
      /\ snapshot_period_ms <= TimeMax
      /\ now \in 0 .. TimeMax /\ next_snapshot_ms \in 0 .. TimeMax
  BY PublisherAssumption DEF PublisherInv, PublisherTypes
<1>1. ASSUME NEW s \in Streams, NEW v \in Values[s], Update(s, v)
      PROVE  PublisherInv'
  BY <1>1, UpdateStep
<1>2. ASSUME NEW s \in Streams, NEW v \in Values[s], UpdateUnchanged(s, v)
      PROVE  PublisherInv'
  <2>1. has[s]
    BY <1>2 DEF UpdateUnchanged, changed
  <2>2. /\ DOMAIN reported' = Streams
        /\ \A t \in Streams \ {s} : reported'[t] = reported[t]
    BY <1>2 DEF UpdateUnchanged, PublisherInv, PublisherTypes
  <2>3. PublisherTypes'
    BY <1>2, <2>1, <2>2 DEF UpdateUnchanged, PublisherInv, PublisherTypes
  <2> QED
    BY <1>2, <2>3 DEF UpdateUnchanged, PublisherInv, SentBehind, SnapshotScheduled
<1>3. \A capacity : polled(capacity) \subseteq {s \in Streams : has[s]}
  BY DEF polled, Within, buildable
<1>4. ASSUME NEW capacity \in Capacities, PollDue(capacity)
      PROVE  PublisherInv'
  <2>1. /\ next_snapshot_ms' \in 0 .. TimeMax
        /\ next_snapshot_ms' <= now + snapshot_period_ms
        /\ next_snapshot_ms' # 0
    BY <1>0, <1>4 DEF PollDue, schedule_next_snapshot
  <2>2. SentBehind' /\ PublisherTypes'
    BY <1>3, <1>4, <2>1, PollStep DEF PollDue
  <2> QED
    BY <1>0, <1>4, <2>1, <2>2 DEF PollDue, PublisherInv, SnapshotScheduled
<1>5. ASSUME NEW capacity \in Capacities, PollChanged(capacity)
      PROVE  PublisherInv'
  <2>1. /\ dirty' \in [Streams -> BOOLEAN]
        /\ \A s \in Streams : dirty'[s] => dirty[s] /\ s \notin polled(capacity)
    BY <1>5 DEF PollChanged, PublisherInv, PublisherTypes
  <2>2. next_snapshot_ms' \in 0 .. TimeMax
    BY <1>0, <1>5 DEF PollChanged
  <2>3. SentBehind' /\ PublisherTypes'
    BY <1>3, <1>5, <2>1, <2>2, PollStep DEF PollChanged
  <2> QED
    BY <1>5, <2>3 DEF PollChanged, PublisherInv, SnapshotScheduled
<1>6. CASE Tick
  <2>1. now' \in 0 .. TimeMax /\ now' = now + 1
    BY <1>0, <1>6 DEF Tick
  <2>2. PublisherTypes' /\ SentBehind'
    BY <1>6, <2>1 DEF Tick, PublisherInv, PublisherTypes, SentBehind
  <2>3. SnapshotScheduled'
    BY <1>0, <1>6, <2>1 DEF Tick, PublisherInv, SnapshotScheduled
  <2> QED
    BY <2>2, <2>3 DEF PublisherInv
<1>7. CASE UNCHANGED vars
  BY <1>7 DEF vars, PublisherInv, PublisherTypes, SentBehind, SnapshotScheduled
<1> QED
  BY <1>1, <1>2, <1>4, <1>5, <1>6, <1>7 DEF Next

\* The invariant holds of every reachable state.
LEMMA PublisherInvariant == Spec => []PublisherInv
BY PublisherInit, PublisherStep, PTL DEF Spec

-----------------------------------------------------------------------------
\* Once there is something to send, a snapshot is due one period at most after
\* the first update or the last snapshot, whatever is updated and however seldom
\* poll is called: up to the last value of the clock, but for the one where the
\* period's end wraps to 0.
THEOREM SnapshotAlwaysInSight == Spec => []SnapshotInSight
<1>1. PublisherInv => SnapshotInSight
  BY DEF PublisherInv, SnapshotScheduled, SnapshotInSight
<1> QED
  BY <1>1, PublisherInvariant, PTL

\* What a poll writes of a stream.
LEMMA PollWrites ==
  ASSUME PublisherInv, NEW capacity, NEW s \in Streams,
         PollDue(capacity) \/ PollChanged(capacity)
  PROVE  \/ sent'[s] = sent[s] /\ s \notin polled(capacity)
         \/ /\ s \in polled(capacity)
            /\ sent'[s] = published(s, due)
            /\ sent'[s] # Nothing
            /\ sent'[s].snapshot = due
            /\ sent'[s].body = state[s].body
            /\ sent'[s].meta.generation = generation[s]
            /\ due => sent'[s].meta.snapshot = 1 /\ sent'[s].meta.base_generation = 0
<1>1. Send(polled(capacity), due) /\ due \in BOOLEAN
  BY DEF PollDue, PollChanged, due
<1>2. sent'[s] = IF s \in polled(capacity) THEN published(s, due) ELSE sent[s]
  BY <1>1, SendMeaning DEF PublisherInv, PublisherTypes
<1>3. ASSUME s \in polled(capacity)
      PROVE  state[s].meta \in Metas /\ state[s].meta.generation = generation[s]
  BY <1>3 DEF polled, Within, buildable, PublisherInv, PublisherTypes
<1> QED
  BY <1>1, <1>2, <1>3, PublishedMeaning

\* The messages of a stream never go back, and two of one generation are of
\* one value, until generations are used up.
THEOREM GenerationsAlwaysAscend == Spec => GenerationsAscend
<1> DEFINE Ascends(s) ==
      sent'[s] # sent[s] /\ sent[s] # Nothing =>
        \/ sent'[s].meta.generation > sent[s].meta.generation
        \/ /\ sent'[s].snapshot
           /\ sent'[s].meta.generation = sent[s].meta.generation
           /\ sent'[s].body = sent[s].body
        \/ generation[s] = GenerationMax
<1>1. PublisherInv /\ [Next]_vars => [\A s \in Streams : Ascends(s)]_vars
  <2> SUFFICES ASSUME PublisherInv, Next, NEW s \in Streams,
                      sent'[s] # sent[s], sent[s] # Nothing,
                      generation[s] # GenerationMax
               PROVE  \/ sent'[s].meta.generation > sent[s].meta.generation
                      \/ /\ sent'[s].snapshot
                         /\ sent'[s].meta.generation = sent[s].meta.generation
                         /\ sent'[s].body = sent[s].body
    OBVIOUS
  <2>1. PICK capacity \in Capacities : PollDue(capacity) \/ PollChanged(capacity)
    BY DEF Next, Update, UpdateUnchanged, Tick
  <2>2. /\ s \in polled(capacity)
        /\ sent'[s].snapshot = due /\ sent'[s].body = state[s].body
        /\ sent'[s].meta.generation = generation[s]
    BY <2>1, PollWrites
  <2>3. /\ sent[s].meta.generation \in Nat /\ generation[s] \in Nat
        /\ sent[s].meta.generation <= generation[s]
        /\ sent[s].meta.generation = generation[s] =>
             ~dirty[s] /\ sent[s].body = state[s].body
    BY PublisherAssumption DEF PublisherInv, SentBehind, PublisherTypes
  <2>4. due \/ dirty[s]
    BY <2>2 DEF polled, Within
  <2> QED
    BY <2>2, <2>3, <2>4
<1> QED
  BY <1>1, PublisherInvariant, PTL DEF Spec, GenerationsAscend

\* An array of three has room for every stream that poll tries.
LEMMA RoomForAll ==
  ASSUME NEW S, S \subseteq Streams, NEW capacity \in Nat, capacity >= 3
  PROVE  Within(S, capacity) = S
<1>1. ASSUME NEW s \in S
      PROVE  Cardinality({t \in S : TypeCode[t] < TypeCode[s]}) < capacity
  <2> DEFINE T == {t \in S : TypeCode[t] < TypeCode[s]}
  <2>1. T \subseteq Streams \ {s}
    <3>1. TypeCode.Position = 18 /\ TypeCode.Attitude = 19 /\ TypeCode.Battery = 20
      BY DEF TypeCode
    <3>2. s = "Position" \/ s = "Attitude" \/ s = "Battery"
      BY DEF Streams
    <3>3. TypeCode[s] \in Nat
      BY <3>1, <3>2
    <3> QED
      BY <3>3
  <2>2. IsFiniteSet({"Position", "Attitude", "Battery"})
        /\ Cardinality({"Position", "Attitude", "Battery"}) = 3
    <3>1. IsFiniteSet({}) /\ Cardinality({}) = 0
      BY FS_EmptySet
    <3>2. IsFiniteSet({"Position"}) /\ Cardinality({"Position"}) = 1
      BY FS_Singleton
    <3>3. /\ IsFiniteSet({"Position"} \cup {"Attitude"})
          /\ Cardinality({"Position"} \cup {"Attitude"}) = 2
      BY <3>2, FS_AddElement
    <3>4. /\ IsFiniteSet(({"Position"} \cup {"Attitude"}) \cup {"Battery"})
          /\ Cardinality(({"Position"} \cup {"Attitude"}) \cup {"Battery"}) = 3
      BY <3>3, FS_AddElement
    <3>5. ({"Position"} \cup {"Attitude"}) \cup {"Battery"} =
            {"Position", "Attitude", "Battery"}
      OBVIOUS
    <3> QED
      BY <3>4, <3>5
  <2>3. IsFiniteSet(Streams \ {s}) /\ Cardinality(Streams \ {s}) = 2
    BY <2>2, FS_RemoveElement DEF Streams
  <2>4. IsFiniteSet(T) /\ Cardinality(T) <= 2 /\ Cardinality(T) \in Nat
    BY <2>1, <2>3, FS_Subset, FS_CardinalityType
  <2> QED
    BY <2>4
<1> QED
  BY <1>1 DEF Within

\* Nothing that was reported is forgotten, with an array of three or more: a
\* stream whose flag is down was sent as it is, or has no encoding.
THEOREM NothingLost ==
  ASSUME \A c \in Capacities : c >= 3
  PROVE  Spec => []NoLostChange
<1>1. Init => NoLostChange
  BY DEF Init, NoLostChange
<1>2. PublisherInv /\ NoLostChange /\ [Next]_vars => NoLostChange'
  <2> SUFFICES ASSUME PublisherInv, NoLostChange, [Next]_vars PROVE NoLostChange'
    OBVIOUS
  <2>1. ASSUME NEW capacity \in Capacities, PollDue(capacity) \/ PollChanged(capacity)
        PROVE  NoLostChange'
    <3> SUFFICES ASSUME NEW s \in Streams, has[s], buildable(s), ~dirty'[s]
                 PROVE  /\ sent'[s] # Nothing
                        /\ sent'[s].meta.generation = generation[s]
                        /\ sent'[s].body = state[s].body
      BY <2>1 DEF NoLostChange, buildable, PollDue, PollChanged
    <3>1. CASE s \in polled(capacity)
      BY <2>1, <3>1, PollWrites
    <3>2. CASE s \notin polled(capacity)
      <4>1. polled(capacity) = {t \in Streams : buildable(t) /\ (due \/ dirty[t])}
        BY RoomForAll, PublisherAssumption DEF polled
      <4>2. ~due /\ ~dirty[s]
        BY <3>2, <4>1
      <4>3. sent'[s] = sent[s]
        BY <2>1, <3>2, PollWrites
      <4> QED
        BY <4>2, <4>3 DEF NoLostChange
    <3> QED
      BY <3>1, <3>2
  <2>2. ASSUME NEW s \in Streams, NEW v \in Values[s], Update(s, v)
        PROVE  NoLostChange'
    <3> SUFFICES ASSUME NEW t \in Streams, (has[t] /\ buildable(t) /\ ~dirty[t])'
                 PROVE  /\ sent[t] # Nothing
                        /\ sent[t].meta.generation = generation'[t]
                        /\ sent[t].body = state'[t].body
      BY <2>2 DEF NoLostChange, Update
    <3>1. t # s
      BY <2>2 DEF Update, PublisherInv, PublisherTypes
    <3>2. /\ has'[t] = has[t] /\ state'[t] = state[t] /\ dirty'[t] = dirty[t]
          /\ generation'[t] = generation[t]
      BY <2>2, <3>1 DEF Update, PublisherInv, PublisherTypes
    <3>3. has[t] /\ buildable(t) /\ ~dirty[t]
      BY <3>2 DEF buildable
    <3> QED
      BY <3>2, <3>3 DEF NoLostChange
  <2>3. ASSUME UNCHANGED <<has, state, generation, dirty, sent>>
        PROVE  NoLostChange'
    BY <2>3 DEF NoLostChange, buildable
  <2>4. Tick \/ UNCHANGED vars \/ (\E s \in Streams : \E v \in Values[s] : UpdateUnchanged(s, v))
          => UNCHANGED <<has, state, generation, dirty, sent>>
    BY DEF Tick, vars, UpdateUnchanged
  <2> QED
    BY <2>1, <2>2, <2>3, <2>4 DEF Next
<1> QED
  BY <1>1, <1>2, PublisherInvariant, PTL DEF Spec

\* A snapshot that is due is put off only by a poll that sends it, and it has
\* every stream that has an encoding, as it is, with no base.
THEOREM SnapshotsComplete ==
  ASSUME \A c \in Capacities : c >= 3
  PROVE  Spec => SnapshotComplete
<1> DEFINE Complete ==
      next_snapshot_ms # 0 /\ next_snapshot_ms' # next_snapshot_ms =>
        /\ now >= next_snapshot_ms
        /\ \A s \in Streams : buildable(s) =>
             /\ sent'[s].snapshot /\ sent'[s].meta.snapshot = 1
             /\ sent'[s].meta.base_generation = 0
             /\ sent'[s].meta.generation = generation[s]
             /\ sent'[s].body = state[s].body
<1>1. PublisherInv /\ [Next]_vars => [Complete]_vars
  <2> SUFFICES ASSUME PublisherInv, Next, next_snapshot_ms # 0,
                      next_snapshot_ms' # next_snapshot_ms
               PROVE  Complete
    OBVIOUS
  <2>1. PICK capacity \in Capacities : PollDue(capacity)
    BY DEF Next, Update, UpdateUnchanged, PollChanged, Tick, first_snapshot
  <2>2. due
    BY <2>1 DEF PollDue
  <2>3. polled(capacity) = {s \in Streams : buildable(s) /\ (due \/ dirty[s])}
    BY RoomForAll, PublisherAssumption DEF polled
  <2>4. \A s \in Streams : buildable(s) => s \in polled(capacity)
    BY <2>2, <2>3
  <2>5. now >= next_snapshot_ms
    BY <2>2 DEF due
  <2> QED
    BY <2>1, <2>2, <2>4, <2>5, PollWrites
<1> QED
  BY <1>1, PublisherInvariant, PTL DEF Spec, SnapshotComplete

-----------------------------------------------------------------------------
\* The last report of a stream that has one is what the stream holds, a source
\* that was left out completed.
ReportHeld ==
  \A s \in Streams : has[s] =>
    /\ state[s].meta.resource_id = reported[s].resource_id
    /\ \/ state[s].meta.source_id = reported[s].source_id
       \/ reported[s].source_id = 0 /\ state[s].meta.source_id = source_id
    /\ state[s].body = reported[s].body

\* A value that repeats the one reported before starts no new generation, unless
\* it leaves its source to a publisher that has one: whatever callers report.
THEOREM RepeatsOnlyCompleted == Spec => RepeatsCompleted
<1>1. Init => ReportHeld
  BY DEF Init, ReportHeld
<1>2. PublisherInv /\ ReportHeld /\ [Next]_vars => ReportHeld'
  <2> SUFFICES ASSUME PublisherInv, ReportHeld, [Next]_vars PROVE ReportHeld'
    OBVIOUS
  <2>1. ASSUME NEW s \in Streams, NEW v \in Values[s], Update(s, v)
        PROVE  ReportHeld'
    <3>1. /\ \A t \in Streams \ {s} :
               has'[t] = has[t] /\ state'[t] = state[t] /\ reported'[t] = reported[t]
          /\ reported'[s] = v
      BY <2>1 DEF Update, PublisherInv, PublisherTypes
    <3>2. /\ state'[s].meta.resource_id = v.resource_id
          /\ \/ state'[s].meta.source_id = v.source_id
             \/ v.source_id = 0 /\ state'[s].meta.source_id = source_id
          /\ state'[s].body = v.body
      BY <2>1 DEF Update, PublisherInv, PublisherTypes, StateMeta
    <3> QED
      BY <3>1, <3>2 DEF ReportHeld
  <2>2. ASSUME NEW s \in Streams, NEW v \in Values[s], UpdateUnchanged(s, v)
        PROVE  ReportHeld'
    <3>1. /\ \A t \in Streams \ {s} : reported'[t] = reported[t]
          /\ reported'[s] = v
          /\ has' = has /\ state' = state
      BY <2>2 DEF UpdateUnchanged, PublisherInv, PublisherTypes
    <3>2. /\ state[s].meta.resource_id = v.resource_id
          /\ state[s].meta.source_id = v.source_id
          /\ state[s].body = v.body
      BY <2>2 DEF UpdateUnchanged, changed
    <3> QED
      BY <3>1, <3>2 DEF ReportHeld
  <2>3. ASSUME UNCHANGED <<has, state, reported>>
        PROVE  ReportHeld'
    BY <2>3 DEF ReportHeld
  <2> QED
    BY <2>1, <2>2, <2>3 DEF Next, PollDue, PollChanged, Tick, vars
<1>3. PublisherInv /\ ReportHeld /\ [Next]_vars =>
        [\A s \in Streams :
           generation'[s] # generation[s] /\ reported'[s] = reported[s] =>
             reported[s].source_id = 0 /\ source_id # 0]_vars
  <2> SUFFICES ASSUME PublisherInv, ReportHeld, Next, NEW s \in Streams,
                      generation'[s] # generation[s], reported'[s] = reported[s]
               PROVE  reported[s].source_id = 0 /\ source_id # 0
    OBVIOUS
  <2>0. PICK t \in Streams : \E v \in Values[t] : Update(t, v)
    BY DEF Next, UpdateUnchanged, PollDue, PollChanged, Tick
  <2>1. PICK v \in Values[t] : Update(t, v)
    BY <2>0
  <2>2. t = s
    BY <2>1 DEF Update, PublisherInv, PublisherTypes
  <2>3. reported'[s] = v /\ changed(s, v)
    BY <2>1, <2>2 DEF Update, PublisherInv, PublisherTypes
  <2>4. CASE has[s]
    BY <2>3, <2>4 DEF changed, ReportHeld
  <2>5. CASE ~has[s]
    <3>1. reported[s] = Nothing
      BY <2>5 DEF PublisherInv, PublisherTypes
    <3>2. "body" \in DOMAIN v /\ "body" \notin DOMAIN Nothing
      BY <2>2, PublisherAssumption DEF Nothing
    <3> QED
      BY <2>3, <3>1, <3>2
  <2> QED
    BY <2>4, <2>5
<1> QED
  BY <1>1, <1>2, <1>3, PublisherInvariant, PTL DEF Spec, RepeatsCompleted

-----------------------------------------------------------------------------
(***************************************************************************)
(* The publisher in Telemetry.  Each step of the chain is a step of the    *)
(* publisher, or none of its business, or a new start.                     *)
(***************************************************************************)

\* A message of the publisher's, of this run or of an earlier one, where the
\* publisher's generations are g and its values st, and the earlier runs ended
\* at the generations p: it is not ahead, and with a generation that only this
\* run has it has the value too.
Follows(m, g, p, st) ==
  /\ m.type \in Reported
  /\ m.meta.generation \in Nat
  /\ m.meta.generation <= (IF g[m.type] > p[m.type] THEN g[m.type] ELSE p[m.type])
  /\ m.meta.generation = g[m.type] /\ g[m.type] > p[m.type] => m.body = st[m.type].body

\* What is under way and what is cached follows the source, and a cached message
\* is filed under the number of its type.
NetFollows == \A m \in net : Follows(m, generation, peak, state)
CacheFollows ==
  \A k \in DOMAIN cache :
    /\ Follows(cache[k], generation, peak, state)
    /\ k[1] = TypeCode[cache[k].type]

FollowInv ==
  /\ PublisherInv
  /\ \A s \in Streams : has[s] => s \in Reported
  /\ peak \in [Reported -> 0 .. GenerationMax]
  /\ NetFollows
  /\ CacheFollows

\* The three streams have numbers of their own.
LEMMA StreamCodes ==
  /\ \A s \in Streams : TypeCode[s] \in Nat
  /\ \A s, t \in Streams : TypeCode[s] = TypeCode[t] => s = t
<1>1. TypeCode.Position = 18 /\ TypeCode.Attitude = 19 /\ TypeCode.Battery = 20
  BY DEF TypeCode
<1>2. \A s \in Streams : s = "Position" \/ s = "Attitude" \/ s = "Battery"
  BY DEF Streams
<1> QED
  BY <1>1, <1>2

\* Whether the key of a message has a StateMeta in it or not, it begins with the
\* number of the type.
LEMMA KeyBegins ==
  ASSUME NEW m
  PROVE  Prx!stream_key(m)[1] = TypeCode[m.type]
BY DEF Prx!stream_key, Prx!TypeCode, TypeCode

\* The chain starts with nothing sent.
LEMMA FollowInit == TelemetryInit => FollowInv
<1> SUFFICES ASSUME TelemetryInit PROVE FollowInv
  OBVIOUS
<1>1. PublisherInv
  BY PublisherInit DEF TelemetryInit
<1>2. cache = Prx!NoFunction /\ DOMAIN cache = {}
  BY DEF TelemetryInit, Prx!NoFunction
<1>3. \A s \in Streams : ~has[s]
  BY DEF TelemetryInit, Init
<1> QED
  BY <1>1, <1>2, <1>3, PublisherAssumption DEF TelemetryInit, FollowInv, NetFollows, CacheFollows

\* A message that follows still does when a stream gets its next generation.
LEMMA FollowsReport ==
  ASSUME FollowInv, NEW s \in Reported, NEW v \in Values[s], Update(s, v),
         generation[s] < GenerationMax, UNCHANGED peak,
         NEW m, Follows(m, generation, peak, state)
  PROVE  Follows(m, generation', peak', state')
<1>0. s \in Streams /\ m.type \in Streams /\ Reported \subseteq Streams
  BY TelemetryAssumption DEF Follows
<1>1. /\ generation \in [Streams -> 0 .. GenerationMax] /\ DOMAIN state = Streams
      /\ peak \in [Reported -> 0 .. GenerationMax] /\ GenerationMax \in Nat
  BY PublisherAssumption DEF FollowInv, PublisherInv, PublisherTypes
<1>2. generation[s] \in 0 .. GenerationMax /\ generation[s] # GenerationMax
  BY <1>0, <1>1
<1>3. /\ next_generation(generation[s]) > generation[s]
      /\ next_generation(generation[s]) \in 1 .. GenerationMax
  BY <1>2, NextGeneration
<1>4. /\ generation' = [generation EXCEPT ![s] = next_generation(generation[s])]
      /\ \A t \in Streams \ {s} : state'[t] = state[t]
  BY <1>1 DEF Update
<1>5. CASE m.type = s
  <2>1. generation'[m.type] > generation[m.type] /\ generation'[m.type] \in Nat
    BY <1>0, <1>1, <1>3, <1>4, <1>5
  <2>2. /\ m.meta.generation \in Nat /\ generation[m.type] \in Nat /\ peak[m.type] \in Nat
        /\ m.meta.generation <= generation[m.type] \/ m.meta.generation <= peak[m.type]
    BY <1>0, <1>1, <1>5 DEF Follows
  <2>3. m.meta.generation <= generation'[m.type] \/ m.meta.generation <= peak[m.type]
    BY <2>1, <2>2
  <2> QED
    BY <1>5, <2>1, <2>2, <2>3 DEF Follows
<1>6. CASE m.type # s
  <2>1. generation'[m.type] = generation[m.type] /\ state'[m.type] = state[m.type]
    BY <1>0, <1>1, <1>4, <1>6
  <2> QED
    BY <2>1 DEF Follows
<1> QED
  BY <1>5, <1>6

\* And when the publisher starts again, for its generations are past ones then.
LEMMA FollowsRestart ==
  ASSUME FollowInv, Restart, NEW m, Follows(m, generation, peak, state)
  PROVE  Follows(m, generation', peak', state')
<1>0. m.type \in Reported /\ m.type \in Streams
  BY TelemetryAssumption DEF Follows
<1>1. generation[m.type] \in Nat /\ peak[m.type] \in Nat
  BY <1>0, PublisherAssumption DEF FollowInv, PublisherInv, PublisherTypes
<1>2. /\ generation'[m.type] = 0
      /\ peak'[m.type] = IF generation[m.type] > peak[m.type]
                         THEN generation[m.type] ELSE peak[m.type]
  BY <1>0 DEF Restart
<1> QED
  BY <1>0, <1>1, <1>2 DEF Follows

\* What poll sends follows.
LEMMA FollowsPublished ==
  ASSUME FollowInv, NEW capacity, NEW s \in polled(capacity)
  PROVE  Follows(published(s, due), generation, peak, state)
<1>1. s \in Streams /\ has[s] /\ s \in Reported
  BY DEF polled, Within, buildable, FollowInv
<1>2. /\ state[s].meta \in Metas /\ state[s].meta.generation = generation[s]
      /\ generation[s] \in Nat /\ peak[s] \in Nat
  BY <1>1, PublisherAssumption DEF FollowInv, PublisherInv, PublisherTypes
<1>3. due \in BOOLEAN
  BY DEF due
<1>4. /\ published(s, due).body = state[s].body
      /\ published(s, due).meta.generation = generation[s]
  BY <1>1, <1>2, <1>3, PublishedMeaning
<1>5. published(s, due).type = s
  BY DEF published
<1> QED
  BY <1>1, <1>2, <1>4, <1>5 DEF Follows

\* A delivery caches the message that was delivered, or nothing.
LEMMA DeliverCaches ==
  ASSUME NEW m, Deliver(m)
  PROVE  \A k \in DOMAIN cache' :
           \/ cache'[k] = m /\ k[1] = TypeCode[m.type]
           \/ k \in DOMAIN cache /\ cache'[k] = cache[k]
<1>1. CASE Prx!Ingest(source_id, m, 0)
  <2>1. cache' = cache \/ cache' = Prx!With(cache, Prx!stream_key(m), m)
    BY <1>1 DEF Prx!Ingest
  <2>2. CASE cache' = Prx!With(cache, Prx!stream_key(m), m)
    <3>1. /\ DOMAIN cache' = DOMAIN cache \cup {Prx!stream_key(m)}
          /\ \A k \in DOMAIN cache' :
               cache'[k] = IF k = Prx!stream_key(m) THEN m ELSE cache[k]
      BY <2>2 DEF Prx!With
    <3> QED
      BY <3>1, KeyBegins
  <2> QED
    BY <2>1, <2>2
<1>2. CASE Prx!IngestGap(source_id, m)
  BY <1>2 DEF Prx!IngestGap
<1>3. CASE Dropped(m)
  BY <1>3 DEF Dropped, proxy
<1> QED
  BY <1>1, <1>2, <1>3 DEF Deliver

\* A start again is a start, for the publisher.
LEMMA RestartStarts == Restart => PublisherInv'
BY PublisherAssumption
   DEF Restart, PublisherInv, PublisherTypes, SentBehind, SnapshotScheduled

\* The invariant is kept by every step.
LEMMA FollowStep == FollowInv /\ [TelemetryNext]_all_vars => FollowInv'
<1> SUFFICES ASSUME FollowInv, [TelemetryNext]_all_vars PROVE FollowInv'
  OBVIOUS
<1> USE DEF FollowInv
<1>1. CASE Report
  <2>0. PICK s \in Reported :
          generation[s] < GenerationMax /\ \E v \in Values[s] : Update(s, v)
    BY <1>1 DEF Report
  <2>1. PICK v \in Values[s] : Update(s, v)
    BY <2>0
  <2>2. s \in Streams
    BY TelemetryAssumption
  <2>3. PublisherInv'
    BY <2>1, <2>2, UpdateStep
  <2>4. UNCHANGED <<cache, net, peak>>
    BY <1>1 DEF Report, proxy
  <2>5. \A m : Follows(m, generation, peak, state) => Follows(m, generation', peak', state')
    BY <2>0, <2>1, <2>4, FollowsReport
  <2>6. \A t \in Streams : has'[t] => t \in Reported
    BY <2>1 DEF Update, PublisherInv, PublisherTypes
  <2>7. NetFollows' /\ CacheFollows'
    BY <2>4, <2>5 DEF NetFollows, CacheFollows
  <2> QED
    BY <2>3, <2>4, <2>6, <2>7
<1>2. CASE Wait
  <2>1. PublisherInv'
    BY <1>2, PublisherStep DEF Wait, Next
  <2>2. UNCHANGED <<has, state, generation, cache, net, peak>>
    BY <1>2 DEF Wait, Tick, proxy
  <2> QED
    BY <2>1, <2>2 DEF NetFollows, CacheFollows
<1>3. CASE Poll
  <2>1. PICK capacity \in Capacities :
          /\ PollDue(capacity) \/ PollChanged(capacity)
          /\ net' = net \cup {published(s, due) : s \in polled(capacity)}
    BY <1>3 DEF Poll
  <2>2. PublisherInv'
    BY <2>1, PublisherStep DEF Next
  <2>3. UNCHANGED <<has, state, generation, cache, peak>>
    BY <1>3, <2>1 DEF Poll, PollDue, PollChanged, proxy
  <2>4. \A m \in net' : Follows(m, generation, peak, state)
    BY <2>1, FollowsPublished DEF NetFollows
  <2> QED
    BY <2>2, <2>3, <2>4 DEF NetFollows, CacheFollows
<1>4. CASE Restart
  <2>1. PublisherInv'
    BY <1>4, RestartStarts
  <2>2. UNCHANGED <<cache, net>> /\ \A s \in Streams : ~has'[s]
    BY <1>4 DEF Restart, proxy
  <2>3. \A m : Follows(m, generation, peak, state) => Follows(m, generation', peak', state')
    BY <1>4, FollowsRestart
  <2>4. peak' \in [Reported -> 0 .. GenerationMax]
    BY <1>4, TelemetryAssumption DEF Restart, PublisherInv, PublisherTypes
  <2> QED
    BY <2>1, <2>2, <2>3, <2>4 DEF NetFollows, CacheFollows
<1>5. ASSUME NEW m \in net, Deliver(m) PROVE FollowInv'
  <2>1. UNCHANGED <<vars, peak>> /\ net' \subseteq net
    BY <1>5 DEF Deliver
  <2>2. PublisherInv'
    BY <2>1, PublisherStep
  <2>3. UNCHANGED <<has, state, generation>>
    BY <2>1 DEF vars
  <2>4. NetFollows'
    BY <2>1, <2>3 DEF NetFollows
  <2>5. Follows(m, generation, peak, state)
    BY DEF NetFollows
  <2>6. CacheFollows'
    BY <1>5, <2>1, <2>3, <2>5, DeliverCaches DEF CacheFollows
  <2> QED
    BY <2>1, <2>2, <2>3, <2>4, <2>6
<1>6. CASE (\E s \in Reported : Subscribe(s)) \/ Receive \/ NextResync
  <2>1. UNCHANGED <<vars, net, peak, cache>>
    BY <1>6 DEF Subscribe, Prx!Subscribe, Receive, Prx!NextMessage, NextResync, Prx!NextResync
  <2>2. PublisherInv'
    BY <2>1, PublisherStep
  <2> QED
    BY <2>1, <2>2 DEF vars, NetFollows, CacheFollows
<1>7. CASE UNCHANGED all_vars
  <2>1. UNCHANGED <<vars, net, peak, cache>>
    BY <1>7 DEF all_vars, proxy
  <2>2. PublisherInv'
    BY <2>1, PublisherStep
  <2> QED
    BY <2>1, <2>2 DEF vars, NetFollows, CacheFollows
<1> QED
  BY <1>1, <1>2, <1>3, <1>4, <1>5, <1>6, <1>7 DEF TelemetryNext

\* However the messages of a publisher are lost and overtaken on their way, the
\* cache of the proxy is ahead of what the publisher has reported only while its
\* process, started again, has not counted past the generations of its earlier
\* runs; and beyond those it has the present value whenever it has the present
\* generation.
THEOREM CacheAlwaysFollows == TelemetrySpec => []CacheFollowsSource
<1>1. FollowInv => CacheFollowsSource
  <2> SUFFICES ASSUME FollowInv, NEW s \in Reported, has[s], Key(s) \in DOMAIN cache
               PROVE  LET m == cache[Key(s)] IN
                      /\ m.meta.generation <=
                           (IF generation[s] > peak[s] THEN generation[s] ELSE peak[s])
                      /\ m.meta.generation = generation[s] /\ generation[s] > peak[s] =>
                           m.body = state[s].body
    BY DEF CacheFollowsSource
  <2>1. /\ Follows(cache[Key(s)], generation, peak, state)
        /\ Key(s)[1] = TypeCode[cache[Key(s)].type]
    BY DEF FollowInv, CacheFollows
  <2>2. Key(s)[1] = TypeCode[s]
    BY DEF Key
  <2>3. cache[Key(s)].type \in Streams /\ s \in Streams
    BY <2>1, TelemetryAssumption DEF Follows
  <2>4. cache[Key(s)].type = s
    BY <2>1, <2>2, <2>3, StreamCodes
  <2> QED
    BY <2>1, <2>4 DEF Follows
<1> QED
  BY <1>1, FollowInit, FollowStep, PTL DEF TelemetrySpec
=============================================================================
