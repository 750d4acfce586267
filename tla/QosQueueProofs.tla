--------------------------- MODULE QosQueueProofs ---------------------------
(***************************************************************************)
(* What the operations of QosQueue do to the contents of a queue, for      *)
(* every capacity and every set M of messages: the lemmas that the proofs  *)
(* about a queue and about the queues of a proxy share.                    *)
(***************************************************************************)
EXTENDS QosQueue, FiniteSetTheorems, SequenceTheorems, WellFoundedInduction, TLAPS

\* The contents of a queue, and the part of TypeOK about them, as facts of a
\* value: a state_ has finitely many streams, each filed under its own key.
Streams(M) == {stream_key(m) : m \in M}

States(M) == UNION {[K -> M] : K \in SUBSET Streams(M)}

Contents(M) == [critical : Seq(M), events : Seq(M), state : States(M)]

Filed(q) ==
  /\ \A i \in 1 .. Len(q.critical) : is_critical(q.critical[i])
  /\ \A i \in 1 .. Len(q.events) : ~is_critical(q.events[i]) /\ ~is_state(q.events[i])
  /\ \A k \in DOMAIN q.state : is_state(q.state[k]) /\ stream_key(q.state[k]) = k

Good(M, q) == q \in Contents(M) /\ IsFiniteSet(DOMAIN q.state) /\ Filed(q)

\* The size of a queue is a number.
LEMMA SizeType ==
  ASSUME NEW M, NEW q, Good(M, q)
  PROVE  /\ size(q) \in Nat
         /\ Len(q.critical) \in Nat /\ Len(q.events) \in Nat
         /\ Cardinality(DOMAIN q.state) \in Nat
<1>1. Len(q.critical) \in Nat /\ Len(q.events) \in Nat
  BY DEF Good, Contents
<1>2. Cardinality(DOMAIN q.state) \in Nat
  BY FS_CardinalityType DEF Good
<1> QED
  BY <1>1, <1>2 DEF size

\* The domain of state_ is a set of streams.
LEMMA StateType ==
  ASSUME NEW M, NEW s \in States(M)
  PROVE  /\ DOMAIN s \subseteq Streams(M)
         /\ s \in [DOMAIN s -> M]
         /\ \A k \in DOMAIN s : s[k] \in M
BY DEF States

Less == {p \in Nat \X Nat : p[1] < p[2]}

\* There is no endless descent in the numbers.
LEMMA LessWellFounded == IsWellFoundedOn(Less, Nat)
BY NatLessThanWellFounded DEF Less, OpToRel

\* A set of numbers that is not empty has a least element.
LEMMA Least ==
  ASSUME NEW T, T \subseteq Nat, T # {}
  PROVE  \E i \in T : \A j \in T : i <= j
<1>1. PICK i \in T : \A j \in T : <<j, i>> \notin Less
  BY LessWellFounded, WFMin, Zenon
<1>2. ASSUME NEW j \in T
      PROVE  i <= j
  <2>1. i \in Nat /\ j \in Nat
    OBVIOUS
  <2>2. ~(j < i)
    <3>1. <<j, i>> \notin Less
      BY <1>1
    <3>2. <<j, i>> \in Nat \X Nat /\ <<j, i>>[1] = j /\ <<j, i>>[2] = i
      BY <2>1
    <3> QED
      BY <3>1, <3>2 DEF Less
  <2> QED
    BY <2>1, <2>2
<1> QED
  BY <1>2

\* Keys of streams are triples of numbers.
Keys == Nat \X Nat \X Nat

\* A set of keys that is not empty has a first one.
LEMMA FirstKeyExists ==
  ASSUME NEW K, K \subseteq Keys, K # {}
  PROVE  \E k \in K : \A l \in K \ {k} : KeyBefore(k, l)
<1>0. \A k \in K : /\ k[1] \in Nat /\ k[2] \in Nat /\ k[3] \in Nat
                   /\ k = <<k[1], k[2], k[3]>>
  BY DEF Keys
<1> DEFINE firsts == {k[1] : k \in K}
<1>1. PICK a \in firsts : \A x \in firsts : a <= x
  <2>1. firsts \subseteq Nat /\ firsts # {}
    BY <1>0
  <2> HIDE DEF firsts
  <2> QED
    BY <2>1, Least
<1> DEFINE K2 == {k \in K : k[1] = a}
           seconds == {k[2] : k \in K2}
<1>2. PICK b \in seconds : \A x \in seconds : b <= x
  <2>1. seconds \subseteq Nat /\ seconds # {}
    BY <1>0, <1>1
  <2> HIDE DEF seconds
  <2> QED
    BY <2>1, Least
<1> DEFINE K3 == {k \in K2 : k[2] = b}
           thirds == {k[3] : k \in K3}
<1>3. PICK c \in thirds : \A x \in thirds : c <= x
  <2>1. thirds \subseteq Nat /\ thirds # {}
    BY <1>0, <1>2
  <2> HIDE DEF thirds
  <2> QED
    BY <2>1, Least
<1>4. PICK k \in K : k[1] = a /\ k[2] = b /\ k[3] = c
  BY <1>3
<1>5. ASSUME NEW l \in K, l # k
      PROVE  KeyBefore(k, l)
  <2>1. a <= l[1] /\ (l[1] = a => b <= l[2]) /\ (l[1] = a /\ l[2] = b => c <= l[3])
    BY <1>1, <1>2, <1>3
  <2>2. ~(l[1] = a /\ l[2] = b /\ l[3] = c)
    <3>1. k = <<a, b, c>> /\ l = <<l[1], l[2], l[3]>>
      BY <1>0, <1>4
    <3> QED
      BY <1>5, <3>1
  <2>3. /\ a \in Nat /\ b \in Nat /\ c \in Nat
        /\ l[1] \in Nat /\ l[2] \in Nat /\ l[3] \in Nat
    BY <1>0, <1>4
  <2> QED
    BY <1>4, <2>1, <2>2, <2>3 DEF KeyBefore
<1> QED
  BY <1>5

\* Messages whose type and ids have their types.
Typed(M) ==
  \A m \in M : /\ m.type \in MessageType /\ m.source_id \in Nat
               /\ m.meta.source_id \in Nat /\ m.meta.resource_id \in Nat

\* The key of such a message is such a triple.
LEMMA StreamKeyType ==
  ASSUME NEW M, Typed(M)
  PROVE  Streams(M) \subseteq Keys
<1>1. \A t \in MessageType : TypeCode[t] \in Nat
  BY DEF MessageType, TypeCode
<1> SUFFICES ASSUME NEW m \in M
             PROVE  stream_key(m) \in Keys
  BY DEF Streams
<1> QED
  BY <1>1 DEF Typed, stream_key, Keys

\* FirstLive finds a message of the deque, the first one that is live, or
\* tells that there is none.
LEMMA FirstLiveMeaning ==
  ASSUME NEW M, NEW s \in Seq(M), NEW now
  PROVE  /\ FirstLive(s, now) \in 0 .. Len(s)
         /\ FirstLive(s, now) = 0 <=> \A i \in 1 .. Len(s) : expired(s[i], now)
         /\ FirstLive(s, now) # 0 =>
              /\ ~expired(s[FirstLive(s, now)], now)
              /\ \A j \in 1 .. FirstLive(s, now) - 1 : expired(s[j], now)
<1> DEFINE Live == {i \in 1 .. Len(s) : ~expired(s[i], now)}
<1>0. Len(s) \in Nat
  OBVIOUS
<1>1. CASE Live = {}
  BY <1>0, <1>1 DEF FirstLive
<1>2. CASE Live # {}
  <2>1. PICK i \in Live : \A j \in Live : i <= j
    <3>1. Live \subseteq Nat
      OBVIOUS
    <3> QED
      BY <1>2, <3>1, Least
  <2>3. /\ i \in 1 .. Len(s) /\ ~expired(s[i], now)
        /\ \A j \in 1 .. i - 1 : expired(s[j], now)
    BY <1>0, <2>1
  <2>4. FirstLive(s, now) = CHOOSE h \in 1 .. Len(s) :
                              /\ ~expired(s[h], now)
                              /\ \A j \in 1 .. h - 1 : expired(s[j], now)
    BY <2>3 DEF FirstLive
  <2>5. /\ FirstLive(s, now) \in 1 .. Len(s)
        /\ ~expired(s[FirstLive(s, now)], now)
        /\ \A j \in 1 .. FirstLive(s, now) - 1 : expired(s[j], now)
    BY <2>3, <2>4
  <2> QED
    BY <1>0, <2>5
<1> QED
  BY <1>1, <1>2

\* What is left of a deque after its first i messages.
LEMMA AfterType ==
  ASSUME NEW M, NEW s \in Seq(M), NEW i \in 1 .. Len(s)
  PROVE  /\ After(s, i) \in Seq(M)
         /\ Len(After(s, i)) = Len(s) - i
         /\ \A j \in 1 .. Len(After(s, i)) :
              j + i \in 1 .. Len(s) /\ After(s, i)[j] = s[j + i]
BY DEF After

-----------------------------------------------------------------------------
(***************************************************************************)
(* push: making room takes one message away, storing one adds one unless   *)
(* it replaces another of its stream.                                      *)
(***************************************************************************)

\* The size of a queue that is given by its three containers.
LEMMA SizeOf ==
  ASSUME NEW c, NEW e, NEW s, NEW q,
         q = [critical |-> c, events |-> e, state |-> s]
  PROVE  size(q) = Len(c) + Cardinality(DOMAIN s) + Len(e)
<1>1. q.critical = c /\ q.events = e /\ q.state = s
  OBVIOUS
<1>2. size(q) = Len(q.critical) + Cardinality(DOMAIN q.state) + Len(q.events)
  BY DEF size
<1> QED
  BY <1>1, <1>2, Zenon

\* Giving up the oldest event.
LEMMA EvictGood ==
  ASSUME NEW M, NEW q, Good(M, q), q.events # <<>>
  PROVE  /\ Good(M, evict(q))
         /\ size(evict(q)) = size(q) - 1
         /\ evict(q).state = q.state
<1>0. q \in Contents(M) /\ IsFiniteSet(DOMAIN q.state) /\ Filed(q)
  BY DEF Good
<1>1. evict(q) = [critical |-> q.critical, events |-> Tail(q.events), state |-> q.state]
  BY <1>0 DEF evict, Contents
<1>2. /\ Tail(q.events) \in Seq(M)
      /\ Len(Tail(q.events)) = Len(q.events) - 1
      /\ \A i \in 1 .. Len(Tail(q.events)) :
           i + 1 \in 1 .. Len(q.events) /\ Tail(q.events)[i] = q.events[i + 1]
  BY <1>0 DEF Contents
<1>3. evict(q) \in Contents(M)
  BY <1>0, <1>1, <1>2 DEF Contents
<1>4. Filed(evict(q))
  BY <1>0, <1>1, <1>2 DEF Filed
<1>5. size(evict(q)) = size(q) - 1
  BY <1>1, <1>2, SizeType DEF size
<1> QED
  BY <1>0, <1>1, <1>3, <1>4, <1>5 DEF Good

\* A message of a state stream takes the place of the one before it.
LEMMA StoreStateGood ==
  ASSUME NEW M, NEW q, Good(M, q), NEW m \in M, is_state(m)
  PROVE  /\ Good(M, store_state(q, m))
         /\ size(store_state(q, m)) =
              IF stream_key(m) \in DOMAIN q.state THEN size(q) ELSE size(q) + 1
<1> DEFINE key == stream_key(m)
           D   == DOMAIN q.state \cup {key}
           st  == [k \in D |-> IF k = key THEN m ELSE q.state[k]]
<1>0. q \in Contents(M) /\ IsFiniteSet(DOMAIN q.state) /\ Filed(q)
  BY DEF Good
<1>1. store_state(q, m) = [critical |-> q.critical, events |-> q.events, state |-> st]
  BY <1>0 DEF store_state, Contents
<1>2. /\ DOMAIN q.state \subseteq Streams(M)
      /\ \A k \in DOMAIN q.state : q.state[k] \in M
  BY <1>0, StateType DEF Contents
<1>3. D \subseteq Streams(M)
  BY <1>2 DEF Streams
<1>4. st \in [D -> M]
  BY <1>2
<1>5. st \in States(M)
  BY <1>3, <1>4 DEF States
<1>6. store_state(q, m) \in Contents(M)
  BY <1>0, <1>1, <1>5 DEF Contents
<1>7. DOMAIN st = D
  OBVIOUS
<1>8. \A k \in D : is_state(st[k]) /\ stream_key(st[k]) = k
  BY <1>0 DEF Filed
<1>9. Filed(store_state(q, m))
  BY <1>0, <1>1, <1>7, <1>8 DEF Filed
<1>10. /\ IsFiniteSet(D)
       /\ Cardinality(D) = IF key \in DOMAIN q.state
                           THEN Cardinality(DOMAIN q.state)
                           ELSE Cardinality(DOMAIN q.state) + 1
  BY <1>0, FS_AddElement
<1>11. size(store_state(q, m)) =
         IF key \in DOMAIN q.state THEN size(q) ELSE size(q) + 1
  <2>1. size(store_state(q, m)) = Len(q.critical) + Cardinality(D) + Len(q.events)
    <3> HIDE DEF D, st
    <3> QED
      BY <1>1, <1>7, SizeOf, Zenon
  <2>2. size(q) = Len(q.critical) + Cardinality(DOMAIN q.state) + Len(q.events)
    BY DEF size
  <2>3. /\ Len(q.critical) \in Nat /\ Len(q.events) \in Nat
        /\ Cardinality(DOMAIN q.state) \in Nat
    BY SizeType
  <2> HIDE DEF D, key
  <2> QED
    BY <1>10, <2>1, <2>2, <2>3
<1> QED
  BY <1>1, <1>6, <1>7, <1>9, <1>10, <1>11 DEF Good

\* Each class of message goes to its container.
LEMMA StoreGood ==
  ASSUME NEW M, NEW q, Good(M, q), NEW m \in M
  PROVE  /\ Good(M, store(q, m))
         /\ size(store(q, m)) =
              IF is_state(m) /\ stream_key(m) \in DOMAIN q.state
              THEN size(q) ELSE size(q) + 1
<1>0. q \in Contents(M) /\ IsFiniteSet(DOMAIN q.state) /\ Filed(q)
  BY DEF Good
<1>1. CASE is_state(m)
  BY <1>1, StoreStateGood DEF store
<1>2. CASE ~is_state(m) /\ is_critical(m)
  <2>1. store(q, m) = [critical |-> Append(q.critical, m), events |-> q.events,
                       state |-> q.state]
    BY <1>0, <1>2 DEF store, Contents
  <2>2. /\ Append(q.critical, m) \in Seq(M)
        /\ Len(Append(q.critical, m)) = Len(q.critical) + 1
        /\ \A i \in 1 .. Len(q.critical) + 1 :
             Append(q.critical, m)[i] =
               IF i = Len(q.critical) + 1 THEN m ELSE q.critical[i]
    BY <1>0 DEF Contents
  <2>3. \A i \in 1 .. Len(q.critical) + 1 : is_critical(Append(q.critical, m)[i])
    BY <1>0, <1>2, <2>2, SizeType DEF Filed
  <2>4. store(q, m) \in Contents(M)
    BY <1>0, <2>1, <2>2 DEF Contents
  <2>5. Filed(store(q, m))
    BY <1>0, <2>1, <2>2, <2>3 DEF Filed
  <2>6. size(store(q, m)) = size(q) + 1
    <3>1. size(store(q, m)) =
            Len(Append(q.critical, m)) + Cardinality(DOMAIN q.state) + Len(q.events)
      BY <2>1, SizeOf, Zenon
    <3>2. size(q) = Len(q.critical) + Cardinality(DOMAIN q.state) + Len(q.events)
      BY DEF size
    <3>3. /\ Len(q.critical) \in Nat /\ Len(q.events) \in Nat
          /\ Cardinality(DOMAIN q.state) \in Nat
      BY SizeType
    <3> QED
      BY <2>2, <3>1, <3>2, <3>3
  <2> QED
    BY <1>0, <1>2, <2>1, <2>4, <2>5, <2>6 DEF Good
<1>3. CASE ~is_state(m) /\ ~is_critical(m)
  <2>1. store(q, m) = [critical |-> q.critical, events |-> Append(q.events, m),
                       state |-> q.state]
    BY <1>0, <1>3 DEF store, Contents
  <2>2. /\ Append(q.events, m) \in Seq(M)
        /\ Len(Append(q.events, m)) = Len(q.events) + 1
        /\ \A i \in 1 .. Len(q.events) + 1 :
             Append(q.events, m)[i] =
               IF i = Len(q.events) + 1 THEN m ELSE q.events[i]
    BY <1>0 DEF Contents
  <2>3. \A i \in 1 .. Len(q.events) + 1 :
          ~is_critical(Append(q.events, m)[i]) /\ ~is_state(Append(q.events, m)[i])
    BY <1>0, <1>3, <2>2, SizeType DEF Filed
  <2>4. store(q, m) \in Contents(M)
    BY <1>0, <2>1, <2>2 DEF Contents
  <2>5. Filed(store(q, m))
    BY <1>0, <2>1, <2>2, <2>3 DEF Filed
  <2>6. size(store(q, m)) = size(q) + 1
    <3>1. size(store(q, m)) =
            Len(q.critical) + Cardinality(DOMAIN q.state) + Len(Append(q.events, m))
      BY <2>1, SizeOf, Zenon
    <3>2. size(q) = Len(q.critical) + Cardinality(DOMAIN q.state) + Len(q.events)
      BY DEF size
    <3>3. /\ Len(q.critical) \in Nat /\ Len(q.events) \in Nat
          /\ Cardinality(DOMAIN q.state) \in Nat
      BY SizeType
    <3> QED
      BY <2>2, <3>1, <3>2, <3>3
  <2> QED
    BY <1>0, <1>3, <2>1, <2>4, <2>5, <2>6 DEF Good
<1> QED
  BY <1>1, <1>2, <1>3

\* A push leaves a queue within its capacity, whatever the class of the
\* message: only one that is added, and displaces no other, takes room.
LEMMA PushGood ==
  ASSUME NEW M, NEW q, Good(M, q), size(q) <= Capacity, NEW m \in M, NEW now
  PROVE  /\ Good(M, push(q, m, push_verdict(q, m, now)))
         /\ size(push(q, m, push_verdict(q, m, now))) <= Capacity
         /\ size(push(q, m, push_verdict(q, m, now))) =
              IF push_verdict(q, m, now) = "added" THEN size(q) + 1 ELSE size(q)
<1> DEFINE v == push_verdict(q, m, now)
<1>0. size(q) \in Nat /\ Capacity \in Nat
  BY SizeType, CapacityAssumption
<1>1. CASE v \notin Admitted
  BY <1>1 DEF push, Admitted
<1>2. CASE v = "replaced"
  <2>1. is_state(m) /\ stream_key(m) \in DOMAIN q.state
    BY <1>2 DEF push_verdict
  <2>2. push(q, m, v) = store(q, m)
    BY <1>2 DEF push, Admitted
  <2> QED
    BY <1>2, <2>1, <2>2, StoreGood
<1>3. CASE v = "added"
  <2>1. size(q) < Capacity /\ ~(is_state(m) /\ stream_key(m) \in DOMAIN q.state)
    BY <1>3 DEF push_verdict
  <2>2. push(q, m, v) = store(q, m)
    BY <1>3 DEF push, Admitted
  <2> QED
    BY <1>0, <1>3, <2>1, <2>2, StoreGood
<1>4. CASE v = "evicted"
  <2>1. q.events # <<>> /\ ~(is_state(m) /\ stream_key(m) \in DOMAIN q.state)
    BY <1>4 DEF push_verdict
  <2>2. push(q, m, v) = store(evict(q), m)
    BY <1>4 DEF push, Admitted
  <2>3. /\ Good(M, evict(q)) /\ size(evict(q)) = size(q) - 1
        /\ evict(q).state = q.state
    BY <2>1, EvictGood
  <2> QED
    BY <1>0, <1>4, <2>1, <2>2, <2>3, StoreGood
<1> QED
  BY <1>1, <1>2, <1>3, <1>4 DEF Admitted

-----------------------------------------------------------------------------
(***************************************************************************)
(* pop: what it leaves is a part of what there was.                        *)
(***************************************************************************)

\* A pop leaves each container with an end part of what it had, or nothing.
LEMMA PopGood ==
  ASSUME NEW M, NEW q, Good(M, q), NEW now
  PROVE  /\ Good(M, pop(q, now))
         /\ size(pop(q, now)) <= size(q)
<1> DEFINE from == pop_source(q, now)
<1>0. q \in Contents(M) /\ IsFiniteSet(DOMAIN q.state) /\ Filed(q)
  BY DEF Good
<1>1. q.critical \in Seq(M) /\ q.events \in Seq(M) /\ q.state \in States(M)
  BY <1>0 DEF Contents
<1>2. /\ Len(q.critical) \in Nat /\ Len(q.events) \in Nat
      /\ Cardinality(DOMAIN q.state) \in Nat
      /\ size(q) = Len(q.critical) + Cardinality(DOMAIN q.state) + Len(q.events)
  BY SizeType DEF size
<1>3. CASE from = "critical"
  <2> DEFINE i == FirstLive(q.critical, now)
             c == After(q.critical, i)
  <2>1. i \in 1 .. Len(q.critical)
    <3>1. i # 0
      BY <1>3 DEF pop_source
    <3>2. i \in 0 .. Len(q.critical)
      BY <1>1, FirstLiveMeaning
    <3> QED
      BY <1>2, <3>1, <3>2
  <2>2. pop(q, now) = [critical |-> c, events |-> q.events, state |-> q.state]
    BY <1>0, <1>3 DEF pop, Contents
  <2>3. /\ c \in Seq(M) /\ Len(c) = Len(q.critical) - i
        /\ \A j \in 1 .. Len(c) : j + i \in 1 .. Len(q.critical) /\ c[j] = q.critical[j + i]
    BY <1>1, <2>1, AfterType
  <2> HIDE DEF c, i
  <2>4. Good(M, pop(q, now))
    BY <1>0, <2>2, <2>3 DEF Good, Contents, Filed
  <2>5. size(pop(q, now)) = Len(c) + Cardinality(DOMAIN q.state) + Len(q.events)
    BY <2>2, SizeOf, Zenon
  <2> QED
    BY <1>2, <2>1, <2>3, <2>4, <2>5
<1>4. CASE from = "events"
  <2> DEFINE i == FirstLive(q.events, now)
             e == After(q.events, i)
  <2>1. i \in 1 .. Len(q.events)
    <3>1. i # 0
      BY <1>4 DEF pop_source
    <3>2. i \in 0 .. Len(q.events)
      BY <1>1, FirstLiveMeaning
    <3> QED
      BY <1>2, <3>1, <3>2
  <2>2. pop(q, now) = [critical |-> <<>>, events |-> e, state |-> q.state]
    BY <1>0, <1>4 DEF pop, Contents
  <2>3. /\ e \in Seq(M) /\ Len(e) = Len(q.events) - i
        /\ \A j \in 1 .. Len(e) : j + i \in 1 .. Len(q.events) /\ e[j] = q.events[j + i]
    BY <1>1, <2>1, AfterType
  <2> HIDE DEF e, i
  <2>4. Good(M, pop(q, now))
    BY <1>0, <2>2, <2>3 DEF Good, Contents, Filed
  <2>5. size(pop(q, now)) = Len(<<>>) + Cardinality(DOMAIN q.state) + Len(e)
    BY <2>2, SizeOf, Zenon
  <2> QED
    BY <1>2, <2>1, <2>3, <2>4, <2>5
<1>5. CASE from # "critical" /\ from # "events"
  <2> DEFINE K  == {l \in DOMAIN q.state :
                      from = "state" /\ KeyBefore(FirstKey(q, now), l)}
             st == [k \in K |-> q.state[k]]
  <2>1. pop(q, now) = [critical |-> <<>>, events |-> <<>>, state |-> st]
    BY <1>5 DEF pop
  <2>2. K \subseteq DOMAIN q.state /\ DOMAIN st = K
    OBVIOUS
  <2>3. IsFiniteSet(K) /\ Cardinality(K) <= Cardinality(DOMAIN q.state)
    BY <1>0, <2>2, FS_Subset
  <2>4. Cardinality(K) \in Nat
    BY <2>3, FS_CardinalityType
  <2>5. \A k \in K : st[k] = q.state[k]
    OBVIOUS
  <2>6. st \in [K -> M] /\ K \subseteq Streams(M)
    BY <1>1, <2>2, StateType
  <2> HIDE DEF K
  <2>7. st \in States(M)
    BY <2>6 DEF States
  <2> HIDE DEF st
  <2>8. Good(M, pop(q, now))
    BY <1>0, <2>1, <2>2, <2>3, <2>5, <2>7 DEF Good, Contents, Filed
  <2>9. size(pop(q, now)) = Len(<<>>) + Cardinality(K) + Len(<<>>)
    BY <2>1, <2>2, SizeOf, Zenon
  <2> QED
    BY <1>2, <2>3, <2>4, <2>8, <2>9
<1> QED
  BY <1>3, <1>4, <1>5

\* A pop that is served from state_ finds a stream that is live.
LEMMA FirstKeyLive ==
  ASSUME NEW M, Typed(M), NEW q, Good(M, q), NEW now, pop_source(q, now) = "state"
  PROVE  FirstKey(q, now) \in LiveKeys(q, now)
<1>1. LiveKeys(q, now) # {}
  BY DEF pop_source
<1>2. q.state \in States(M)
  BY DEF Good, Contents
<1>3. LiveKeys(q, now) \subseteq Keys
  BY <1>2, StateType, StreamKeyType DEF LiveKeys
<1>4. \E k \in LiveKeys(q, now) : \A l \in LiveKeys(q, now) \ {k} : KeyBefore(k, l)
  BY <1>1, <1>3, FirstKeyExists
<1> QED
  BY <1>4 DEF FirstKey

\* The message of a pop is one that was in the queue.
LEMMA PopMessageType ==
  ASSUME NEW M, Typed(M), NEW q, Good(M, q), NEW now, pop_source(q, now) # "none"
  PROVE  pop_message(q, now) \in M
<1>1. q.critical \in Seq(M) /\ q.events \in Seq(M) /\ q.state \in States(M)
  BY DEF Good, Contents
<1>2. CASE pop_source(q, now) = "critical"
  <2>1. FirstLive(q.critical, now) \in 1 .. Len(q.critical)
    <3>1. FirstLive(q.critical, now) # 0
      BY <1>2 DEF pop_source
    <3> QED
      BY <1>1, <3>1, FirstLiveMeaning
  <2> QED
    BY <1>1, <1>2, <2>1 DEF pop_message
<1>3. CASE pop_source(q, now) = "events"
  <2>1. FirstLive(q.events, now) \in 1 .. Len(q.events)
    <3>1. FirstLive(q.events, now) # 0
      BY <1>3 DEF pop_source
    <3> QED
      BY <1>1, <3>1, FirstLiveMeaning
  <2> QED
    BY <1>1, <1>3, <2>1 DEF pop_message
<1>4. CASE pop_source(q, now) = "state"
  <2>1. FirstKey(q, now) \in LiveKeys(q, now)
    BY <1>4, FirstKeyLive
  <2>2. q.state[FirstKey(q, now)] \in M
    BY <1>1, <2>1, StateType DEF LiveKeys
  <2> QED
    BY <1>4, <2>2 DEF pop_message
<1> QED
  BY <1>2, <1>3, <1>4 DEF pop_source

-----------------------------------------------------------------------------
(***************************************************************************)
(* What push and pop leave in place.                                       *)
(***************************************************************************)

\* A push changes the state of no stream but its own.
LEMMA PushStreams ==
  ASSUME NEW M, NEW q, Good(M, q), NEW m \in M, NEW v, NEW k \in DOMAIN q.state,
         v = "evicted" => q.events # <<>>
  PROVE  /\ k \in DOMAIN push(q, m, v).state
         /\ \/ push(q, m, v).state[k] = q.state[k]
            \/ push(q, m, v).state[k] = m /\ stream_key(m) = k
<1> DEFINE r == IF v = "evicted" THEN evict(q) ELSE q
<1>1. Good(M, r) /\ r.state = q.state
  BY EvictGood
<1>2. CASE v \notin Admitted
  BY <1>2 DEF push
<1>3. CASE v \in Admitted
  <2>1. push(q, m, v) = store(r, m)
    BY <1>3 DEF push
  <2> HIDE DEF r
  <2>2. r \in Contents(M)
    BY <1>1 DEF Good
  <2>3. CASE is_state(m)
    <3>1. store(r, m).state =
            [j \in DOMAIN r.state \cup {stream_key(m)} |->
               IF j = stream_key(m) THEN m ELSE r.state[j]]
      BY <2>2, <2>3 DEF store, store_state, Contents
    <3> QED
      BY <1>1, <2>1, <3>1
  <2>4. CASE ~is_state(m)
    <3>1. store(r, m).state = r.state
      BY <2>2, <2>4 DEF store, Contents
    <3> QED
      BY <1>1, <2>1, <3>1
  <2> QED
    BY <2>3, <2>4
<1> QED
  BY <1>2, <1>3

\* What is left of the reliable messages c in d: their last Len(c) - n, at the
\* front of d and in their order.
Kept(c, d, n) ==
  /\ Len(d) >= Len(c) - n
  /\ After(c, n) = SubSeq(d, 1, Len(c) - n)

\* A push leaves the reliable messages where they are.
LEMMA PushCritical ==
  ASSUME NEW M, NEW q, Good(M, q), NEW m \in M, NEW v, v = "evicted" => q.events # <<>>
  PROVE  /\ \/ push(q, m, v).critical = q.critical
            \/ push(q, m, v).critical = Append(q.critical, m)
         /\ \A i \in 1 .. Len(q.critical) :
              \E j \in 1 .. Len(push(q, m, v).critical) :
                q.critical[i] = push(q, m, v).critical[j]
         /\ Kept(q.critical, push(q, m, v).critical, 0)
<1> DEFINE r == IF v = "evicted" THEN evict(q) ELSE q
           c == q.critical
           d == push(q, m, v).critical
<1>0. c \in Seq(M) /\ q \in Contents(M)
  BY DEF Good, Contents
<1>1. Good(M, r) /\ r.critical = c
  BY <1>0, EvictGood DEF evict, Contents
<1>2. d = c \/ d = Append(c, m)
  <2>1. CASE v \notin Admitted
    BY <2>1 DEF push
  <2>2. CASE v \in Admitted
    <3>1. push(q, m, v) = store(r, m)
      BY <2>2 DEF push
    <3> HIDE DEF r
    <3>2. r \in Contents(M)
      BY <1>1 DEF Good
    <3>3. store(r, m).critical = r.critical \/ store(r, m).critical = Append(r.critical, m)
      BY <3>2 DEF store, store_state, Contents
    <3> QED
      BY <1>1, <3>1, <3>3
  <2> QED
    BY <2>1, <2>2
<1> HIDE DEF c, d
<1>3. /\ d \in Seq(M) /\ Len(c) \in Nat /\ Len(d) \in Nat /\ Len(d) >= Len(c)
      /\ \A i \in 1 .. Len(c) : i \in 1 .. Len(d) /\ d[i] = c[i]
  BY <1>0, <1>2
<1>4. Kept(c, d, 0)
  <2>1. After(c, 0) = SubSeq(c, 1, Len(c))
    BY DEF After
  <2>2. SubSeq(c, 1, Len(c)) = SubSeq(d, 1, Len(c) - 0)
    BY <1>0, <1>3
  <2> QED
    BY <1>3, <2>1, <2>2 DEF Kept
<1> QED
  BY <1>2, <1>3, <1>4 DEF c, d

\* A pop takes from the front of the reliable messages those that have expired,
\* and the one it delivers.
LEMMA PopCritical ==
  ASSUME NEW M, NEW q, Good(M, q), NEW now
  PROVE  /\ \A i \in 1 .. Len(q.critical) :
              \/ \E j \in 1 .. Len(pop(q, now).critical) :
                   q.critical[i] = pop(q, now).critical[j]
              \/ expired(q.critical[i], now)
              \/ pop_source(q, now) # "none" /\ q.critical[i] = pop_message(q, now)
         /\ \E n \in 0 .. Len(q.critical) : Kept(q.critical, pop(q, now).critical, n)
<1> DEFINE c == q.critical
           d == pop(q, now).critical
           f == FirstLive(c, now)
<1>0. q \in Contents(M) /\ c \in Seq(M) /\ Len(c) \in Nat
  BY DEF Good, Contents
<1>1. CASE pop_source(q, now) = "critical"
  <2>1. f # 0 /\ pop_message(q, now) = c[f]
    BY <1>1 DEF pop_source, pop_message
  <2>2. f \in 1 .. Len(c) /\ \A j \in 1 .. f - 1 : expired(c[j], now)
    BY <1>0, <2>1, FirstLiveMeaning
  <2>3. d = After(c, f)
    BY <1>0, <1>1 DEF pop, Contents
  <2> HIDE DEF c, d, f
  <2>4. /\ d \in Seq(M) /\ Len(d) = Len(c) - f
        /\ \A j \in 1 .. Len(d) : j + f \in 1 .. Len(c) /\ d[j] = c[j + f]
    BY <1>0, <2>2, <2>3, AfterType
  <2>5. ASSUME NEW i \in 1 .. Len(c), i > f
        PROVE  \E j \in 1 .. Len(d) : c[i] = d[j]
    <3>1. i - f \in 1 .. Len(d) /\ (i - f) + f = i
      BY <1>0, <2>2, <2>4, <2>5
    <3> QED
      BY <2>4, <3>1
  <2>6. \A i \in 1 .. Len(c) : i > f \/ i = f \/ i \in 1 .. f - 1
    BY <1>0, <2>2
  <2>7. Kept(c, d, f)
    <3>1. SubSeq(d, 1, Len(d)) = d
      BY <2>4
    <3> QED
      BY <1>0, <2>2, <2>3, <2>4, <3>1 DEF Kept
  <2>8. f \in 0 .. Len(c)
    BY <1>0, <2>2
  <2>9. \A i \in 1 .. Len(c) :
          \/ \E j \in 1 .. Len(d) : c[i] = d[j]
          \/ expired(c[i], now)
          \/ c[i] = pop_message(q, now)
    BY <2>1, <2>2, <2>5, <2>6
  <2> QED
    BY <1>1, <2>7, <2>8, <2>9 DEF c, d
<1>2. CASE pop_source(q, now) # "critical"
  <2>1. f = 0
    BY <1>2 DEF pop_source
  <2>2. \A i \in 1 .. Len(c) : expired(c[i], now)
    BY <1>0, <2>1, FirstLiveMeaning
  <2>3. d = <<>>
    BY <1>0, <1>2 DEF pop, Contents
  <2> HIDE DEF c, d, f
  <2>4. Kept(c, d, Len(c))
    <3>1. After(c, Len(c)) = <<>>
      BY <1>0 DEF After
    <3>2. SubSeq(d, 1, Len(c) - Len(c)) = <<>> /\ Len(d) >= Len(c) - Len(c)
      BY <1>0, <2>3
    <3> QED
      BY <3>1, <3>2 DEF Kept
  <2>5. Len(c) \in 0 .. Len(c)
    BY <1>0
  <2> QED
    BY <2>2, <2>4, <2>5 DEF c, d
<1> QED
  BY <1>1, <1>2

\* What a push leaves in state_: a state message that is admitted is there
\* under its key, and the rest is as it was.
LEMMA PushState ==
  ASSUME NEW M, NEW q, Good(M, q), NEW m \in M, NEW v, v = "evicted" => q.events # <<>>
  PROVE  /\ v \notin Admitted \/ ~is_state(m) => push(q, m, v).state = q.state
         /\ v \in Admitted /\ is_state(m) =>
              /\ DOMAIN push(q, m, v).state = DOMAIN q.state \cup {stream_key(m)}
              /\ push(q, m, v).state[stream_key(m)] = m
              /\ \A k \in DOMAIN q.state :
                   k # stream_key(m) => push(q, m, v).state[k] = q.state[k]
<1> DEFINE r == IF v = "evicted" THEN evict(q) ELSE q
<1>1. Good(M, r) /\ r.state = q.state
  BY EvictGood
<1>2. v \notin Admitted => push(q, m, v) = q
  BY DEF push
<1>3. v \in Admitted => push(q, m, v) = store(r, m)
  BY DEF push
<1> HIDE DEF r
<1>4. r \in Contents(M)
  BY <1>1 DEF Good
<1>5. is_state(m) => store(r, m).state =
        [j \in DOMAIN r.state \cup {stream_key(m)} |->
           IF j = stream_key(m) THEN m ELSE r.state[j]]
  BY <1>4 DEF store, store_state, Contents
<1>6. ~is_state(m) => store(r, m).state = r.state
  BY <1>4 DEF store, Contents
<1> QED
  BY <1>1, <1>2, <1>3, <1>5, <1>6

\* What a pop leaves in state_: a part of it; what is missing had expired or is
\* what the pop delivers.
LEMMA PopState ==
  ASSUME NEW M, Typed(M), NEW q, Good(M, q), NEW now
  PROVE  /\ \A k \in DOMAIN pop(q, now).state :
              k \in DOMAIN q.state /\ pop(q, now).state[k] = q.state[k]
         /\ \A k \in DOMAIN q.state :
              \/ k \in DOMAIN pop(q, now).state
              \/ expired(q.state[k], now)
              \/ pop_source(q, now) = "state" /\ pop_message(q, now) = q.state[k]
<1>1. q \in Contents(M) /\ q.state \in States(M)
  BY DEF Good, Contents
<1>2. CASE pop_source(q, now) \in {"critical", "events"}
  <2>1. pop(q, now).state = q.state
    BY <1>1, <1>2 DEF pop, Contents
  <2> QED
    BY <2>1
<1>3. CASE pop_source(q, now) \notin {"critical", "events"}
  <2> DEFINE K == {l \in DOMAIN q.state :
                     pop_source(q, now) = "state" /\ KeyBefore(FirstKey(q, now), l)}
  <2>1. pop(q, now).state = [k \in K |-> q.state[k]]
    BY <1>3 DEF pop
  <2>2. ASSUME NEW k \in DOMAIN q.state, k \notin K, ~expired(q.state[k], now)
        PROVE  pop_source(q, now) = "state" /\ pop_message(q, now) = q.state[k]
    <3>1. k \in LiveKeys(q, now)
      BY <2>2 DEF LiveKeys
    <3>2. pop_source(q, now) = "state"
      BY <1>3, <3>1 DEF pop_source
    <3>3. LiveKeys(q, now) \subseteq Keys
      BY <1>1, StateType, StreamKeyType DEF LiveKeys
    <3>4. \E f \in LiveKeys(q, now) : \A l \in LiveKeys(q, now) \ {f} : KeyBefore(f, l)
      BY <3>1, <3>3, FirstKeyExists
    <3>5. \A l \in LiveKeys(q, now) \ {FirstKey(q, now)} : KeyBefore(FirstKey(q, now), l)
      BY <3>4 DEF FirstKey
    <3>6. k = FirstKey(q, now)
      BY <2>2, <3>1, <3>2, <3>5
    <3> QED
      BY <3>2, <3>6 DEF pop_message
  <2> QED
    BY <2>1, <2>2
<1> QED
  BY <1>2, <1>3

\* A state message that a pop delivers was under its key.
LEMMA PopFromState ==
  ASSUME NEW M, Typed(M), NEW q, Good(M, q), NEW now, pop_source(q, now) # "none",
         is_state(pop_message(q, now))
  PROVE  /\ stream_key(pop_message(q, now)) \in DOMAIN q.state
         /\ pop_message(q, now) = q.state[stream_key(pop_message(q, now))]
<1>1. q.critical \in Seq(M) /\ q.events \in Seq(M) /\ Filed(q)
  BY DEF Good, Contents
<1>2. pop_source(q, now) # "critical"
  <2> SUFFICES ASSUME pop_source(q, now) = "critical" PROVE FALSE
    OBVIOUS
  <2> DEFINE i == FirstLive(q.critical, now)
  <2>1. i # 0 /\ pop_message(q, now) = q.critical[i]
    BY DEF pop_source, pop_message
  <2>2. i \in 1 .. Len(q.critical)
    BY <1>1, <2>1, FirstLiveMeaning
  <2> QED
    BY <1>1, <2>1, <2>2 DEF Filed, is_critical
<1>3. pop_source(q, now) # "events"
  <2> SUFFICES ASSUME pop_source(q, now) = "events" PROVE FALSE
    OBVIOUS
  <2> DEFINE i == FirstLive(q.events, now)
  <2>1. i # 0 /\ pop_message(q, now) = q.events[i]
    BY DEF pop_source, pop_message
  <2>2. i \in 1 .. Len(q.events)
    BY <1>1, <2>1, FirstLiveMeaning
  <2> QED
    BY <1>1, <2>1, <2>2 DEF Filed
<1>4. pop_source(q, now) = "state"
  BY <1>2, <1>3 DEF pop_source
<1>5. FirstKey(q, now) \in DOMAIN q.state
  BY <1>4, FirstKeyLive DEF LiveKeys
<1>6. pop_message(q, now) = q.state[FirstKey(q, now)]
  BY <1>4 DEF pop_message
<1> QED
  BY <1>1, <1>5, <1>6 DEF Filed

\* A new queue is empty.
LEMMA EmptyGood ==
  ASSUME NEW M
  PROVE  Good(M, EmptyQueue) /\ size(EmptyQueue) = 0 /\ DOMAIN EmptyQueue.state = {}
<1>1. /\ EmptyQueue.critical = <<>> /\ EmptyQueue.events = <<>>
      /\ EmptyQueue.state \in [{} -> M] /\ DOMAIN EmptyQueue.state = {}
  BY DEF EmptyQueue
<1>2. EmptyQueue.state \in States(M)
  BY <1>1 DEF States
<1>3. EmptyQueue \in Contents(M)
  BY <1>1, <1>2 DEF EmptyQueue, Contents
<1>4. Good(M, EmptyQueue)
  BY <1>1, <1>3, FS_EmptySet DEF Good, Filed
<1> QED
  BY <1>1, <1>4, FS_EmptySet DEF size
=============================================================================
