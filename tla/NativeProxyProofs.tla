------------------------- MODULE NativeProxyProofs -------------------------
(***************************************************************************)
(* Theorems about NativeProxy, for any links, records and subscriptions,   *)
(* any capacity and any limits.                                            *)
(***************************************************************************)
EXTENDS NativeProxy, QosQueueProofs

\* What can be cached, and what can wait in a queue: a cached message, or one
\* that was given the link's id on the way.
Known == {m \in Records : known_type(m.type)}

Addressed(m, t) == [m EXCEPT !.destination_id = t]

Held == Known \cup {Addressed(m, t) : m \in Known, t \in LinkIds}

ResyncRequests == [type : STRING, source_id : Nat, resource_id : Nat]

\* A link is its queue, within its capacity, and its subscriptions, each under
\* its type.
LinkTyped(link) ==
  /\ link = [queue |-> link.queue, subscriptions |-> link.subscriptions]
  /\ Good(Held, link.queue) /\ size(link.queue) <= Capacity
  /\ \A t \in DOMAIN link.subscriptions :
       link.subscriptions[t] \in Requests /\ link.subscriptions[t].type = t

LinksTyped ==
  /\ DOMAIN links \subseteq LinkIds /\ IsFiniteSet(DOMAIN links)
  /\ \A l \in DOMAIN links : LinkTyped(links[l])

\* The cache has a message of each of its streams.
CacheTyped ==
  /\ IsFiniteSet(DOMAIN cache)
  /\ \A k \in DOMAIN cache :
       cache[k] \in Known /\ state_type(cache[k].type) /\ stream_key(cache[k]) = k

WithinLimits ==
  /\ Cardinality(DOMAIN links) <= MaxLinks
  /\ IsFiniteSet(SubscriptionSet) /\ SubscriptionCount <= MaxSubscriptions
  /\ resync \in Seq(ResyncRequests) /\ Len(resync) <= Capacity

ProxyInv == LinksTyped /\ CacheTyped /\ WithinLimits

-----------------------------------------------------------------------------
\* The fields of a record.
LEMMA RecordFields ==
  ASSUME NEW m \in Records
  PROVE  /\ m.type \in STRING /\ m.qos \in Qos /\ m.source_id \in Nat
         /\ m.deadline_ms \in Nat /\ m.length \in Nat
         /\ m.meta.resource_id \in Nat /\ m.meta.generation \in Nat
         /\ m.meta.base_generation \in Nat /\ m.meta.source_id \in Nat
         /\ m.meta.snapshot \in Nat
BY ProxyAssumption

\* The address of a message is in none of the fields that it is filed by.
LEMMA AddressedFields ==
  ASSUME NEW m \in Records, NEW t
  PROVE  /\ Addressed(m, t).type = m.type /\ Addressed(m, t).qos = m.qos
         /\ Addressed(m, t).source_id = m.source_id
         /\ Addressed(m, t).deadline_ms = m.deadline_ms
         /\ Addressed(m, t).length = m.length /\ Addressed(m, t).meta = m.meta
BY ProxyAssumption DEF Addressed

\* So that it is of the same stream and the same class.
LEMMA AddressedStream ==
  ASSUME NEW m \in Records, NEW t
  PROVE  /\ stream_key(Addressed(m, t)) = stream_key(m)
         /\ HasMeta(Addressed(m, t)) = HasMeta(m)
         /\ is_state(Addressed(m, t)) = is_state(m)
BY AddressedFields DEF stream_key, HasMeta, is_state

\* The messages of a queue have a type, ids and a meta.
LEMMA HeldTyped ==
  /\ Typed(Held)
  /\ \A m \in Held : m.meta.generation \in Nat /\ m.deadline_ms \in Nat
<1>1. ASSUME NEW m \in Known
      PROVE  /\ m.type \in MessageType /\ m.source_id \in Nat
             /\ m.meta.source_id \in Nat /\ m.meta.resource_id \in Nat
             /\ m.meta.generation \in Nat /\ m.deadline_ms \in Nat
  BY RecordFields DEF Known, known_type
<1>2. ASSUME NEW m \in Known, NEW t \in LinkIds
      PROVE  /\ Addressed(m, t).type = m.type /\ Addressed(m, t).meta = m.meta
             /\ Addressed(m, t).source_id = m.source_id
             /\ Addressed(m, t).deadline_ms = m.deadline_ms
  BY AddressedFields DEF Known
<1> QED
  BY <1>1, <1>2 DEF Held, Typed

\* Only state messages have the code of a state type.
LEMMA StateCodes ==
  ASSUME NEW t \in MessageType
  PROVE  state_type(t) <=> TypeCode[t] \in {17, 18, 19, 20, 21, 65}
BY DEF MessageType, TypeCode, state_type

\* A key tells whether its message has a meta, and whether it is of a state type.
LEMMA KeyTells ==
  ASSUME NEW m, NEW n, stream_key(m) = stream_key(n),
         m.type \in MessageType, n.type \in MessageType
  PROVE  HasMeta(m) = HasMeta(n) /\ state_type(m.type) = state_type(n.type)
<1>1. /\ stream_key(m)[1] = TypeCode[m.type] /\ stream_key(n)[1] = TypeCode[n.type]
      /\ HasMeta(m) <=> stream_key(m)[3] # 0
      /\ HasMeta(n) <=> stream_key(n)[3] # 0
  BY DEF stream_key, HasMeta, decode_state_meta, encode_state_meta
<1>2. TypeCode[m.type] = TypeCode[n.type]
  BY <1>1
<1>3. state_type(m.type) <=> state_type(n.type)
  BY <1>2, StateCodes
<1>4. state_type(m.type) \in BOOLEAN /\ state_type(n.type) \in BOOLEAN
  BY DEF state_type
<1>5. HasMeta(m) \in BOOLEAN /\ HasMeta(n) \in BOOLEAN
  BY DEF HasMeta
<1> QED
  BY <1>1, <1>3, <1>4, <1>5

-----------------------------------------------------------------------------
(***************************************************************************)
(* subscribe pushes what is cached.  push_cached is a recursive function:  *)
(* that there is one, and what its values are, is shown by looking at the  *)
(* least number where it would fail.                                       *)
(***************************************************************************)

\* What holds of the queue after the first i messages of an order.
PushedWell(q, order, x, i) ==
  /\ Good(Held, x.queue) /\ size(x.queue) <= Capacity
  /\ x.pushed \in 0 .. i
  /\ \A j \in 1 .. x.pushed : is_state(cache[order[j]]) =>
       /\ order[j] \in DOMAIN x.queue.state
       /\ x.queue.state[order[j]] = cache[order[j]]
  /\ \A k \in DOMAIN x.queue.state :
       \/ k \in DOMAIN q.state /\ x.queue.state[k] = q.state[k]
       \/ k \in DOMAIN cache /\ x.queue.state[k] = cache[k]
  /\ DOMAIN q.state \subseteq DOMAIN x.queue.state

\* One more message of the order.
LEMMA PushNextWell ==
  ASSUME CacheTyped, NEW q, NEW order, NEW i \in Nat \ {0},
         order[i] \in DOMAIN cache, NEW x, PushedWell(q, order, x, i - 1)
  PROVE  PushedWell(q, order, push_next(x, cache[order[i]], i), i)
<1> DEFINE m == cache[order[i]]
           v == push_verdict(x.queue, m, 0)
           y == push_next(x, m, i)
<1>1. m \in Held /\ stream_key(m) = order[i]
  BY DEF CacheTyped, Held
<1>2. v = "evicted" => x.queue.events # <<>>
  BY DEF push_verdict
<1>3. CASE ~(x.pushed = i - 1 /\ v \in Admitted)
  <2>1. y = x
    BY <1>3 DEF push_next
  <2>2. x.pushed \in 0 .. i
    BY DEF PushedWell
  <2> QED
    BY <2>1, <2>2 DEF PushedWell
<1>4. CASE x.pushed = i - 1 /\ v \in Admitted
  <2> DEFINE p == push(x.queue, m, v)
  <2>1. y.queue = p /\ y.pushed = i
    BY <1>4 DEF push_next
  <2>2. Good(Held, p) /\ size(p) <= Capacity
    BY <1>1, PushGood DEF PushedWell
  <2>3. /\ ~is_state(m) => p.state = x.queue.state
        /\ is_state(m) => /\ DOMAIN p.state = DOMAIN x.queue.state \cup {order[i]}
                          /\ p.state[order[i]] = m
                          /\ \A k \in DOMAIN x.queue.state :
                               k # order[i] => p.state[k] = x.queue.state[k]
    <3>1. Good(Held, x.queue)
      BY DEF PushedWell
    <3> HIDE DEF m, v
    <3> QED
      BY <1>1, <1>2, <1>4, <3>1, PushState
  <2> HIDE DEF p, v, y
  <2>4. ASSUME NEW j \in 1 .. i, is_state(cache[order[j]])
        PROVE  order[j] \in DOMAIN p.state /\ p.state[order[j]] = cache[order[j]]
    <3>1. CASE j = i
      BY <2>3, <2>4, <3>1
    <3>2. CASE j # i
      <4>1. j \in 1 .. x.pushed
        BY <1>4, <3>2
      <4>2. order[j] \in DOMAIN x.queue.state /\ x.queue.state[order[j]] = cache[order[j]]
        BY <2>4, <4>1 DEF PushedWell
      <4> QED
        BY <2>3, <4>2
    <3> QED
      BY <3>1, <3>2
  <2>5. ASSUME NEW k \in DOMAIN p.state
        PROVE  \/ k \in DOMAIN q.state /\ p.state[k] = q.state[k]
               \/ k \in DOMAIN cache /\ p.state[k] = cache[k]
    <3>1. \/ k = order[i] /\ p.state[k] = m
          \/ k \in DOMAIN x.queue.state /\ p.state[k] = x.queue.state[k]
      BY <2>3, <2>5
    <3> QED
      BY <3>1 DEF PushedWell
  <2>6. DOMAIN q.state \subseteq DOMAIN p.state
    BY <2>3 DEF PushedWell
  <2>7. y.pushed \in 0 .. i
    BY <2>1
  <2> QED
    BY <2>1, <2>2, <2>4, <2>5, <2>6, <2>7 DEF PushedWell, y
<1> QED
  BY <1>3, <1>4

\* The function that push_cached looks up, on 0 .. n.
IsRun(q, order, f, n) ==
  f = [i \in 0 .. n |->
         IF i = 0 THEN [queue |-> q, pushed |-> 0]
         ELSE push_next(f[i - 1], cache[order[i]], i)]

\* There is such a function.
LEMMA RunExists ==
  ASSUME NEW q, NEW order, NEW n \in Nat
  PROVE  \E f : IsRun(q, order, f, n)
<1> DEFINE Missing == {i \in Nat : ~ \E f : IsRun(q, order, f, i)}
<1> SUFFICES ASSUME Missing # {} PROVE FALSE
  OBVIOUS
<1>1. PICK i \in Missing : \A j \in Missing : i <= j
  <2>1. Missing \subseteq Nat
    OBVIOUS
  <2> HIDE DEF Missing
  <2> QED
    BY <2>1, Least
<1>2. CASE i = 0
  <2> DEFINE f == [j \in 0 .. 0 |-> [queue |-> q, pushed |-> 0]]
  <2>1. IsRun(q, order, f, 0)
    BY DEF IsRun
  <2> QED
    BY <1>1, <1>2, <2>1
<1>3. CASE i # 0
  <2>1. i \in Nat /\ i - 1 \in Nat /\ i - 1 \notin Missing
    BY <1>1, <1>3
  <2>2. PICK g : IsRun(q, order, g, i - 1)
    BY <2>1
  <2> DEFINE f == [j \in 0 .. i |-> IF j = i THEN push_next(g[i - 1], cache[order[i]], i)
                                    ELSE g[j]]
  <2>3. ASSUME NEW j \in 0 .. i
        PROVE  f[j] = IF j = 0 THEN [queue |-> q, pushed |-> 0]
                      ELSE push_next(f[j - 1], cache[order[j]], j)
    <3>1. CASE j = i
      <4>1. f[i - 1] = g[i - 1] /\ f[i] = push_next(g[i - 1], cache[order[i]], i)
        BY <1>3, <2>1
      <4> QED
        BY <1>3, <3>1, <4>1
    <3>2. CASE j # i /\ j = 0
      <4>1. f[j] = g[j] /\ j \in 0 .. i - 1
        BY <2>1, <2>3, <3>2
      <4> QED
        BY <2>2, <3>2, <4>1 DEF IsRun
    <3>3. CASE j # i /\ j # 0
      <4>1. f[j] = g[j] /\ f[j - 1] = g[j - 1] /\ j \in 0 .. i - 1
        BY <2>1, <2>3, <3>3
      <4>2. g[j] = push_next(g[j - 1], cache[order[j]], j)
        BY <2>2, <3>3, <4>1 DEF IsRun
      <4> QED
        BY <3>3, <4>1, <4>2
    <3> QED
      BY <3>1, <3>2, <3>3
  <2>4. f = [j \in 0 .. i |-> f[j]]
    OBVIOUS
  <2> HIDE DEF f
  <2>5. IsRun(q, order, f, i)
    BY <2>3, <2>4 DEF IsRun
  <2> QED
    BY <1>1, <2>5
<1> QED
  BY <1>2, <1>3

\* The queue that subscribe leaves.
LEMMA CachedPushes ==
  ASSUME CacheTyped, NEW q, Good(Held, q), size(q) <= Capacity,
         NEW order \in Seq(DOMAIN cache)
  PROVE  PushedWell(q, order, push_cached(q, order), Len(order))
<1> DEFINE n  == Len(order)
           at == CHOOSE f : f = [i \in 0 .. Len(order) |->
                                   IF i = 0 THEN [queue |-> q, pushed |-> 0]
                                   ELSE push_next(f[i - 1], cache[order[i]], i)]
<1>1. push_cached(q, order) = at[n]
  BY DEF push_cached
<1>2. n \in Nat
  OBVIOUS
<1>3. at = [i \in 0 .. n |-> IF i = 0 THEN [queue |-> q, pushed |-> 0]
                             ELSE push_next(at[i - 1], cache[order[i]], i)]
  <2>1. \E f : f = [i \in 0 .. n |-> IF i = 0 THEN [queue |-> q, pushed |-> 0]
                                     ELSE push_next(f[i - 1], cache[order[i]], i)]
    <3> HIDE DEF n
    <3>1. PICK f : IsRun(q, order, f, n)
      BY <1>2, RunExists
    <3> QED
      BY <3>1, Zenon DEF IsRun
  <2> QED
    BY <2>1, Zenon
<1> HIDE DEF at
<1>4. /\ at[0] = [queue |-> q, pushed |-> 0]
      /\ \A i \in 1 .. n : at[i] = push_next(at[i - 1], cache[order[i]], i)
  BY <1>2, <1>3
<1> DEFINE Bad == {i \in 0 .. n : ~PushedWell(q, order, at[i], i)}
<1>5. Bad = {}
  <2> SUFFICES ASSUME Bad # {} PROVE FALSE
    OBVIOUS
  <2>1. PICK i \in Bad : \A j \in Bad : i <= j
    <3>1. Bad \subseteq Nat
      BY <1>2
    <3> HIDE DEF Bad
    <3> QED
      BY <3>1, Least
  <2>2. PushedWell(q, order, at[0], 0)
    BY <1>4 DEF PushedWell
  <2>3. i # 0
    BY <2>1, <2>2
  <2>4. i \in Nat \ {0} /\ i - 1 \in 0 .. n /\ i \in 1 .. n
    BY <1>2, <2>1, <2>3
  <2>5. PushedWell(q, order, at[i - 1], i - 1)
    BY <2>1, <2>4
  <2>6. order[i] \in DOMAIN cache
    BY <2>4
  <2>7. PushedWell(q, order, push_next(at[i - 1], cache[order[i]], i), i)
    BY <2>4, <2>5, <2>6, PushNextWell
  <2> QED
    BY <1>4, <2>1, <2>4, <2>7
<1>6. n \in 0 .. n
  BY <1>2
<1> QED
  BY <1>1, <1>5, <1>6

-----------------------------------------------------------------------------
(***************************************************************************)
(* What the calls do to the links, the cache and the subscriptions.        *)
(***************************************************************************)

\* A call that leaves the subscriptions of every link alone.
LEMMA SameSubscriptions ==
  ASSUME DOMAIN links' = DOMAIN links,
         \A l \in DOMAIN links : links'[l].subscriptions = links[l].subscriptions
  PROVE  SubscriptionSet' = SubscriptionSet
BY DEF SubscriptionSet

\* A set of subscriptions that gets no larger keeps its limit.
LEMMA FewerSubscriptions ==
  ASSUME WithinLimits, SubscriptionSet' \subseteq SubscriptionSet
  PROVE  IsFiniteSet(SubscriptionSet') /\ SubscriptionCount' <= MaxSubscriptions
<1>1. /\ IsFiniteSet(SubscriptionSet')
      /\ Cardinality(SubscriptionSet') <= Cardinality(SubscriptionSet)
  BY FS_Subset DEF WithinLimits
<1>2. Cardinality(SubscriptionSet') \in Nat /\ Cardinality(SubscriptionSet) \in Nat
  BY <1>1, FS_CardinalityType DEF WithinLimits
<1> QED
  BY <1>1, <1>2, ProxyAssumption DEF WithinLimits, SubscriptionCount

\* What f is after With.
LEMMA WithMeaning ==
  ASSUME NEW f, NEW x, NEW v
  PROVE  /\ DOMAIN With(f, x, v) = DOMAIN f \cup {x}
         /\ With(f, x, v)[x] = v
         /\ \A y \in DOMAIN f : y # x => With(f, x, v)[y] = f[y]
BY DEF With

\* ingest of a record that is accepted: it is of a known type and from the peer
\* of its link, which does not get it back; a subscriber's queue gets it.
LEMMA IngestEffect ==
  ASSUME LinksTyped, NEW l, NEW m \in Records, NEW now, Ingest(l, m, now)
  PROVE  /\ m \in Known /\ l \in DOMAIN links /\ m.source_id = Peer[l]
         /\ DOMAIN links' = DOMAIN links
         /\ \A t \in DOMAIN links :
              /\ LinkTyped(links'[t])
              /\ links'[t].subscriptions = links[t].subscriptions
              /\ t \notin Subscribers(l, m) => links'[t] = links[t]
              /\ t \in Subscribers(l, m) =>
                   links'[t].queue =
                     push(links[t].queue, Addressed(m, t),
                          push_verdict(links[t].queue, Addressed(m, t), now))
         /\ UNCHANGED <<resync, seen>>
<1>1. ingest_verdict(l, m) \in {"forwarded", "cached"}
  BY DEF Ingest
<1>2. m \in Known /\ l \in DOMAIN links /\ m.source_id = Peer[l]
  BY <1>1 DEF ingest_verdict, Known
<1>3. links' = [t \in DOMAIN links |->
                  IF t \in Subscribers(l, m)
                  THEN [links[t] EXCEPT !.queue =
                          push(@, Addressed(m, t),
                               push_verdict(links[t].queue, Addressed(m, t), now))]
                  ELSE links[t]]
  BY DEF Ingest, Addressed
<1>4. ASSUME NEW t \in DOMAIN links
      PROVE  /\ LinkTyped(links'[t])
             /\ links'[t].subscriptions = links[t].subscriptions
             /\ t \notin Subscribers(l, m) => links'[t] = links[t]
             /\ t \in Subscribers(l, m) =>
                  links'[t].queue =
                    push(links[t].queue, Addressed(m, t),
                         push_verdict(links[t].queue, Addressed(m, t), now))
  <2> DEFINE q == links[t].queue
             p == push(q, Addressed(m, t), push_verdict(q, Addressed(m, t), now))
  <2>1. LinkTyped(links[t]) /\ t \in LinkIds
    BY DEF LinksTyped
  <2>2. CASE t \notin Subscribers(l, m)
    BY <1>3, <2>1, <2>2
  <2>3. CASE t \in Subscribers(l, m)
    <3>1. Addressed(m, t) \in Held
      BY <1>2, <2>1 DEF Held
    <3>2. Good(Held, p) /\ size(p) <= Capacity
      BY <2>1, <3>1, PushGood DEF LinkTyped
    <3>3. links'[t] = [links[t] EXCEPT !.queue = p]
      BY <1>3, <2>3
    <3> HIDE DEF p
    <3>4. links'[t] = [queue |-> p, subscriptions |-> links[t].subscriptions]
      BY <2>1, <3>3 DEF LinkTyped
    <3>5. /\ links'[t].queue = p
          /\ links'[t].subscriptions = links[t].subscriptions
      BY <3>4
    <3>6. LinkTyped(links'[t])
      BY <2>1, <3>2, <3>4, <3>5 DEF LinkTyped
    <3> QED
      BY <2>3, <3>5, <3>6 DEF p
  <2> QED
    BY <2>2, <2>3
<1>5. UNCHANGED <<resync, seen>>
  BY DEF Ingest
<1>6. DOMAIN links' = DOMAIN links
  BY <1>3
<1> QED
  BY <1>2, <1>4, <1>5, <1>6

\* The cache takes a state message of a new stream, or one that is newer than
\* the last and fits it.
LEMMA IngestCache ==
  ASSUME NEW l, NEW m, NEW now, Ingest(l, m, now)
  PROVE  \/ cache' = cache /\ ~state_type(m.type)
         \/ /\ cache' = With(cache, stream_key(m), m) /\ state_type(m.type)
            /\ stream_key(m) \in DOMAIN cache =>
                 /\ HasMeta(m) /\ HasMeta(cache[stream_key(m)])
                 /\ fits(m, cache[stream_key(m)]) /\ newer(m, cache[stream_key(m)])
BY DEF Ingest, ingest_verdict

\* subscribe: the subscription is kept in any case, and the queue gets what
\* PushedWell says of the streams that match, in some order.
LEMMA SubscribeEffect ==
  ASSUME LinksTyped, CacheTyped, NEW l, NEW r \in Requests, Subscribe(l, r)
  PROVE  \E order \in Seq(Matching(r)) : \E end :
           /\ l \in DOMAIN links /\ DOMAIN links' = DOMAIN links
           /\ \A t \in DOMAIN links : t # l => links'[t] = links[t]
           /\ PushedWell(links[l].queue, order, end, Len(order))
           /\ links'[l].queue = end.queue
           /\ links'[l].subscriptions = With(links[l].subscriptions, r.type, r)
           /\ LinkTyped(links'[l])
           /\ refused' = [refused EXCEPT
                ![l] = (@ \ {order[i] : i \in 1 .. end.pushed})
                         \cup (Matching(r) \ {order[i] : i \in 1 .. end.pushed})]
           /\ UNCHANGED <<cache, resync, seen>>
<1>1. l \in DOMAIN links
  BY DEF Subscribe, subscribe_accepts
<1>2. LinkTyped(links[l])
  BY <1>1 DEF LinksTyped
<1>3. PICK order \in Orders(Matching(r)) :
        LET end     == push_cached(links[l].queue, order)
            through == {order[i] : i \in 1 .. end.pushed}
        IN  /\ links' = [links EXCEPT ![l].queue = end.queue,
                                      ![l].subscriptions = With(@, r.type, r)]
            /\ refused' = [refused EXCEPT
                 ![l] = (@ \ through) \cup (Matching(r) \ through)]
  BY DEF Subscribe
<1>4. IsFiniteSet(Matching(r)) /\ Matching(r) \subseteq DOMAIN cache
  BY FS_Subset DEF Matching, CacheTyped
<1>5. order \in Seq(Matching(r))
  <2>1. Cardinality(Matching(r)) \in Nat
    BY <1>4, FS_CardinalityType
  <2>2. order \in [1 .. Cardinality(Matching(r)) -> Matching(r)]
    BY DEF Orders
  <2> QED
    BY <2>1, <2>2
<1>6. order \in Seq(DOMAIN cache)
  BY <1>4, <1>5
<1> DEFINE end  == push_cached(links[l].queue, order)
           subs == With(links[l].subscriptions, r.type, r)
<1>7. PushedWell(links[l].queue, order, end, Len(order))
  BY <1>2, <1>6, CachedPushes DEF LinkTyped
<1>8. links' = [links EXCEPT ![l].queue = end.queue,
                             ![l].subscriptions = With(@, r.type, r)]
  BY <1>3
<1>9. refused' = [refused EXCEPT
        ![l] = (@ \ {order[i] : i \in 1 .. end.pushed})
                 \cup (Matching(r) \ {order[i] : i \in 1 .. end.pushed})]
  BY <1>3
<1> HIDE DEF end
<1>10. /\ DOMAIN links' = DOMAIN links
       /\ \A t \in DOMAIN links : t # l => links'[t] = links[t]
       /\ links'[l] = [queue |-> end.queue, subscriptions |-> subs]
  BY <1>1, <1>2, <1>8 DEF LinkTyped
<1>11. \A t \in DOMAIN subs : subs[t] \in Requests /\ subs[t].type = t
  <2> DEFINE old == links[l].subscriptions
  <2>1. \A t \in DOMAIN old : old[t] \in Requests /\ old[t].type = t
    BY <1>2 DEF LinkTyped
  <2> HIDE DEF old
  <2> DEFINE ty == r.type
  <2> HIDE DEF ty
  <2>2. /\ DOMAIN With(old, ty, r) = DOMAIN old \cup {ty}
        /\ With(old, ty, r)[ty] = r
        /\ \A y \in DOMAIN old : y # ty => With(old, ty, r)[y] = old[y]
    BY DEF With
  <2>3. \A t \in DOMAIN With(old, ty, r) :
          With(old, ty, r)[t] \in Requests /\ With(old, ty, r)[t].type = t
    BY <2>1, <2>2 DEF ty
  <2> QED
    BY <2>3, Zenon DEF old, ty, subs
<1> HIDE DEF subs
<1>12. LinkTyped(links'[l])
  BY <1>7, <1>10, <1>11 DEF LinkTyped, PushedWell
<1>13. links'[l].queue = end.queue /\ links'[l].subscriptions = subs
  BY <1>10
<1>14. UNCHANGED <<cache, resync, seen>>
  BY DEF Subscribe
<1> QED
  BY <1>1, <1>5, <1>7, <1>9, <1>10, <1>12, <1>13, <1>14 DEF subs

\* next: the queue of one link is popped.
LEMMA NextEffect ==
  ASSUME LinksTyped, NEW l, NEW now, NextMessage(l, now)
  PROVE  /\ l \in DOMAIN links /\ DOMAIN links' = DOMAIN links
         /\ \A t \in DOMAIN links : t # l => links'[t] = links[t]
         /\ links'[l].queue = pop(links[l].queue, now)
         /\ links'[l].subscriptions = links[l].subscriptions
         /\ LinkTyped(links'[l])
         /\ UNCHANGED <<cache, resync, refused>>
<1> DEFINE p == pop(links[l].queue, now)
<1>1. l \in DOMAIN links /\ LinkTyped(links[l])
  BY DEF NextMessage, LinksTyped
<1>2. links' = [links EXCEPT ![l].queue = p]
  BY DEF NextMessage
<1>3. Good(Held, p) /\ size(p) <= Capacity
  <2>1. Good(Held, p) /\ size(p) <= size(links[l].queue)
    BY <1>1, PopGood DEF LinkTyped
  <2>2. size(p) \in Nat /\ size(links[l].queue) \in Nat
    BY <1>1, <2>1, SizeType DEF LinkTyped
  <2> QED
    BY <1>1, <2>1, <2>2, CapacityAssumption DEF LinkTyped
<1> HIDE DEF p
<1>4. /\ DOMAIN links' = DOMAIN links
      /\ \A t \in DOMAIN links : t # l => links'[t] = links[t]
      /\ links'[l] = [queue |-> p, subscriptions |-> links[l].subscriptions]
  BY <1>1, <1>2 DEF LinkTyped
<1>5. links'[l].queue = p /\ links'[l].subscriptions = links[l].subscriptions
  BY <1>4
<1>6. LinkTyped(links'[l])
  BY <1>1, <1>3, <1>4, <1>5 DEF LinkTyped
<1>7. UNCHANGED <<cache, resync, refused>>
  BY DEF NextMessage
<1> QED
  BY <1>1, <1>4, <1>5, <1>6, <1>7 DEF p

-----------------------------------------------------------------------------
(***************************************************************************)
(* ProxyInv is inductive.                                                  *)
(***************************************************************************)

\* add_link: a link starts with an empty queue and no subscription.
LEMMA AddLinkStep ==
  ASSUME ProxyInv, NEW l \in LinkIds, AddLink(l)
  PROVE  ProxyInv'
<1> DEFINE new == [queue |-> EmptyQueue, subscriptions |-> NoFunction]
<1>1. /\ l \notin DOMAIN links /\ Cardinality(DOMAIN links) < MaxLinks
      /\ links' = With(links, l, new)
      /\ cache' = cache /\ resync' = resync
  BY DEF AddLink
<1>2. /\ DOMAIN links' = DOMAIN links \cup {l} /\ links'[l] = new
      /\ \A t \in DOMAIN links : links'[t] = links[t]
  BY <1>1 DEF With
<1>3. new.queue = EmptyQueue /\ DOMAIN new.subscriptions = {}
      /\ new = [queue |-> new.queue, subscriptions |-> new.subscriptions]
  BY DEF NoFunction
<1> HIDE DEF new
<1>4. LinkTyped(new)
  BY <1>3, EmptyGood, CapacityAssumption DEF LinkTyped
<1>5. IsFiniteSet(DOMAIN links) /\ Cardinality(DOMAIN links) \in Nat
  BY FS_CardinalityType DEF ProxyInv, LinksTyped
<1>6. /\ IsFiniteSet(DOMAIN links')
      /\ Cardinality(DOMAIN links') = Cardinality(DOMAIN links) + 1
  BY <1>1, <1>2, <1>5, FS_AddElement
<1>7. LinksTyped'
  BY <1>2, <1>4, <1>6 DEF ProxyInv, LinksTyped, LinkTyped
<1>8. SubscriptionSet' = SubscriptionSet
  BY <1>1, <1>2, <1>3 DEF SubscriptionSet
<1>9. WithinLimits'
  BY <1>1, <1>5, <1>6, <1>8, ProxyAssumption DEF ProxyInv, WithinLimits, SubscriptionCount
<1>10. CacheTyped'
  BY <1>1 DEF ProxyInv, CacheTyped
<1> QED
  BY <1>7, <1>9, <1>10 DEF ProxyInv

\* remove_link
LEMMA RemoveLinkStep ==
  ASSUME ProxyInv, NEW l \in LinkIds, RemoveLink(l)
  PROVE  ProxyInv'
<1>1. /\ links' = Without(links, l) /\ cache' = cache /\ resync' = resync
  BY DEF RemoveLink
<1>2. /\ DOMAIN links' = DOMAIN links \ {l} /\ DOMAIN links' \subseteq DOMAIN links
      /\ \A t \in DOMAIN links' : links'[t] = links[t]
  BY <1>1 DEF Without
<1>3. /\ IsFiniteSet(DOMAIN links')
      /\ Cardinality(DOMAIN links') <= Cardinality(DOMAIN links)
      /\ Cardinality(DOMAIN links') \in Nat /\ Cardinality(DOMAIN links) \in Nat
  BY <1>2, FS_Subset, FS_CardinalityType DEF ProxyInv, LinksTyped
<1>4. LinksTyped'
  BY <1>2, <1>3 DEF ProxyInv, LinksTyped, LinkTyped
<1>5. SubscriptionSet' \subseteq SubscriptionSet
  BY <1>2 DEF SubscriptionSet
<1>6. IsFiniteSet(SubscriptionSet') /\ SubscriptionCount' <= MaxSubscriptions
  BY <1>5, FewerSubscriptions DEF ProxyInv
<1>7. WithinLimits'
  BY <1>1, <1>3, <1>6, ProxyAssumption DEF ProxyInv, WithinLimits
<1>8. CacheTyped'
  BY <1>1 DEF ProxyInv, CacheTyped
<1> QED
  BY <1>4, <1>7, <1>8 DEF ProxyInv

\* The other calls keep the set of links.
LEMMA LinksKept ==
  ASSUME LinksTyped, DOMAIN links' = DOMAIN links,
         \A t \in DOMAIN links : LinkTyped(links'[t])
  PROVE  LinksTyped'
BY DEF LinksTyped, LinkTyped

\* subscribe: it adds one subscription at most, and then there is room for it.
LEMMA SubscribeStep ==
  ASSUME ProxyInv, NEW l, NEW r \in Requests, Subscribe(l, r)
  PROVE  ProxyInv'
<1> DEFINE p == <<l, r.type>>
<1>0. LinksTyped /\ CacheTyped /\ WithinLimits
  BY DEF ProxyInv
<1>1. /\ l \in DOMAIN links /\ DOMAIN links' = DOMAIN links
      /\ \A t \in DOMAIN links : t # l => links'[t] = links[t]
      /\ links'[l].subscriptions = With(links[l].subscriptions, r.type, r)
      /\ LinkTyped(links'[l])
      /\ cache' = cache /\ resync' = resync
  BY <1>0, SubscribeEffect
<1>2. LinksTyped'
  BY <1>0, <1>1, LinksKept DEF LinksTyped
<1>3. CacheTyped'
  BY <1>0, <1>1 DEF CacheTyped
<1>4. DOMAIN links'[l].subscriptions = DOMAIN links[l].subscriptions \cup {r.type}
  BY <1>1 DEF With
<1>5. SubscriptionSet' \subseteq SubscriptionSet \cup {p}
  <2> SUFFICES ASSUME NEW x \in SubscriptionSet', x \notin SubscriptionSet
               PROVE  x = p
    OBVIOUS
  <2>1. /\ x[1] \in DOMAIN links /\ x[2] \in MessageType /\ x = <<x[1], x[2]>>
        /\ x[2] \in DOMAIN links'[x[1]].subscriptions
    BY <1>1 DEF SubscriptionSet
  <2>2. x[2] \notin DOMAIN links[x[1]].subscriptions
    BY <2>1 DEF SubscriptionSet
  <2>3. x[1] = l
    BY <1>1, <2>1, <2>2
  <2> QED
    BY <1>4, <2>1, <2>2, <2>3
<1>6. IsFiniteSet(SubscriptionSet') /\ SubscriptionCount' <= MaxSubscriptions
  <2>1. CASE p \in SubscriptionSet
    <3>1. SubscriptionSet' \subseteq SubscriptionSet
      BY <1>5, <2>1
    <3> QED
      BY <1>0, <3>1, FewerSubscriptions
  <2>2. CASE p \notin SubscriptionSet
    <3>1. r.type \notin DOMAIN links[l].subscriptions
      BY <1>1, <2>2 DEF SubscriptionSet, Subscribe, subscribe_accepts, known_type
    <3>2. Cardinality(SubscriptionSet) < MaxSubscriptions
      BY <3>1 DEF Subscribe, subscribe_accepts, SubscriptionCount
    <3>3. /\ IsFiniteSet(SubscriptionSet \cup {p})
          /\ Cardinality(SubscriptionSet \cup {p}) = Cardinality(SubscriptionSet) + 1
      BY <1>0, <2>2, FS_AddElement DEF WithinLimits
    <3>4. /\ IsFiniteSet(SubscriptionSet')
          /\ Cardinality(SubscriptionSet') <= Cardinality(SubscriptionSet \cup {p})
      BY <1>5, <3>3, FS_Subset
    <3>5. Cardinality(SubscriptionSet') \in Nat /\ Cardinality(SubscriptionSet) \in Nat
      BY <1>0, <3>4, FS_CardinalityType DEF WithinLimits
    <3> QED
      BY <3>2, <3>3, <3>4, <3>5, ProxyAssumption DEF SubscriptionCount
  <2> QED
    BY <2>1, <2>2
<1>7. WithinLimits'
  BY <1>0, <1>1, <1>6 DEF WithinLimits
<1> QED
  BY <1>2, <1>3, <1>7 DEF ProxyInv

\* unsubscribe
LEMMA UnsubscribeStep ==
  ASSUME ProxyInv, NEW l, NEW type, Unsubscribe(l, type)
  PROVE  /\ ProxyInv' /\ l \in DOMAIN links /\ DOMAIN links' = DOMAIN links
         /\ \A t \in DOMAIN links :
              /\ links'[t].queue = links[t].queue
              /\ DOMAIN links'[t].subscriptions \subseteq DOMAIN links[t].subscriptions
              /\ \A y \in DOMAIN links'[t].subscriptions :
                   links'[t].subscriptions[y] = links[t].subscriptions[y]
         /\ UNCHANGED <<cache, resync, seen, refused>>
<1> DEFINE subs == Without(links[l].subscriptions, type)
<1>0. LinksTyped /\ CacheTyped /\ WithinLimits
  BY DEF ProxyInv
<1>1. /\ l \in DOMAIN links
      /\ links' = [links EXCEPT ![l].subscriptions = subs]
      /\ cache' = cache /\ resync' = resync /\ seen' = seen /\ refused' = refused
  BY DEF Unsubscribe
<1>2. /\ DOMAIN subs \subseteq DOMAIN links[l].subscriptions
      /\ \A y \in DOMAIN subs : subs[y] = links[l].subscriptions[y]
  BY DEF Without
<1> HIDE DEF subs
<1>3. /\ DOMAIN links' = DOMAIN links
      /\ \A t \in DOMAIN links : t # l => links'[t] = links[t]
      /\ links'[l] = [queue |-> links[l].queue, subscriptions |-> subs]
  BY <1>0, <1>1 DEF LinksTyped, LinkTyped
<1>4. links'[l].queue = links[l].queue /\ links'[l].subscriptions = subs
  BY <1>3
<1>5. LinkTyped(links[l])
  BY <1>0, <1>1 DEF LinksTyped
<1>6. LinkTyped(links'[l])
  BY <1>2, <1>3, <1>4, <1>5 DEF LinkTyped
<1>7. LinksTyped'
  BY <1>0, <1>3, <1>6, LinksKept DEF LinksTyped
<1>8. \A t \in DOMAIN links :
        /\ links'[t].queue = links[t].queue
        /\ DOMAIN links'[t].subscriptions \subseteq DOMAIN links[t].subscriptions
        /\ \A y \in DOMAIN links'[t].subscriptions :
             links'[t].subscriptions[y] = links[t].subscriptions[y]
  BY <1>2, <1>3, <1>4
<1>9. SubscriptionSet' \subseteq SubscriptionSet
  BY <1>3, <1>8 DEF SubscriptionSet
<1>10. WithinLimits'
  BY <1>0, <1>1, <1>3, <1>9, FewerSubscriptions DEF WithinLimits
<1>11. CacheTyped'
  BY <1>0, <1>1 DEF CacheTyped
<1> QED
  BY <1>1, <1>3, <1>7, <1>8, <1>10, <1>11 DEF ProxyInv

\* ingest of a record that is accepted
LEMMA IngestStep ==
  ASSUME ProxyInv, NEW l, NEW m \in Records, NEW now, Ingest(l, m, now)
  PROVE  ProxyInv'
<1>0. LinksTyped /\ CacheTyped /\ WithinLimits
  BY DEF ProxyInv
<1>1. /\ m \in Known /\ DOMAIN links' = DOMAIN links
      /\ \A t \in DOMAIN links :
           /\ LinkTyped(links'[t])
           /\ links'[t].subscriptions = links[t].subscriptions
      /\ resync' = resync
  BY <1>0, IngestEffect
<1>2. LinksTyped'
  BY <1>0, <1>1, LinksKept
<1>3. SubscriptionSet' = SubscriptionSet
  BY <1>1, SameSubscriptions
<1>4. WithinLimits'
  BY <1>0, <1>1, <1>3 DEF WithinLimits, SubscriptionCount
<1>5. CacheTyped'
  <2>1. CASE cache' = cache
    BY <1>0, <2>1 DEF CacheTyped
  <2>2. CASE cache' = With(cache, stream_key(m), m) /\ state_type(m.type)
    <3> DEFINE key == stream_key(m)
    <3>1. /\ DOMAIN cache' = DOMAIN cache \cup {key} /\ cache'[key] = m
          /\ \A k \in DOMAIN cache : k # key => cache'[k] = cache[k]
      BY <2>2 DEF With
    <3>2. IsFiniteSet(DOMAIN cache \cup {key})
      BY <1>0, FS_AddElement DEF CacheTyped
    <3>3. m \in Known /\ state_type(m.type) /\ stream_key(m) = key
      BY <1>1, <2>2
    <3> HIDE DEF key
    <3>4. \A k \in DOMAIN cache' :
            /\ cache'[k] \in Known /\ state_type(cache'[k].type)
            /\ stream_key(cache'[k]) = k
      BY <1>0, <3>1, <3>3 DEF CacheTyped
    <3> QED
      BY <3>1, <3>2, <3>4 DEF CacheTyped
  <2> QED
    BY <2>1, <2>2, IngestCache
<1> QED
  BY <1>2, <1>4, <1>5 DEF ProxyInv

\* ingest of a delta that does not fit: the request finds room.
LEMMA GapStep ==
  ASSUME ProxyInv, NEW l, NEW m \in Records, IngestGap(l, m)
  PROVE  ProxyInv'
<1> DEFINE request == [type |-> m.type, source_id |-> m.meta.source_id,
                       resource_id |-> m.meta.resource_id]
<1>0. LinksTyped /\ CacheTyped /\ WithinLimits
  BY DEF ProxyInv
<1>1. /\ links' = links /\ cache' = cache /\ Len(resync) < Capacity
      /\ resync' = Append(resync, request)
  BY DEF IngestGap, resync_room
<1>2. request \in ResyncRequests
  BY RecordFields DEF ResyncRequests
<1> HIDE DEF request
<1>3. resync' \in Seq(ResyncRequests) /\ Len(resync') <= Capacity
  BY <1>0, <1>1, <1>2, CapacityAssumption DEF WithinLimits
<1>4. SubscriptionSet' = SubscriptionSet
  BY <1>1 DEF SubscriptionSet
<1>5. WithinLimits'
  BY <1>0, <1>1, <1>3, <1>4 DEF WithinLimits, SubscriptionCount
<1>6. LinksTyped' /\ CacheTyped'
  BY <1>0, <1>1 DEF LinksTyped, CacheTyped
<1> QED
  BY <1>5, <1>6 DEF ProxyInv

\* next
LEMMA NextMessageStep ==
  ASSUME ProxyInv, NEW l, NEW now, NextMessage(l, now)
  PROVE  ProxyInv'
<1>0. LinksTyped /\ CacheTyped /\ WithinLimits
  BY DEF ProxyInv
<1>1. /\ l \in DOMAIN links /\ DOMAIN links' = DOMAIN links
      /\ \A t \in DOMAIN links : t # l => links'[t] = links[t]
      /\ links'[l].subscriptions = links[l].subscriptions
      /\ LinkTyped(links'[l])
      /\ cache' = cache /\ resync' = resync
  BY <1>0, NextEffect
<1>2. LinksTyped'
  BY <1>0, <1>1, LinksKept DEF LinksTyped
<1>3. SubscriptionSet' = SubscriptionSet
  BY <1>1, SameSubscriptions
<1>4. WithinLimits'
  BY <1>0, <1>1, <1>3 DEF WithinLimits, SubscriptionCount
<1>5. CacheTyped'
  BY <1>0, <1>1 DEF CacheTyped
<1> QED
  BY <1>2, <1>4, <1>5 DEF ProxyInv

\* next_resync
LEMMA NextResyncStep ==
  ASSUME ProxyInv, NextResync
  PROVE  ProxyInv'
<1>0. LinksTyped /\ CacheTyped /\ WithinLimits
  BY DEF ProxyInv
<1>1. links' = links /\ cache' = cache /\ resync # <<>> /\ resync' = Tail(resync)
  BY DEF NextResync
<1>2. resync' \in Seq(ResyncRequests) /\ Len(resync') <= Capacity
  BY <1>0, <1>1, CapacityAssumption DEF WithinLimits
<1>3. SubscriptionSet' = SubscriptionSet
  BY <1>1 DEF SubscriptionSet
<1>4. WithinLimits'
  BY <1>0, <1>1, <1>2, <1>3 DEF WithinLimits, SubscriptionCount
<1>5. LinksTyped' /\ CacheTyped'
  BY <1>0, <1>1 DEF LinksTyped, CacheTyped
<1> QED
  BY <1>4, <1>5 DEF ProxyInv

\* A new proxy.
LEMMA InitProxy == Init => ProxyInv
<1> SUFFICES ASSUME Init PROVE ProxyInv
  OBVIOUS
<1>1. DOMAIN links = {} /\ DOMAIN cache = {} /\ resync = <<>>
  BY DEF Init, NoFunction
<1>2. LinksTyped /\ CacheTyped
  BY <1>1, FS_EmptySet DEF LinksTyped, CacheTyped
<1>3. SubscriptionSet = {}
  BY <1>1 DEF SubscriptionSet
<1>4. WithinLimits
  BY <1>1, <1>3, FS_EmptySet, ProxyAssumption, CapacityAssumption
     DEF WithinLimits, SubscriptionCount
<1> QED
  BY <1>2, <1>4 DEF ProxyInv

\* Every call.
LEMMA ProxyStep == ProxyInv /\ [Next]_vars => ProxyInv'
<1> SUFFICES ASSUME ProxyInv, [Next]_vars PROVE ProxyInv'
  OBVIOUS
<1>1. ASSUME NEW l \in LinkIds, AddLink(l) \/ RemoveLink(l)
      PROVE  ProxyInv'
  BY <1>1, AddLinkStep, RemoveLinkStep
<1>2. ASSUME NEW l \in Asking, NEW r \in Requests, Subscribe(l, r)
      PROVE  ProxyInv'
  BY <1>2, SubscribeStep
<1>3. ASSUME NEW l \in Asking, NEW r \in Requests, Unsubscribe(l, r.type)
      PROVE  ProxyInv'
  BY <1>3, UnsubscribeStep
<1>4. ASSUME NEW l \in LinkIds, NEW m \in Records, NEW now \in Times, Ingest(l, m, now)
      PROVE  ProxyInv'
  BY <1>4, IngestStep
<1>5. ASSUME NEW l \in LinkIds, NEW m \in Records, IngestGap(l, m)
      PROVE  ProxyInv'
  BY <1>5, GapStep
<1>6. ASSUME NEW l \in LinkIds, NEW now \in Times, NextMessage(l, now)
      PROVE  ProxyInv'
  BY <1>6, NextMessageStep
<1>7. ASSUME NextResync
      PROVE  ProxyInv'
  BY <1>7, NextResyncStep
<1>8. ASSUME UNCHANGED vars
      PROVE  ProxyInv'
  <2>1. SubscriptionSet' = SubscriptionSet
    BY <1>8 DEF SubscriptionSet, vars
  <2> QED
    BY <1>8, <2>1 DEF ProxyInv, LinksTyped, CacheTyped, WithinLimits, SubscriptionCount, vars
<1> QED
  BY <1>1, <1>2, <1>3, <1>4, <1>5, <1>6, <1>7, <1>8 DEF Next

-----------------------------------------------------------------------------
\* The links of a proxy, the subscriptions of all of them, the messages of each
\* queue and the resync requests never exceed their limits, whatever callers do.
THEOREM LimitsAlwaysHold == Spec => []LimitsHeld
<1>1. ProxyInv => LimitsHeld
  BY DEF ProxyInv, LinksTyped, LinkTyped, WithinLimits, LimitsHeld
<1> QED
  BY <1>1, InitProxy, ProxyStep, PTL DEF Spec

\* Only ingest changes the cache.
LEMMA CacheChange ==
  ASSUME ProxyInv, [Next]_vars
  PROVE  \/ cache' = cache
         \/ \E l \in LinkIds, m \in Records, now \in Times : Ingest(l, m, now)
<1>1. ASSUME NEW l \in LinkIds, AddLink(l) \/ RemoveLink(l)
      PROVE  cache' = cache
  BY <1>1 DEF AddLink, RemoveLink
<1>2. ASSUME NEW l \in Asking, NEW r \in Requests, Subscribe(l, r)
      PROVE  cache' = cache
  BY <1>2 DEF Subscribe
<1>3. ASSUME NEW l \in Asking, NEW r \in Requests, Unsubscribe(l, r.type)
      PROVE  cache' = cache
  BY <1>3 DEF Unsubscribe
<1>4. ASSUME NEW l \in LinkIds, NEW m \in Records, IngestGap(l, m)
      PROVE  cache' = cache
  BY <1>4 DEF IngestGap
<1>5. ASSUME NEW l \in LinkIds, NEW now \in Times, NextMessage(l, now)
      PROVE  cache' = cache
  BY <1>5 DEF NextMessage
<1>6. NextResync => cache' = cache
  BY DEF NextResync
<1>7. UNCHANGED vars => cache' = cache
  BY DEF vars
<1> QED
  BY <1>1, <1>2, <1>3, <1>4, <1>5, <1>6, <1>7 DEF Next

\* What ingest puts in the cache for a stream that is there.
LEMMA CacheStep ==
  ASSUME ProxyInv, NEW l, NEW m \in Records, NEW now, Ingest(l, m, now),
         NEW k \in DOMAIN cache
  PROVE  /\ k \in DOMAIN cache'
         /\ \/ cache'[k] = cache[k]
            \/ /\ cache'[k] = m /\ stream_key(m) = k /\ HasMeta(m) /\ state_type(m.type)
               /\ m.meta.generation > cache[k].meta.generation
               /\ \/ m.meta.snapshot = 1
                  \/ m.meta.base_generation = cache[k].meta.generation
<1>1. CASE cache' = cache
  BY <1>1
<1>2. CASE ~(cache' = cache)
  <2>1. /\ cache' = With(cache, stream_key(m), m) /\ state_type(m.type)
        /\ stream_key(m) \in DOMAIN cache =>
             /\ HasMeta(m) /\ HasMeta(cache[stream_key(m)])
             /\ fits(m, cache[stream_key(m)]) /\ newer(m, cache[stream_key(m)])
    BY <1>2, IngestCache
  <2>2. /\ DOMAIN cache' = DOMAIN cache \cup {stream_key(m)}
        /\ cache'[stream_key(m)] = m
        /\ k # stream_key(m) => cache'[k] = cache[k]
    BY <2>1 DEF With
  <2>3. ASSUME k = stream_key(m)
        PROVE  /\ HasMeta(m) /\ m.meta.generation > cache[k].meta.generation
               /\ m.meta.snapshot = 1 \/ m.meta.base_generation = cache[k].meta.generation
    <3>1. HasMeta(m) /\ fits(m, cache[k]) /\ newer(m, cache[k])
      BY <2>1, <2>3
    <3>2. m.meta.snapshot \in Nat
      BY RecordFields
    <3>3. m.meta.snapshot # 0 => m.meta.snapshot = 1
      BY <3>1, <3>2 DEF HasMeta, decode_state_meta, encode_state_meta
    <3> QED
      BY <3>1, <3>3 DEF fits, newer
  <2> QED
    BY <2>1, <2>2, <2>3
<1> QED
  BY <1>1, <1>2

\* A stream of the cache is never lost and never goes back, in any run of the
\* proxy: what replaces its message is newer, and a snapshot or its delta.
THEOREM CacheAlwaysAdvances == Spec => CacheAdvances
<1> DEFINE Advances ==
      \A k \in DOMAIN cache :
        /\ k \in DOMAIN cache'
        /\ cache'[k] # cache[k] =>
             /\ cache'[k].meta.generation > cache[k].meta.generation
             /\ \/ cache'[k].meta.snapshot = 1
                \/ cache'[k].meta.base_generation = cache[k].meta.generation
<1>1. ProxyInv /\ [Next]_vars => [Advances]_vars
  <2> SUFFICES ASSUME ProxyInv, [Next]_vars PROVE Advances
    OBVIOUS
  <2>1. CASE cache' = cache
    BY <2>1
  <2>2. ASSUME NEW l \in LinkIds, NEW m \in Records, NEW now \in Times, Ingest(l, m, now)
        PROVE  Advances
    BY <2>2, CacheStep
  <2> QED
    BY <2>1, <2>2, CacheChange
<1> QED
  BY <1>1, InitProxy, ProxyStep, PTL DEF Spec, CacheAdvances

-----------------------------------------------------------------------------
(***************************************************************************)
(* What a subscriber is told.  A state message of another class than       *)
(* StateLatest waits among the events and overtakes an older one of its    *)
(* stream that waits in state_; a publisher sends none, and the results    *)
(* below are for records without one.                                      *)
(***************************************************************************)

StateRecordsLatest ==
  \A m \in Records : state_type(m.type) => m.qos = "StateLatest"

\* The histories are of the links that callers use.
HistoryTyped ==
  seen = [l \in LinkIds |-> seen[l]] /\ refused = [l \in LinkIds |-> refused[l]]

\* No link got more than what is cached.
SeenBehind ==
  \A l \in LinkIds : \A k \in DOMAIN seen[l] :
    /\ k \in DOMAIN cache /\ HasMeta(cache[k])
    /\ seen[l][k] \in Nat /\ seen[l][k] <= cache[k].meta.generation

\* A state message that waits is between what the link got and what is cached,
\* and lives as long as the cached one when it is that one.
QueuesBehind ==
  \A l \in DOMAIN links : \A k \in DOMAIN links[l].queue.state :
    LET m == links[l].queue.state[k] IN
    HasMeta(m) =>
      /\ k \in DOMAIN cache
      /\ m.meta.generation <= cache[k].meta.generation
      /\ m.meta.generation = cache[k].meta.generation =>
           m.deadline_ms = cache[k].deadline_ms
      /\ k \in DOMAIN seen[l] => seen[l][k] <= m.meta.generation

StreamInv == HistoryTyped /\ SeenBehind /\ QueuesBehind

UpToDateInv == ProxyInv /\ StreamInv /\ SubscriberUpToDate

\* A call that adds no message and no subscription, and leaves the histories of
\* the links that stay.
LEMMA QuietStep ==
  ASSUME StreamInv, SubscriberUpToDate, HistoryTyped', cache' = cache,
         \A l \in LinkIds : \A k \in DOMAIN seen'[l] :
           k \in DOMAIN seen[l] /\ seen'[l][k] = seen[l][k],
         \A l \in DOMAIN links' :
           \/ /\ l \in DOMAIN links /\ l \in LinkIds
              /\ seen'[l] = seen[l] /\ refused'[l] = refused[l]
              /\ links'[l].queue = links[l].queue
              /\ \A t \in DOMAIN links'[l].subscriptions :
                   /\ t \in DOMAIN links[l].subscriptions
                   /\ links'[l].subscriptions[t] = links[l].subscriptions[t]
           \/ DOMAIN links'[l].queue.state = {} /\ DOMAIN links'[l].subscriptions = {}
  PROVE  StreamInv' /\ SubscriberUpToDate'
<1>1. SeenBehind'
  BY DEF StreamInv, SeenBehind
<1>2. QueuesBehind'
  BY DEF StreamInv, QueuesBehind
<1>3. SubscriberUpToDate'
  BY DEF SubscriberUpToDate, Matching
<1> QED
  BY <1>1, <1>2, <1>3 DEF StreamInv

\* next, of a state message: it was the one of its stream in the queue.
LEMMA DeliveredState ==
  ASSUME StateRecordsLatest, LinksTyped, NEW l \in DOMAIN links, NEW now,
         pop_source(links[l].queue, now) # "none",
         state_type(pop_message(links[l].queue, now).type)
  PROVE  LET q == links[l].queue
             m == pop_message(q, now)
         IN  /\ m \in Held
             /\ stream_key(m) \in DOMAIN q.state /\ m = q.state[stream_key(m)]
<1> DEFINE q == links[l].queue
           m == pop_message(q, now)
<1>1. Good(Held, q)
  BY DEF LinksTyped, LinkTyped
<1>2. m \in Held
  BY <1>1, HeldTyped, PopMessageType
<1>3. ASSUME NEW x \in Held, state_type(x.type)
      PROVE  is_state(x)
  BY <1>3, AddressedFields DEF Held, Known, StateRecordsLatest, is_state
<1>4. is_state(m)
  BY <1>2, <1>3
<1> QED
  BY <1>1, <1>2, <1>4, HeldTyped, PopFromState

\* What next leaves in the histories.
LEMMA SeenAfter ==
  ASSUME HistoryTyped, NEW l \in LinkIds, NEW now, NextMessage(l, now)
  PROVE  LET q == links[l].queue
             m == pop_message(q, now)
             told == pop_source(q, now) # "none" /\ state_type(m.type) /\ HasMeta(m)
         IN  /\ HistoryTyped'
             /\ \A t \in LinkIds : t # l => seen'[t] = seen[t]
             /\ ~told => seen' = seen
             /\ told => /\ DOMAIN seen'[l] = DOMAIN seen[l] \cup {stream_key(m)}
                        /\ seen'[l][stream_key(m)] = m.meta.generation
                        /\ \A k \in DOMAIN seen[l] :
                             k # stream_key(m) => seen'[l][k] = seen[l][k]
<1> DEFINE q == links[l].queue
           m == pop_message(q, now)
           told == pop_source(q, now) # "none" /\ state_type(m.type) /\ HasMeta(m)
           w == With(seen[l], stream_key(m), m.meta.generation)
<1>1. /\ seen' = IF told THEN [seen EXCEPT ![l] = w] ELSE seen
      /\ refused' = refused
  BY DEF NextMessage
<1>2. /\ DOMAIN w = DOMAIN seen[l] \cup {stream_key(m)}
      /\ w[stream_key(m)] = m.meta.generation
      /\ \A k \in DOMAIN seen[l] : k # stream_key(m) => w[k] = seen[l][k]
  BY DEF With
<1> HIDE DEF w, told, m, q
<1>3. told => /\ seen'[l] = w /\ seen' = [t \in LinkIds |-> seen'[t]]
              /\ \A t \in LinkIds : t # l => seen'[t] = seen[t]
  BY <1>1 DEF HistoryTyped
<1>4. ~told => seen' = seen
  BY <1>1
<1>5. HistoryTyped'
  BY <1>1, <1>3, <1>4 DEF HistoryTyped
<1> QED
  BY <1>2, <1>3, <1>4, <1>5 DEF told, m, q

\* next never takes a link back, and what it delivers is up to date or still
\* followed by what is.
LEMMA NextMessageStream ==
  ASSUME StateRecordsLatest, UpToDateInv, NEW l \in LinkIds, NEW now, NextMessage(l, now)
  PROVE  /\ StreamInv' /\ SubscriberUpToDate'
         /\ \A t \in LinkIds : \A k \in DOMAIN seen[t] :
              k \in DOMAIN seen'[t] /\ seen'[t][k] >= seen[t][k]
<1> DEFINE q == links[l].queue
           p == pop(q, now)
           m == pop_message(q, now)
           key == stream_key(m)
           told == pop_source(q, now) # "none" /\ state_type(m.type) /\ HasMeta(m)
<1>0. /\ LinksTyped /\ CacheTyped /\ HistoryTyped /\ SeenBehind /\ QueuesBehind
      /\ SubscriberUpToDate
  BY DEF UpToDateInv, ProxyInv, StreamInv
<1>1. /\ l \in DOMAIN links /\ DOMAIN links' = DOMAIN links
      /\ \A t \in DOMAIN links : t # l => links'[t] = links[t]
      /\ links'[l].queue = p
      /\ links'[l].subscriptions = links[l].subscriptions
      /\ cache' = cache /\ refused' = refused
  BY <1>0, NextEffect
<1>2. /\ HistoryTyped'
      /\ \A t \in LinkIds : t # l => seen'[t] = seen[t]
      /\ ~told => seen' = seen
      /\ told => /\ DOMAIN seen'[l] = DOMAIN seen[l] \cup {key}
                 /\ seen'[l][key] = m.meta.generation
                 /\ \A k \in DOMAIN seen[l] : k # key => seen'[l][k] = seen[l][k]
  BY <1>0, SeenAfter
<1>3. Good(Held, q) /\ DOMAIN links \subseteq LinkIds
  BY <1>0, <1>1 DEF LinksTyped, LinkTyped
<1>4. /\ \A k \in DOMAIN p.state : k \in DOMAIN q.state /\ p.state[k] = q.state[k]
      /\ \A k \in DOMAIN q.state :
           \/ k \in DOMAIN p.state
           \/ expired(q.state[k], now)
           \/ pop_source(q, now) = "state" /\ m = q.state[k]
  BY <1>3, HeldTyped, PopState
<1>5. told => m \in Held /\ key \in DOMAIN q.state /\ m = q.state[key]
  BY <1>0, <1>1, DeliveredState
<1>6. told => /\ key \in DOMAIN cache /\ HasMeta(m)
              /\ m.meta.generation \in Nat /\ cache[key].meta.generation \in Nat
              /\ m.meta.generation <= cache[key].meta.generation
              /\ key \in DOMAIN seen[l] =>
                   seen[l][key] \in Nat /\ seen[l][key] <= m.meta.generation
  <2> SUFFICES ASSUME told
               PROVE  /\ key \in DOMAIN cache /\ HasMeta(m)
                      /\ m.meta.generation \in Nat /\ cache[key].meta.generation \in Nat
                      /\ m.meta.generation <= cache[key].meta.generation
                      /\ key \in DOMAIN seen[l] =>
                           seen[l][key] \in Nat /\ seen[l][key] <= m.meta.generation
    OBVIOUS
  <2>1. HasMeta(m) /\ m \in Held /\ key \in DOMAIN q.state /\ m = q.state[key]
    BY <1>5
  <2>2. /\ key \in DOMAIN cache /\ m.meta.generation <= cache[key].meta.generation
        /\ key \in DOMAIN seen[l] => seen[l][key] <= m.meta.generation
    BY <1>0, <1>1, <2>1 DEF QueuesBehind
  <2>3. m.meta.generation \in Nat
    BY <2>1, HeldTyped
  <2>4. cache[key].meta.generation \in Nat
    BY <1>0, <2>2, HeldTyped DEF CacheTyped, Held
  <2>5. key \in DOMAIN seen[l] => seen[l][key] \in Nat
    BY <1>0 DEF SeenBehind
  <2> QED
    BY <2>1, <2>2, <2>3, <2>4, <2>5
<1>7. told => HasMeta(cache[key])
  <2>1. ASSUME told
        PROVE  HasMeta(cache[key])
    <3>1. cache[key] \in Known /\ stream_key(cache[key]) = stream_key(m)
      BY <1>0, <1>6, <2>1 DEF CacheTyped
    <3>2. cache[key].type \in MessageType /\ m.type \in MessageType
      BY <1>5, <2>1, <3>1, HeldTyped DEF Typed, Held
    <3>3. HasMeta(cache[key]) = HasMeta(m)
      BY <3>1, <3>2, KeyTells
    <3> QED
      BY <1>6, <2>1, <3>3
  <2> QED
    BY <2>1
<1>8. ASSUME NEW t \in LinkIds, NEW k \in DOMAIN seen[t]
      PROVE  k \in DOMAIN seen'[t] /\ seen'[t][k] >= seen[t][k]
  <2>1. seen[t][k] \in Nat
    BY <1>0 DEF SeenBehind
  <2> HIDE DEF told, key, m, q, p
  <2> QED
    BY <1>2, <1>6, <2>1
<1>9. SeenBehind'
  <2> SUFFICES ASSUME NEW t \in LinkIds, NEW k \in DOMAIN seen'[t]
               PROVE  /\ k \in DOMAIN cache /\ HasMeta(cache[k])
                      /\ seen'[t][k] \in Nat /\ seen'[t][k] <= cache[k].meta.generation
    BY <1>1 DEF SeenBehind
  <2> HIDE DEF told, key, m, q, p
  <2>1. CASE k \in DOMAIN seen[t] /\ seen'[t][k] = seen[t][k]
    BY <1>0, <2>1 DEF SeenBehind
  <2>2. CASE ~(k \in DOMAIN seen[t] /\ seen'[t][k] = seen[t][k])
    <3>1. told /\ t = l /\ k = key
      BY <1>2, <2>2
    <3> QED
      BY <1>2, <1>6, <1>7, <3>1
  <2> QED
    BY <2>1, <2>2
<1>10. QueuesBehind'
  <2> SUFFICES ASSUME NEW t \in DOMAIN links, NEW k \in DOMAIN links'[t].queue.state,
                      HasMeta(links'[t].queue.state[k])
               PROVE  LET n == links'[t].queue.state[k] IN
                      /\ k \in DOMAIN cache
                      /\ n.meta.generation <= cache[k].meta.generation
                      /\ n.meta.generation = cache[k].meta.generation =>
                           n.deadline_ms = cache[k].deadline_ms
                      /\ k \in DOMAIN seen'[t] => seen'[t][k] <= n.meta.generation
    BY <1>1 DEF QueuesBehind
  <2> HIDE DEF told, key, m, q, p
  <2>1. k \in DOMAIN links[t].queue.state
        /\ links'[t].queue.state[k] = links[t].queue.state[k]
    BY <1>1, <1>4 DEF q
  <2>2. CASE k \in DOMAIN seen'[t] => k \in DOMAIN seen[t] /\ seen'[t][k] = seen[t][k]
    BY <1>0, <2>1, <2>2 DEF QueuesBehind
  <2>3. CASE ~(k \in DOMAIN seen'[t] => k \in DOMAIN seen[t] /\ seen'[t][k] = seen[t][k])
    <3>1. told /\ t = l /\ k = key
      BY <1>2, <1>3, <2>3
    <3>2. links'[t].queue.state[k] = m /\ seen'[t][k] = m.meta.generation
      BY <1>2, <1>5, <2>1, <3>1 DEF q
    <3> QED
      BY <1>0, <1>6, <2>1, <3>1, <3>2 DEF QueuesBehind
  <2> QED
    BY <2>2, <2>3
<1>11. SubscriberUpToDate'
  <2> SUFFICES ASSUME NEW t \in DOMAIN links, NEW ty \in DOMAIN links[t].subscriptions,
                      NEW k \in Matching(links[t].subscriptions[ty]),
                      HasMeta(cache[k]), cache[k].deadline_ms = 0,
                      cache[k].source_id # Peer[t]
               PROVE  \/ k \in DOMAIN seen'[t] /\ seen'[t][k] = cache[k].meta.generation
                      \/ /\ k \in DOMAIN links'[t].queue.state
                         /\ links'[t].queue.state[k].meta = cache[k].meta
                      \/ k \in refused[t]
    BY <1>1 DEF SubscriberUpToDate, Matching
  <2>1. \/ k \in DOMAIN seen[t] /\ seen[t][k] = cache[k].meta.generation
        \/ /\ k \in DOMAIN links[t].queue.state
           /\ links[t].queue.state[k].meta = cache[k].meta
        \/ k \in refused[t]
    BY <1>0 DEF SubscriberUpToDate
  <2>2. CASE t # l
    BY <1>1, <1>2, <1>3, <2>1, <2>2
  <2>3. CASE t = l /\ k \in DOMAIN seen[t] /\ seen[t][k] = cache[k].meta.generation
    <3>1. k \in DOMAIN seen'[l] /\ seen'[l][k] >= seen[l][k]
      BY <1>8, <2>3
    <3>2. /\ seen'[l][k] <= cache[k].meta.generation /\ seen'[l][k] \in Nat
          /\ seen[l][k] \in Nat
      BY <1>0, <1>1, <1>9, <2>3, <3>1 DEF SeenBehind
    <3>3. seen'[l][k] = cache[k].meta.generation
      BY <2>3, <3>1, <3>2
    <3> QED
      BY <2>3, <3>1, <3>3
  <2>4. CASE /\ t = l /\ k \in DOMAIN q.state /\ q.state[k].meta = cache[k].meta
    <3>1. HasMeta(q.state[k])
      <4>1. q.state[k] \in Held /\ stream_key(q.state[k]) = k
        BY <1>3, <2>4, StateType DEF Good, Contents, Filed
      <4>2. cache[k] \in Known /\ stream_key(cache[k]) = k
        BY <1>0 DEF CacheTyped, Matching
      <4>3. q.state[k].type \in MessageType /\ cache[k].type \in MessageType
        BY <4>1, <4>2, HeldTyped DEF Typed, Held
      <4> QED
        BY <4>1, <4>2, <4>3, KeyTells
    <3>2. q.state[k].deadline_ms = 0
      BY <1>0, <1>1, <2>4, <3>1 DEF QueuesBehind
    <3>3. ~expired(q.state[k], now)
      BY <3>2 DEF expired
    <3>4. CASE k \in DOMAIN p.state
      BY <1>1, <1>4, <2>4, <3>4
    <3>5. CASE pop_source(q, now) = "state" /\ m = q.state[k]
      <4>1. is_state(q.state[k]) /\ stream_key(q.state[k]) = k
        BY <1>3, <2>4 DEF Good, Filed
      <4>2. told /\ key = k
        BY <3>1, <3>5, <4>1 DEF is_state
      <4>3. seen'[l][k] = cache[k].meta.generation /\ k \in DOMAIN seen'[l]
        BY <1>2, <2>4, <3>5, <4>2
      <4> QED
        BY <2>4, <4>3
    <3> QED
      BY <1>4, <2>4, <3>3, <3>4, <3>5
  <2> QED
    BY <2>1, <2>2, <2>3, <2>4
<1> QED
  BY <1>2, <1>8, <1>9, <1>10, <1>11 DEF StreamInv

\* subscribe: what is cached is pushed, or is refused.
LEMMA SubscribeStream ==
  ASSUME StateRecordsLatest, UpToDateInv, NEW l \in LinkIds, NEW r \in Requests,
         Subscribe(l, r)
  PROVE  StreamInv' /\ SubscriberUpToDate' /\ seen' = seen
<1>0. /\ LinksTyped /\ CacheTyped /\ HistoryTyped /\ SeenBehind /\ QueuesBehind
      /\ SubscriberUpToDate /\ DOMAIN links \subseteq LinkIds
  BY DEF UpToDateInv, ProxyInv, StreamInv, LinksTyped
<1>1. PICK order \in Seq(Matching(r)) : \E end :
        /\ l \in DOMAIN links /\ DOMAIN links' = DOMAIN links
        /\ \A t \in DOMAIN links : t # l => links'[t] = links[t]
        /\ PushedWell(links[l].queue, order, end, Len(order))
        /\ links'[l].queue = end.queue
        /\ links'[l].subscriptions = With(links[l].subscriptions, r.type, r)
        /\ LinkTyped(links'[l])
        /\ refused' = [refused EXCEPT
             ![l] = (@ \ {order[i] : i \in 1 .. end.pushed})
                      \cup (Matching(r) \ {order[i] : i \in 1 .. end.pushed})]
        /\ UNCHANGED <<cache, resync, seen>>
  BY <1>0, SubscribeEffect
<1>2. PICK end :
        /\ l \in DOMAIN links /\ DOMAIN links' = DOMAIN links
        /\ \A t \in DOMAIN links : t # l => links'[t] = links[t]
        /\ PushedWell(links[l].queue, order, end, Len(order))
        /\ links'[l].queue = end.queue
        /\ links'[l].subscriptions = With(links[l].subscriptions, r.type, r)
        /\ LinkTyped(links'[l])
        /\ refused' = [refused EXCEPT
             ![l] = (@ \ {order[i] : i \in 1 .. end.pushed})
                      \cup (Matching(r) \ {order[i] : i \in 1 .. end.pushed})]
        /\ UNCHANGED <<cache, resync, seen>>
  BY <1>1
<1> DEFINE q == links[l].queue
           p == end.queue
           through == {order[i] : i \in 1 .. end.pushed}
<1>3. /\ cache' = cache /\ seen' = seen
      /\ refused'[l] = (refused[l] \ through) \cup (Matching(r) \ through)
      /\ refused' = [t \in LinkIds |-> refused'[t]]
      /\ \A t \in LinkIds : t # l => refused'[t] = refused[t]
  BY <1>0, <1>2 DEF HistoryTyped
<1>4. HistoryTyped'
  BY <1>0, <1>3 DEF HistoryTyped
<1>5. /\ \A k \in DOMAIN p.state :
           \/ k \in DOMAIN q.state /\ p.state[k] = q.state[k]
           \/ k \in DOMAIN cache /\ p.state[k] = cache[k]
      /\ DOMAIN q.state \subseteq DOMAIN p.state
  BY <1>2 DEF PushedWell
<1>6. ASSUME NEW k \in through
      PROVE  k \in Matching(r) /\ k \in DOMAIN p.state /\ p.state[k] = cache[k]
  <2>1. PICK j \in 1 .. end.pushed : k = order[j]
    BY <1>6
  <2>2. Len(order) \in Nat /\ end.pushed \in 0 .. Len(order)
    BY <1>2 DEF PushedWell
  <2>3. k \in Matching(r)
    BY <2>1, <2>2
  <2>4. cache[k] \in Records /\ state_type(cache[k].type)
    BY <1>0, <2>3 DEF Matching, CacheTyped, Known
  <2>5. is_state(cache[k])
    BY <2>4 DEF StateRecordsLatest, is_state
  <2> QED
    BY <1>2, <2>1, <2>3, <2>5 DEF PushedWell
<1> HIDE DEF through
<1>7. SeenBehind'
  BY <1>0, <1>3 DEF SeenBehind
<1>8. QueuesBehind'
  <2> SUFFICES ASSUME NEW t \in DOMAIN links, NEW k \in DOMAIN links'[t].queue.state,
                      HasMeta(links'[t].queue.state[k])
               PROVE  LET n == links'[t].queue.state[k] IN
                      /\ k \in DOMAIN cache
                      /\ n.meta.generation <= cache[k].meta.generation
                      /\ n.meta.generation = cache[k].meta.generation =>
                           n.deadline_ms = cache[k].deadline_ms
                      /\ k \in DOMAIN seen[t] => seen[t][k] <= n.meta.generation
    BY <1>2, <1>3 DEF QueuesBehind
  <2>1. CASE k \in DOMAIN links[t].queue.state
               /\ links'[t].queue.state[k] = links[t].queue.state[k]
    BY <1>0, <2>1 DEF QueuesBehind
  <2>2. CASE k \in DOMAIN cache /\ links'[t].queue.state[k] = cache[k]
    <3>1. cache[k].meta.generation \in Nat
      BY <1>0, <2>2, HeldTyped DEF CacheTyped, Held
    <3>2. k \in DOMAIN seen[t] => seen[t][k] <= cache[k].meta.generation
      BY <1>0 DEF SeenBehind
    <3> QED
      BY <2>2, <3>1, <3>2
  <2> QED
    BY <1>2, <1>5, <2>1, <2>2
<1>9. SubscriberUpToDate'
  <2> SUFFICES ASSUME NEW t \in DOMAIN links, NEW ty \in DOMAIN links'[t].subscriptions,
                      NEW k \in Matching(links'[t].subscriptions[ty]),
                      HasMeta(cache[k]), cache[k].deadline_ms = 0,
                      cache[k].source_id # Peer[t]
               PROVE  \/ k \in DOMAIN seen[t] /\ seen[t][k] = cache[k].meta.generation
                      \/ /\ k \in DOMAIN links'[t].queue.state
                         /\ links'[t].queue.state[k].meta = cache[k].meta
                      \/ k \in refused'[t]
    BY <1>2, <1>3 DEF SubscriberUpToDate, Matching
  <2>1. CASE t # l
    BY <1>0, <1>2, <1>3, <2>1 DEF SubscriberUpToDate
  <2>2. CASE t = l /\ k \in Matching(r)
    BY <1>2, <1>3, <1>6, <2>2
  <2>3. CASE t = l /\ k \notin Matching(r)
    <3>1. /\ ty \in DOMAIN links[l].subscriptions
          /\ k \in Matching(links[l].subscriptions[ty])
      BY <1>2, <2>3 DEF With
    <3>2. \/ k \in DOMAIN seen[l] /\ seen[l][k] = cache[k].meta.generation
          \/ k \in DOMAIN q.state /\ q.state[k].meta = cache[k].meta
          \/ k \in refused[l]
      BY <1>0, <1>2, <2>3, <3>1 DEF SubscriberUpToDate
    <3>3. k \notin through
      BY <1>6, <2>3
    <3>4. k \in DOMAIN q.state /\ q.state[k].meta = cache[k].meta =>
            k \in DOMAIN p.state /\ p.state[k].meta = cache[k].meta
      BY <1>5
    <3> QED
      BY <1>2, <1>3, <2>3, <3>2, <3>3, <3>4
  <2> QED
    BY <2>1, <2>2, <2>3
<1> QED
  BY <1>3, <1>4, <1>7, <1>8, <1>9 DEF StreamInv

\* What ingest leaves in state_ of a queue and among what was refused: the
\* message, when it is a state message, is in one of them for a subscriber.
LEMMA IngestQueues ==
  ASSUME StateRecordsLatest, LinksTyped, HistoryTyped,
         NEW l, NEW m \in Records, NEW now, Ingest(l, m, now)
  PROVE  /\ HistoryTyped'
         /\ \A t \in DOMAIN links :
              LET s == links[t].queue.state
                  u == links'[t].queue.state
              IN  /\ \A k : k # stream_key(m) =>
                       /\ k \in DOMAIN u <=> k \in DOMAIN s
                       /\ k \in DOMAIN s => u[k] = s[k]
                       /\ k \in refused'[t] <=> k \in refused[t]
                  /\ stream_key(m) \in DOMAIN u =>
                       \/ stream_key(m) \in DOMAIN s /\ u[stream_key(m)] = s[stream_key(m)]
                       \/ state_type(m.type) /\ u[stream_key(m)] = Addressed(m, t)
                  /\ ~state_type(m.type) => u = s
                  /\ state_type(m.type) /\ t \in Subscribers(l, m) =>
                       \/ stream_key(m) \in DOMAIN u /\ u[stream_key(m)] = Addressed(m, t)
                       \/ stream_key(m) \in refused'[t]
<1> DEFINE key == stream_key(m)
           V(t) == push_verdict(links[t].queue, Addressed(m, t), now)
<1>1. /\ m \in Known /\ DOMAIN links \subseteq LinkIds
      /\ \A t \in DOMAIN links :
           /\ t \notin Subscribers(l, m) => links'[t] = links[t]
           /\ t \in Subscribers(l, m) =>
                links'[t].queue = push(links[t].queue, Addressed(m, t), V(t))
  BY IngestEffect DEF LinksTyped
<1>2. /\ refused' = [t \in LinkIds |->
                      IF t \notin Subscribers(l, m) THEN refused[t]
                      ELSE IF V(t) \in Admitted THEN refused[t] \ {key}
                      ELSE refused[t] \cup {key}]
      /\ seen' = seen
  BY DEF Ingest, Addressed
<1> HIDE DEF key, V
<1>3. HistoryTyped'
  BY <1>2 DEF HistoryTyped
<1>4. ASSUME NEW t \in DOMAIN links
      PROVE  LET s == links[t].queue.state
                 u == links'[t].queue.state
             IN  /\ \A k : k # key =>
                      /\ k \in DOMAIN u <=> k \in DOMAIN s
                      /\ k \in DOMAIN s => u[k] = s[k]
                      /\ k \in refused'[t] <=> k \in refused[t]
                 /\ key \in DOMAIN u =>
                      \/ key \in DOMAIN s /\ u[key] = s[key]
                      \/ state_type(m.type) /\ u[key] = Addressed(m, t)
                 /\ ~state_type(m.type) => u = s
                 /\ state_type(m.type) /\ t \in Subscribers(l, m) =>
                      \/ key \in DOMAIN u /\ u[key] = Addressed(m, t)
                      \/ key \in refused'[t]
  <2> DEFINE s == links[t].queue.state
             u == links'[t].queue.state
  <2>1. t \in LinkIds /\ Good(Held, links[t].queue)
    BY <1>1 DEF LinksTyped, LinkTyped
  <2>2. CASE t \notin Subscribers(l, m)
    <3>1. u = s /\ refused'[t] = refused[t]
      BY <1>1, <1>2, <2>1, <2>2
    <3> QED
      BY <2>2, <3>1
  <2>3. CASE t \in Subscribers(l, m)
    <3>1. u = push(links[t].queue, Addressed(m, t), V(t)).state
      BY <1>1, <2>3
    <3>2. Addressed(m, t) \in Held
      BY <1>1, <2>1 DEF Held
    <3>3. V(t) = "evicted" => links[t].queue.events # <<>>
      BY DEF V, push_verdict
    <3>4. /\ is_state(Addressed(m, t)) <=> state_type(m.type)
          /\ stream_key(Addressed(m, t)) = key
      <4>1. is_state(Addressed(m, t)) = is_state(m) /\ stream_key(Addressed(m, t)) = key
        BY AddressedStream DEF key
      <4>2. is_state(m) <=> state_type(m.type)
        BY DEF is_state, StateRecordsLatest
      <4> QED
        BY <4>1, <4>2
    <3>5. /\ V(t) \notin Admitted \/ ~state_type(m.type) => u = s
          /\ V(t) \in Admitted /\ state_type(m.type) =>
               /\ DOMAIN u = DOMAIN s \cup {key} /\ u[key] = Addressed(m, t)
               /\ \A k \in DOMAIN s : k # key => u[k] = s[k]
      <4> DEFINE a == Addressed(m, t)
                 v == V(t)
                 qq == links[t].queue
      <4>1. /\ v \notin Admitted \/ ~is_state(a) => push(qq, a, v).state = qq.state
            /\ v \in Admitted /\ is_state(a) =>
                 /\ DOMAIN push(qq, a, v).state = DOMAIN qq.state \cup {stream_key(a)}
                 /\ push(qq, a, v).state[stream_key(a)] = a
                 /\ \A k \in DOMAIN qq.state :
                      k # stream_key(a) => push(qq, a, v).state[k] = qq.state[k]
        BY <2>1, <3>2, <3>3, PushState
      <4> QED
        BY <3>1, <3>4, <4>1
    <3>6. /\ V(t) \in Admitted => refused'[t] = refused[t] \ {key}
          /\ V(t) \notin Admitted => refused'[t] = refused[t] \cup {key}
      BY <1>2, <2>1, <2>3
    <3> HIDE DEF s, u
    <3>7. /\ \A k : k # key =>
               /\ k \in DOMAIN u <=> k \in DOMAIN s
               /\ k \in DOMAIN s => u[k] = s[k]
               /\ k \in refused'[t] <=> k \in refused[t]
          /\ key \in DOMAIN u =>
               \/ key \in DOMAIN s /\ u[key] = s[key]
               \/ state_type(m.type) /\ u[key] = Addressed(m, t)
          /\ ~state_type(m.type) => u = s
          /\ state_type(m.type) =>
               \/ key \in DOMAIN u /\ u[key] = Addressed(m, t)
               \/ key \in refused'[t]
      BY <3>5, <3>6
    <3> QED
      BY <3>7 DEF s, u
  <2> QED
    BY <2>2, <2>3
<1> QED
  BY <1>3, <1>4 DEF key

\* ingest: the message is newer than all that its stream has had.
LEMMA IngestStream ==
  ASSUME StateRecordsLatest, UpToDateInv, NEW l, NEW m \in Records, NEW now,
         Ingest(l, m, now)
  PROVE  StreamInv' /\ SubscriberUpToDate' /\ seen' = seen
<1> DEFINE key == stream_key(m)
<1>0. /\ ProxyInv /\ LinksTyped /\ CacheTyped /\ HistoryTyped /\ SeenBehind
      /\ QueuesBehind /\ SubscriberUpToDate /\ DOMAIN links \subseteq LinkIds
  BY DEF UpToDateInv, ProxyInv, StreamInv, LinksTyped
<1>1. /\ m \in Known /\ m.source_id = Peer[l] /\ l \in DOMAIN links
      /\ DOMAIN links' = DOMAIN links
      /\ \A t \in DOMAIN links : links'[t].subscriptions = links[t].subscriptions
      /\ seen' = seen
  BY <1>0, IngestEffect
<1>2. /\ HistoryTyped'
      /\ \A t \in DOMAIN links :
           LET s == links[t].queue.state
               u == links'[t].queue.state
           IN  /\ \A k : k # key =>
                    /\ k \in DOMAIN u <=> k \in DOMAIN s
                    /\ k \in DOMAIN s => u[k] = s[k]
                    /\ k \in refused'[t] <=> k \in refused[t]
               /\ key \in DOMAIN u =>
                    \/ key \in DOMAIN s /\ u[key] = s[key]
                    \/ state_type(m.type) /\ u[key] = Addressed(m, t)
               /\ ~state_type(m.type) => u = s
               /\ state_type(m.type) /\ t \in Subscribers(l, m) =>
                    \/ key \in DOMAIN u /\ u[key] = Addressed(m, t)
                    \/ key \in refused'[t]
  BY <1>0, IngestQueues
<1>3. /\ ~state_type(m.type) => cache' = cache
      /\ state_type(m.type) => /\ DOMAIN cache' = DOMAIN cache \cup {key}
                               /\ cache'[key] = m
                               /\ key \in DOMAIN cache => newer(m, cache[key])
  BY IngestCache DEF With
<1>4. \A k \in DOMAIN cache :
        /\ k \in DOMAIN cache'
        /\ \/ cache'[k] = cache[k]
           \/ /\ cache'[k] = m /\ key = k /\ HasMeta(m) /\ state_type(m.type)
              /\ m.meta.generation > cache[k].meta.generation
  BY <1>0, CacheStep
<1>5. /\ m.meta.generation \in Nat
      /\ \A k \in DOMAIN cache : cache[k].meta.generation \in Nat
  BY <1>0, <1>1, HeldTyped DEF CacheTyped, Held
<1>6. \A t : /\ Addressed(m, t).meta = m.meta
             /\ Addressed(m, t).deadline_ms = m.deadline_ms
             /\ HasMeta(Addressed(m, t)) = HasMeta(m)
  BY AddressedFields, AddressedStream
<1> HIDE DEF key
<1>7. SeenBehind'
  <2> SUFFICES ASSUME NEW t \in LinkIds, NEW k \in DOMAIN seen[t]
               PROVE  /\ k \in DOMAIN cache' /\ HasMeta(cache'[k])
                      /\ seen[t][k] \in Nat /\ seen[t][k] <= cache'[k].meta.generation
    BY <1>1 DEF SeenBehind
  <2>1. /\ k \in DOMAIN cache /\ HasMeta(cache[k])
        /\ seen[t][k] \in Nat /\ seen[t][k] <= cache[k].meta.generation
    BY <1>0 DEF SeenBehind
  <2> QED
    BY <1>4, <1>5, <2>1
<1>8. QueuesBehind'
  <2> SUFFICES ASSUME NEW t \in DOMAIN links, NEW k \in DOMAIN links'[t].queue.state,
                      HasMeta(links'[t].queue.state[k])
               PROVE  LET n == links'[t].queue.state[k] IN
                      /\ k \in DOMAIN cache'
                      /\ n.meta.generation <= cache'[k].meta.generation
                      /\ n.meta.generation = cache'[k].meta.generation =>
                           n.deadline_ms = cache'[k].deadline_ms
                      /\ k \in DOMAIN seen[t] => seen[t][k] <= n.meta.generation
    BY <1>1 DEF QueuesBehind
  <2> DEFINE s == links[t].queue.state
             n == links'[t].queue.state[k]
  <2>1. CASE k \in DOMAIN s /\ n = s[k]
    <3>1. /\ k \in DOMAIN cache
          /\ n.meta.generation <= cache[k].meta.generation
          /\ n.meta.generation = cache[k].meta.generation =>
               n.deadline_ms = cache[k].deadline_ms
          /\ k \in DOMAIN seen[t] => seen[t][k] <= n.meta.generation
      BY <1>0, <2>1 DEF QueuesBehind
    <3>2. n.meta.generation \in Nat
      <4>1. Good(Held, links[t].queue)
        BY <1>0 DEF LinksTyped, LinkTyped
      <4>2. s[k] \in Held
        BY <2>1, <4>1, StateType DEF Good, Contents
      <4> QED
        BY <2>1, <4>2, HeldTyped
    <3> HIDE DEF n, s
    <3>3. /\ n.meta.generation <= cache'[k].meta.generation
          /\ n.meta.generation = cache'[k].meta.generation =>
               n.deadline_ms = cache'[k].deadline_ms
      BY <1>4, <1>5, <3>1, <3>2
    <3> QED
      BY <1>4, <3>1, <3>3 DEF n
  <2>2. CASE k = key /\ state_type(m.type) /\ n = Addressed(m, t)
    <3>1. k \in DOMAIN cache' /\ cache'[k] = m
      BY <1>3, <2>2
    <3>2. ASSUME k \in DOMAIN seen[t]
          PROVE  seen[t][k] <= m.meta.generation
      <4>1. /\ k \in DOMAIN cache /\ seen[t][k] \in Nat
            /\ seen[t][k] <= cache[k].meta.generation
        BY <1>0, <3>2 DEF SeenBehind
      <4>2. m.meta.generation > cache[k].meta.generation
        BY <1>3, <2>2, <4>1 DEF newer
      <4> QED
        BY <1>5, <4>1, <4>2
    <3> QED
      BY <1>5, <1>6, <2>2, <3>1, <3>2
  <2>3. \/ k \in DOMAIN s /\ n = s[k]
        \/ k = key /\ state_type(m.type) /\ n = Addressed(m, t)
    BY <1>2
  <2> QED
    BY <2>1, <2>2, <2>3
<1>9. SubscriberUpToDate'
  <2> SUFFICES ASSUME NEW t \in DOMAIN links, NEW ty \in DOMAIN links[t].subscriptions,
                      NEW k \in DOMAIN cache',
                      cache'[k].type = links[t].subscriptions[ty].type,
                      cache'[k].source_id = links[t].subscriptions[ty].source_id,
                      HasMeta(cache'[k]), cache'[k].deadline_ms = 0,
                      cache'[k].source_id # Peer[t]
               PROVE  \/ k \in DOMAIN seen[t] /\ seen[t][k] = cache'[k].meta.generation
                      \/ /\ k \in DOMAIN links'[t].queue.state
                         /\ links'[t].queue.state[k].meta = cache'[k].meta
                      \/ k \in refused'[t]
    BY <1>1 DEF SubscriberUpToDate, Matching
  <2>1. CASE k # key
    <3>1. k \in DOMAIN cache /\ cache'[k] = cache[k]
      BY <1>3, <1>4, <2>1
    <3>2. \/ k \in DOMAIN seen[t] /\ seen[t][k] = cache[k].meta.generation
          \/ /\ k \in DOMAIN links[t].queue.state
             /\ links[t].queue.state[k].meta = cache[k].meta
          \/ k \in refused[t]
      BY <1>0, <3>1 DEF SubscriberUpToDate, Matching
    <3> QED
      BY <1>2, <2>1, <3>1, <3>2
  <2>2. CASE k = key
    <3>1. state_type(m.type)
      <4>1. CASE cache' = cache
        <5>1. cache[k] \in Known /\ state_type(cache[k].type) /\ stream_key(cache[k]) = k
          BY <1>0, <4>1 DEF CacheTyped
        <5>2. m.type \in MessageType /\ cache[k].type \in MessageType
          BY <1>1, <5>1, HeldTyped DEF Typed, Held
        <5>3. stream_key(cache[k]) = stream_key(m)
          BY <2>2, <5>1 DEF key
        <5>4. state_type(cache[k].type) = state_type(m.type)
          BY <5>2, <5>3, KeyTells
        <5> QED
          BY <5>1, <5>4
      <4> QED
        BY <1>3, <4>1
    <3>2. cache'[k] = m
      BY <1>3, <2>2, <3>1
    <3>3. t # l
      BY <1>1, <3>2
    <3>4. links[t].subscriptions[ty].type = ty
      BY <1>0 DEF LinksTyped, LinkTyped
    <3>5. t \in Subscribers(l, m)
      BY <3>2, <3>3, <3>4 DEF Subscribers
    <3> QED
      BY <1>2, <1>6, <2>2, <3>1, <3>2, <3>5
  <2> QED
    BY <2>1, <2>2
<1> QED
  BY <1>1, <1>2, <1>7, <1>8, <1>9 DEF StreamInv

\* A new proxy has told nobody anything.
LEMMA InitStream == Init => UpToDateInv
<1> SUFFICES ASSUME Init PROVE UpToDateInv
  OBVIOUS
<1>1. /\ DOMAIN links = {} /\ HistoryTyped
      /\ \A l \in LinkIds : DOMAIN seen[l] = {}
  BY DEF Init, NoFunction, HistoryTyped
<1>2. SeenBehind /\ QueuesBehind /\ SubscriberUpToDate
  BY <1>1 DEF SeenBehind, QueuesBehind, SubscriberUpToDate
<1> QED
  BY <1>1, <1>2, InitProxy DEF UpToDateInv, StreamInv

\* Every call; only remove_link forgets what a link got.
LEMMA StreamStep ==
  ASSUME StateRecordsLatest, UpToDateInv, [Next]_vars
  PROVE  /\ UpToDateInv'
         /\ \A l \in DOMAIN links : \A k \in DOMAIN seen[l] :
              k \in DOMAIN seen'[l] => seen'[l][k] >= seen[l][k]
<1> DEFINE Goal == /\ StreamInv' /\ SubscriberUpToDate'
                   /\ \A l \in DOMAIN links : \A k \in DOMAIN seen[l] :
                        k \in DOMAIN seen'[l] => seen'[l][k] >= seen[l][k]
<1>0. /\ ProxyInv /\ LinksTyped /\ HistoryTyped /\ StreamInv /\ SubscriberUpToDate
      /\ DOMAIN links \subseteq LinkIds
      /\ \A l \in LinkIds : \A k \in DOMAIN seen[l] : seen[l][k] \in Nat
  BY DEF UpToDateInv, ProxyInv, LinksTyped, StreamInv, SeenBehind
<1>1. ProxyInv'
  BY <1>0, ProxyStep
<1>2. ASSUME NEW l \in LinkIds, AddLink(l)
      PROVE  Goal
  <2>1. /\ links' = With(links, l, [queue |-> EmptyQueue, subscriptions |-> NoFunction])
        /\ cache' = cache /\ seen' = seen /\ refused' = refused
    BY <1>2 DEF AddLink
  <2>2. /\ DOMAIN links' = DOMAIN links \cup {l}
        /\ links'[l].queue = EmptyQueue /\ DOMAIN links'[l].subscriptions = {}
        /\ \A t \in DOMAIN links : t # l => links'[t] = links[t]
    BY <2>1 DEF With, NoFunction
  <2>3. DOMAIN EmptyQueue.state = {}
    BY EmptyGood
  <2>4. HistoryTyped'
    BY <1>0, <2>1 DEF HistoryTyped
  <2>5. StreamInv' /\ SubscriberUpToDate'
    BY <1>0, <2>1, <2>2, <2>3, <2>4, QuietStep
  <2> QED
    BY <1>0, <2>1, <2>5
<1>3. ASSUME NEW l \in LinkIds, RemoveLink(l)
      PROVE  Goal
  <2>1. /\ links' = Without(links, l) /\ cache' = cache
        /\ seen' = [seen EXCEPT ![l] = NoFunction]
        /\ refused' = [refused EXCEPT ![l] = {}]
    BY <1>3 DEF RemoveLink
  <2>2. \A t \in DOMAIN links' : t \in DOMAIN links /\ t # l /\ links'[t] = links[t]
    BY <2>1 DEF Without
  <2>3. DOMAIN NoFunction = {}
    BY DEF NoFunction
  <2> HIDE DEF NoFunction
  <2>4. /\ HistoryTyped' /\ DOMAIN seen'[l] = {}
        /\ \A t \in LinkIds : t # l => seen'[t] = seen[t] /\ refused'[t] = refused[t]
    BY <1>0, <2>1, <2>3 DEF HistoryTyped
  <2>5. \A t \in LinkIds : \A k \in DOMAIN seen'[t] :
          k \in DOMAIN seen[t] /\ seen'[t][k] = seen[t][k]
    BY <2>4
  <2>6. StreamInv' /\ SubscriberUpToDate'
    BY <1>0, <2>1, <2>2, <2>4, <2>5, QuietStep
  <2> QED
    BY <1>0, <2>5, <2>6
<1>4. ASSUME NEW l \in Asking, NEW r \in Requests, Subscribe(l, r)
      PROVE  Goal
  <2>1. l \in LinkIds
    BY ProxyAssumption
  <2>2. StreamInv' /\ SubscriberUpToDate' /\ seen' = seen
    BY <1>4, <2>1, SubscribeStream
  <2> QED
    BY <1>0, <2>2
<1>5. ASSUME NEW l \in Asking, NEW r \in Requests, Unsubscribe(l, r.type)
      PROVE  Goal
  <2>1. /\ DOMAIN links' = DOMAIN links
        /\ \A t \in DOMAIN links :
             /\ links'[t].queue = links[t].queue
             /\ DOMAIN links'[t].subscriptions \subseteq DOMAIN links[t].subscriptions
             /\ \A y \in DOMAIN links'[t].subscriptions :
                  links'[t].subscriptions[y] = links[t].subscriptions[y]
        /\ cache' = cache /\ seen' = seen /\ refused' = refused
    BY <1>0, <1>5, UnsubscribeStep
  <2>2. HistoryTyped'
    BY <1>0, <2>1 DEF HistoryTyped
  <2>3. StreamInv' /\ SubscriberUpToDate'
    BY <1>0, <2>1, <2>2, QuietStep
  <2> QED
    BY <1>0, <2>1, <2>3
<1>6. ASSUME NEW l \in LinkIds, NEW m \in Records, NEW now \in Times, Ingest(l, m, now)
      PROVE  Goal
  <2>1. StreamInv' /\ SubscriberUpToDate' /\ seen' = seen
    BY <1>6, IngestStream
  <2> QED
    BY <1>0, <2>1
<1>7. ASSUME NEW l \in LinkIds, NEW now \in Times, NextMessage(l, now)
      PROVE  Goal
  BY <1>0, <1>7, NextMessageStream
<1>8. ASSUME UNCHANGED <<links, cache, seen, refused>>
      PROVE  Goal
  <2>1. links' = links /\ cache' = cache /\ seen' = seen /\ refused' = refused
    BY <1>8
  <2>2. HistoryTyped'
    BY <1>0, <2>1 DEF HistoryTyped
  <2>3. StreamInv' /\ SubscriberUpToDate'
    BY <1>0, <2>1, <2>2, QuietStep
  <2> QED
    BY <1>0, <2>1, <2>3
<1>9. /\ \A l, m : IngestGap(l, m) => UNCHANGED <<links, cache, seen, refused>>
      /\ NextResync => UNCHANGED <<links, cache, seen, refused>>
      /\ UNCHANGED vars => UNCHANGED <<links, cache, seen, refused>>
  BY DEF IngestGap, NextResync, vars
<1> HIDE DEF Goal
<1>10. Goal
  BY <1>2, <1>3, <1>4, <1>5, <1>6, <1>7, <1>8, <1>9 DEF Next
<1> QED
  BY <1>1, <1>10 DEF Goal, UpToDateInv

\* A subscriber is up to date after every call, whenever it subscribed, however
\* often, and whatever was replaced, dropped or delivered meanwhile.
THEOREM SubscribersUpToDate ==
  ASSUME StateRecordsLatest
  PROVE  Spec => []SubscriberUpToDate
<1>1. UpToDateInv /\ [Next]_vars => UpToDateInv'
  BY StreamStep
<1>2. UpToDateInv => SubscriberUpToDate
  BY DEF UpToDateInv
<1> QED
  BY <1>1, <1>2, InitStream, PTL DEF Spec

\* No link gets an older generation of a stream after a newer one, for any
\* interleaving of ingest, subscribe and next.
THEOREM LinksNotTakenBack ==
  ASSUME StateRecordsLatest
  PROVE  Spec => LinkNotTakenBack
<1> DEFINE Forward ==
      \A l \in DOMAIN links : \A k \in DOMAIN seen[l] :
        k \in DOMAIN seen'[l] => seen'[l][k] >= seen[l][k]
<1>1. UpToDateInv /\ [Next]_vars => UpToDateInv' /\ [Forward]_vars
  BY StreamStep
<1> QED
  BY <1>1, InitStream, PTL DEF Spec, LinkNotTakenBack
=============================================================================
