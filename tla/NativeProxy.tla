---------------------------- MODULE NativeProxy ----------------------------
(***************************************************************************)
(* Class NativeProxy, include/new_mavlink/proxy.hpp and src/proxy.cpp: it  *)
(* keeps the last message of every state stream, forwards what it ingests  *)
(* to the links that subscribe to it, each through a bounded queue of its  *)
(* own, and asks for a resync when a delta does not fit.                   *)
(*                                                                         *)
(* The counters of ProxyMetrics, which nothing reads back, are left out.   *)
(***************************************************************************)
EXTENDS QosQueue

CONSTANTS
  LinkIds,           \* the link ids that callers use
  Asking,            \* those for which they subscribe
  Peer,              \* Peer[l]: peer_id of the session that link l is added with
  LocalId,           \* local_id of those sessions
  MaxLinks,          \* 16
  MaxSubscriptions,  \* kMaxProxySubscriptions, 64
  Records,           \* the opened records that callers ingest
  Requests,          \* the subscriptions that callers ask for
  Times              \* the values of now_ms that callers pass

ASSUME ProxyAssumption ==
  /\ LinkIds \subseteq Nat /\ LocalId \in Nat
  /\ Asking \subseteq LinkIds
  /\ Peer \in [LinkIds -> Nat]
  /\ MaxLinks \in Nat /\ MaxSubscriptions \in Nat
  /\ Times \subseteq Nat
  /\ Records \subseteq
       [type : STRING, qos : Qos, source_id : Nat, destination_id : Nat,
        deadline_ms : Nat, length : Nat, in_range : BOOLEAN,
        meta : [resource_id : Nat, generation : Nat, base_generation : Nat,
                source_id : Nat, snapshot : Nat]]
  /\ Requests \subseteq [type : STRING, qos : Qos, source_id : Nat]

VARIABLES
  links,    \* links_: link id |-> its queue and its subscriptions by type
  cache,    \* cache_: stream |-> the last message
  resync,   \* resync_
  seen,     \* history: seen[l][k]: the generation of stream k that link l got last
  refused   \* history: the streams whose last message a queue had no room for

vars == <<links, cache, resync, seen, refused>>

NoFunction == [x \in {} |-> {}]

\* f with the value v at x.
With(f, x, v) == [y \in DOMAIN f \cup {x} |-> IF y = x THEN v ELSE f[y]]
Without(f, x) == [y \in DOMAIN f \ {x} |-> f[y]]

Init ==
  /\ links = NoFunction
  /\ cache = NoFunction
  /\ resync = <<>>
  /\ seen = [l \in LinkIds |-> NoFunction]
  /\ refused = [l \in LinkIds |-> {}]
-----------------------------------------------------------------------------
\* NativeProxy::add_link
AddLink(l) ==
  /\ l # 0 /\ l \notin DOMAIN links
  /\ Cardinality(DOMAIN links) < MaxLinks
  /\ links' = With(links, l, [queue |-> EmptyQueue, subscriptions |-> NoFunction])
  /\ UNCHANGED <<cache, resync, seen, refused>>

RemoveLink(l) ==
  /\ l \in DOMAIN links
  /\ links' = Without(links, l)
  /\ seen' = [seen EXCEPT ![l] = NoFunction]
  /\ refused' = [refused EXCEPT ![l] = {}]
  /\ UNCHANGED <<cache, resync>>

\* The subscriptions of all links, as pairs of a link and a type.
SubscriptionSet ==
  {p \in (DOMAIN links) \X MessageType : p[2] \in DOMAIN links[p[1]].subscriptions}

SubscriptionCount == Cardinality(SubscriptionSet)

\* Mutant: the limit is that of one link.
subscribe_accepts_per_link(l, r) ==
  /\ l \in DOMAIN links
  /\ r.source_id # 0
  /\ known_type(r.type) /\ ~control_type(r.type) /\ ~command_type(r.type)
  /\ r.type \in DOMAIN links[l].subscriptions
       \/ Cardinality(DOMAIN links[l].subscriptions) < MaxSubscriptions

\* The checks of subscribe; a qos out of range is left out.
subscribe_accepts(l, r) ==
  /\ l \in DOMAIN links
  /\ r.source_id # 0
  /\ known_type(r.type) /\ ~control_type(r.type) /\ ~command_type(r.type)
  /\ r.type \in DOMAIN links[l].subscriptions
       \/ SubscriptionCount < MaxSubscriptions

\* The cached streams that a subscription asks for.
Matching(r) ==
  {k \in DOMAIN cache : cache[k].type = r.type /\ cache[k].source_id = r.source_id}

\* cache_ is an unordered_map: its entries come in any order.
Orders(K) ==
  {o \in [1 .. Cardinality(K) -> K] : \A i, j \in DOMAIN o : o[i] = o[j] => i = j}

\* The push of one cached message at time 0, number i of its order, unless one
\* before it had no room.
push_next(before, m, i) ==
  LET verdict == push_verdict(before.queue, m, 0)
  IN  IF before.pushed = i - 1 /\ verdict \in Admitted
      THEN [queue |-> push(before.queue, m, verdict), pushed |-> i]
      ELSE before

\* The queue after the cached messages of an order are pushed, and how many of
\* them, before the first that has no room.
push_cached(q, order) ==
  LET at[i \in 0 .. Len(order)] ==
        IF i = 0 THEN [queue |-> q, pushed |-> 0]
        ELSE push_next(at[i - 1], cache[order[i]], i)
  IN  at[Len(order)]

\* Mutant: a new subscriber waits for the next change.
Subscribe_uncached(l, r) ==
  /\ subscribe_accepts(l, r)
  /\ links' = [links EXCEPT ![l].subscriptions = With(@, r.type, r)]
  /\ UNCHANGED <<cache, resync, seen, refused>>

\* NativeProxy::subscribe.  It returns false, and keeps the subscription,
\* when the queue has no room for a cached message.
Subscribe(l, r) ==
  /\ subscribe_accepts(l, r)
  /\ \E order \in Orders(Matching(r)) :
       LET end     == push_cached(links[l].queue, order)
           through == {order[i] : i \in 1 .. end.pushed}
       IN  /\ links' = [links EXCEPT ![l].queue = end.queue,
                                     ![l].subscriptions = With(@, r.type, r)]
           /\ refused' = [refused EXCEPT ![l] = (@ \ through) \cup (Matching(r) \ through)]
  /\ UNCHANGED <<cache, resync, seen>>

Unsubscribe(l, type) ==
  /\ l \in DOMAIN links
  /\ type \in DOMAIN links[l].subscriptions
  /\ links' = [links EXCEPT ![l].subscriptions = Without(@, type)]
  /\ UNCHANGED <<cache, resync, seen, refused>>
-----------------------------------------------------------------------------
\* Mutant: a snapshot is always taken.
newer_or_snapshot(m, old) ==
  m.meta.snapshot # 0 \/ m.meta.generation > old.meta.generation

\* The message is not one that the cache has, or has left behind.
newer(m, old) == m.meta.generation > old.meta.generation

\* Mutant: the base of a delta is not looked at.
fits_any_base(m, old) == TRUE

\* A snapshot, or a delta of the cached message.
fits(m, old) ==
  m.meta.snapshot # 0 \/ m.meta.base_generation = old.meta.generation

\* What ingest does with a record from link l, in the order of its checks.
ingest_verdict(l, m) ==
  IF \/ l \notin DOMAIN links \/ m.length > kMaxPayloadBytes
     \/ ~known_type(m.type)
     \/ m.source_id # Peer[l] \/ m.destination_id # LocalId
     \/ m.type = "Position" /\ ~decode_state(m)
  THEN "rejected"
  ELSE IF ~state_type(m.type) THEN "forwarded"
  ELSE IF stream_key(m) \notin DOMAIN cache THEN "cached"
  ELSE LET old == cache[stream_key(m)] IN
       IF ~HasMeta(old) \/ ~HasMeta(m) THEN "rejected"
       ELSE IF ~fits(m, old) THEN "gap"
       ELSE IF ~newer(m, old) THEN "stale"
       ELSE "cached"

\* The links that a message from link l goes to.
Subscribers(l, m) ==
  {t \in DOMAIN links \ {l} :
     /\ m.type \in DOMAIN links[t].subscriptions
     /\ links[t].subscriptions[m.type].source_id = m.source_id}

\* ingest of a record that is accepted: the cache is updated first, then each
\* subscriber's queue gets the message, or has no room for it.
Ingest(l, m, now) ==
  LET forwarded(t) == [m EXCEPT !.destination_id = t]
      verdict(t)   == push_verdict(links[t].queue, forwarded(t), now)
      to           == Subscribers(l, m)
  IN
  /\ ingest_verdict(l, m) \in {"forwarded", "cached"}
  /\ cache' = IF ingest_verdict(l, m) = "cached"
              THEN With(cache, stream_key(m), m) ELSE cache
  /\ links' = [t \in DOMAIN links |->
                 IF t \in to
                 THEN [links[t] EXCEPT !.queue = push(@, forwarded(t), verdict(t))]
                 ELSE links[t]]
  /\ refused' = [t \in LinkIds |->
                   IF t \notin to THEN refused[t]
                   ELSE IF verdict(t) \in Admitted
                   THEN refused[t] \ {stream_key(m)}
                   ELSE refused[t] \cup {stream_key(m)}]
  /\ UNCHANGED <<resync, seen>>

resync_room == Len(resync) < Capacity

\* ingest of a delta that does not fit: the request is dropped when the list
\* is full, and the message in any case.
IngestGap(l, m) ==
  /\ ingest_verdict(l, m) = "gap"
  /\ resync_room
  /\ resync' = Append(resync, [type |-> m.type, source_id |-> m.meta.source_id,
                               resource_id |-> m.meta.resource_id])
  /\ UNCHANGED <<links, cache, seen, refused>>

\* NativeProxy::next
NextMessage(l, now) ==
  /\ l \in DOMAIN links
  /\ links' = [links EXCEPT ![l].queue = pop(@, now)]
  /\ LET m == pop_message(links[l].queue, now) IN
     seen' = IF /\ pop_source(links[l].queue, now) # "none"
                /\ state_type(m.type) /\ HasMeta(m)
             THEN [seen EXCEPT ![l] = With(@, stream_key(m), m.meta.generation)]
             ELSE seen
  /\ UNCHANGED <<cache, resync, refused>>

NextResync ==
  /\ resync # <<>>
  /\ resync' = Tail(resync)
  /\ UNCHANGED <<links, cache, seen, refused>>

Next ==
  \/ \E l \in LinkIds : AddLink(l) \/ RemoveLink(l)
  \/ \E l \in Asking, r \in Requests : Subscribe(l, r)
  \/ \E l \in Asking, r \in Requests : Unsubscribe(l, r.type)
  \/ \E l \in LinkIds, m \in Records, now \in Times : Ingest(l, m, now)
  \/ \E l \in LinkIds, m \in Records : IngestGap(l, m)
  \/ \E l \in LinkIds, now \in Times : NextMessage(l, now)
  \/ NextResync

Spec == Init /\ [][Next]_vars
-----------------------------------------------------------------------------
\* What the proxy holds for its links has fixed limits: links, subscriptions
\* of all links together, messages of a queue, resync requests.
LimitsHeld ==
  /\ Cardinality(DOMAIN links) <= MaxLinks
  /\ SubscriptionCount <= MaxSubscriptions
  /\ \A l \in DOMAIN links : size(links[l].queue) <= Capacity
  /\ Len(resync) <= Capacity

\* A stream of the cache is never lost, and never goes back to a generation
\* it has had: neither a late snapshot nor a repeated delta changes it, and a
\* delta only follows the message it is a delta of.
CacheAdvances ==
  [][\A k \in DOMAIN cache :
       /\ k \in DOMAIN cache'
       /\ cache'[k] # cache[k] =>
            /\ cache'[k].meta.generation > cache[k].meta.generation
            /\ \/ cache'[k].meta.snapshot = 1
               \/ cache'[k].meta.base_generation = cache[k].meta.generation]_vars

\* No link is given an older generation of a stream after a newer one, across
\* forwarding, replacement in its queue, and subscribing again.
LinkNotTakenBack ==
  [][\A l \in DOMAIN links : \A k \in DOMAIN seen[l] :
       k \in DOMAIN seen'[l] => seen'[l][k] >= seen[l][k]]_vars

\* A subscriber is up to date: of each stream it subscribes to, the cached
\* generation is the last one it got, or waits in its queue, or found the
\* queue without room.  It makes no difference whether it subscribed before
\* the message came, after, or twice.
SubscriberUpToDate ==
  \A l \in DOMAIN links : \A t \in DOMAIN links[l].subscriptions :
    \A k \in Matching(links[l].subscriptions[t]) :
      LET m == cache[k] IN
      HasMeta(m) /\ m.deadline_ms = 0 /\ m.source_id # Peer[l] =>
        \/ k \in DOMAIN seen[l] /\ seen[l][k] = m.meta.generation
        \/ /\ k \in DOMAIN links[l].queue.state
           /\ links[l].queue.state[k].meta = m.meta
        \/ k \in refused[l]
=============================================================================
