-------------------------- MODULE BoundedQosQueue --------------------------
(***************************************************************************)
(* One BoundedQosQueue under any sequence of its calls: src/qos.cpp.  The  *)
(* callers pass any time they like, as the code lets them (the proxy does  *)
(* pass 0), and push and pop are called in any order.                      *)
(***************************************************************************)
EXTENDS QosQueue

CONSTANTS
  Offers,       \* the messages that callers push, each a message of its own
  Times,        \* the values of now_ms that callers pass
  CounterSpan,  \* the counters of QueueMetrics count modulo this: 2^64
  None          \* no message

Message(type, qos, source, deadline, length, meta, body) ==
  [type |-> type, qos |-> qos, source_id |-> source, deadline_ms |-> deadline,
   length |-> length, meta |-> meta, body |-> body]

ASSUME QueueAssumption ==
  /\ Times \subseteq Nat
  /\ CounterSpan \in Nat \ {0}
  /\ \A m \in Offers :
       /\ m.type \in MessageType /\ m.qos \in Qos
       /\ m.source_id \in Nat /\ m.deadline_ms \in Nat /\ m.length \in Nat
       /\ m.meta \in [resource_id : Nat, generation : Nat,
                      base_generation : Nat, source_id : Nat, snapshot : Nat]
  /\ None \notin Offers

VARIABLES
  queue,     \* critical_, events_ and state_
  metrics,   \* metrics_
  offered,   \* history: the calls of push, less the messages clear threw away
  last       \* the last call: its name, its message and its time

vars == <<queue, metrics, offered, last>>

Counters == {"enqueued", "delivered", "dropped_latest", "rejected_critical", "expired"}

Plus(n, d) == (n + d) % CounterSpan

Waiting(q) ==
  {q.critical[i] : i \in 1 .. Len(q.critical)} \cup
  {q.events[i] : i \in 1 .. Len(q.events)} \cup
  {q.state[k] : k \in DOMAIN q.state}

Init ==
  /\ queue = EmptyQueue
  /\ metrics = [c \in Counters |-> 0]
  /\ offered = 0
  /\ last = [call |-> "none", message |-> None, now |-> 0]

\* Mutant: the event a full queue gives up is not counted.
push_counts_evicted_uncounted(verdict, counter) ==
  \/ counter = "enqueued" /\ verdict \in Admitted
  \/ counter = "dropped_latest" /\ verdict \in {"replaced", "dropped"}
  \/ counter = verdict

\* Whether push increments a counter.
push_counts(verdict, counter) ==
  \/ counter = "enqueued" /\ verdict \in Admitted
  \/ counter = "dropped_latest" /\ verdict \in {"replaced", "evicted", "dropped"}
  \/ counter = verdict

\* BoundedQosQueue::push of a message that is not in the queue already.
Push(m, now) ==
  LET verdict == push_verdict(queue, m, now) IN
  /\ m \notin Waiting(queue)
  /\ queue' = push(queue, m, verdict)
  /\ metrics' = [c \in Counters |->
                   Plus(metrics[c], IF push_counts(verdict, c) THEN 1 ELSE 0)]
  /\ offered' = Plus(offered, 1)
  /\ last' = [call |-> "push", message |-> m, now |-> now]

\* BoundedQosQueue::pop.  A pop that finds nothing has thrown away everything
\* that had expired, too.
Pop(now) ==
  LET served == pop_source(queue, now) # "none"
      gone   == size(queue) - size(pop(queue, now)) - (IF served THEN 1 ELSE 0)
  IN
  /\ queue' = pop(queue, now)
  /\ metrics' = [metrics EXCEPT !.delivered = Plus(@, IF served THEN 1 ELSE 0),
                                !.expired = Plus(@, gone)]
  /\ last' = [call |-> "pop", now |-> now,
              message |-> IF served THEN pop_message(queue, now) ELSE None]
  /\ UNCHANGED offered

\* BoundedQosQueue::clear: the metrics do not see it.
Clear ==
  /\ queue' = EmptyQueue
  /\ offered' = (offered - size(queue)) % CounterSpan
  /\ last' = [call |-> "clear", message |-> None, now |-> 0]
  /\ UNCHANGED metrics

PopSome == \E now \in Times : Pop(now)

Next ==
  \/ \E m \in Offers, now \in Times : Push(m, now)
  \/ PopSome
  \/ Clear

\* Fairness is the owner's part: it takes messages out again and again.  pop is
\* never refused, so only an owner that stops calling it falls short of this.
Spec == Init /\ [][Next]_vars /\ WF_vars(PopSome)
-----------------------------------------------------------------------------
\* Each container holds what belongs in it, and a stream is filed under its
\* own key.
Sorted ==
  /\ \A i \in 1 .. Len(queue.critical) : is_critical(queue.critical[i])
  /\ \A i \in 1 .. Len(queue.events) :
       ~is_critical(queue.events[i]) /\ ~is_state(queue.events[i])
  /\ \A k \in DOMAIN queue.state :
       is_state(queue.state[k]) /\ stream_key(queue.state[k]) = k

\* Every variable has its type, and the containers are sorted.
TypeOK ==
  /\ Sorted
  /\ queue.critical \in Seq(Offers)
  /\ queue.events \in Seq(Offers)
  /\ \A k \in DOMAIN queue.state : queue.state[k] \in Offers
  /\ metrics \in [Counters -> 0 .. CounterSpan - 1]
  /\ offered \in 0 .. CounterSpan - 1
  /\ last \in [call : {"none", "push", "pop", "clear"},
               message : Offers \cup {None}, now : Times \cup {0}]

\* The three containers of a queue together never hold more than its capacity
\* (qos.cpp:34-46): neither a new stream, nor a reliable message, nor the
\* replacement of an event goes past it.
Bounded == size(queue) <= Capacity

\* The metrics lose nothing: every message pushed and not thrown away by clear
\* is waiting, or counted once as delivered, dropped, rejected or expired, in
\* whichever of push and pop it went.
Accounted ==
  offered = (metrics.delivered + metrics.dropped_latest
             + metrics.rejected_critical + metrics.expired + size(queue))
            % CounterSpan

\* A reliable message leaves the queue in three ways only: pop delivers it,
\* pop finds it expired, or clear is called.  No push, of any class, costs it
\* its place, and those that stay keep their order.
ReliableKept ==
  [][last'.call # "clear" =>
       /\ \A i \in 1 .. Len(queue.critical) :
            LET m == queue.critical[i] IN
            \/ \E j \in 1 .. Len(queue'.critical) : m = queue'.critical[j]
            \/ last'.call = "pop" /\ (m = last'.message \/ expired(m, last'.now))
       /\ \E n \in 0 .. Len(queue.critical) :
            /\ Len(queue'.critical) >= Len(queue.critical) - n
            /\ After(queue.critical, n) =
                 SubSeq(queue'.critical, 1, Len(queue.critical) - n)]_vars

\* A push touches the state of its own stream and of no other: the last value
\* of a stream waits, whatever else is pushed, until it is popped or replaced
\* by a message of the same type, source and resource.
StreamsApart ==
  [][last'.call = "push" =>
       \A k \in DOMAIN queue.state :
         /\ k \in DOMAIN queue'.state
         /\ \/ queue'.state[k] = queue.state[k]
            \/ /\ queue'.state[k] = last'.message
               /\ stream_key(last'.message) = k]_vars

\* A pop that delivers an event or a state leaves no live reliable message
\* behind, and what it delivers has not expired.
CriticalFirst ==
  [][last'.call = "pop" /\ last'.message # None =>
       /\ ~expired(last'.message, last'.now)
       /\ ~is_critical(last'.message) =>
            \A i \in 1 .. Len(queue.critical) :
              expired(queue.critical[i], last'.now)]_vars

\* A reliable message does not wait for ever while the queue is popped, even
\* if pushes of every class never stop.
CriticalServed ==
  \A m \in Offers :
    (m \in Waiting(queue) /\ is_critical(m)) ~> m \notin Waiting(queue)
=============================================================================
