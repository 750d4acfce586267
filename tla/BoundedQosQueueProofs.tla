----------------------- MODULE BoundedQosQueueProofs -----------------------
(***************************************************************************)
(* Theorems about BoundedQosQueue, for every capacity, every set of        *)
(* messages and every clock.                                               *)
(***************************************************************************)
EXTENDS BoundedQosQueue, QosQueueProofs

QueueInv ==
  /\ Good(Offers, queue)
  /\ Bounded
  /\ metrics \in [Counters -> 0 .. CounterSpan - 1]
  /\ offered \in 0 .. CounterSpan - 1
  /\ last \in [call : {"none", "push", "pop", "clear"},
               message : Offers \cup {None}, now : Times \cup {0}]

\* The offers are messages whose streams have keys.
LEMMA OffersTyped == Typed(Offers)
BY QueueAssumption DEF Typed

-----------------------------------------------------------------------------
(***************************************************************************)
(* The inductive invariant.  Bounded is not inductive by itself: that a    *)
(* push leaves no more than there is room for rests on the containers      *)
(* being sequences and a finite map, with each stream under its own key.   *)
(***************************************************************************)

\* A counter stays below its span.
LEMMA PlusType ==
  ASSUME NEW n \in Int, NEW d \in Int
  PROVE  /\ Plus(n, d) \in 0 .. CounterSpan - 1
         /\ (n - d) % CounterSpan \in 0 .. CounterSpan - 1
<1>1. CounterSpan \in Nat \ {0}
  BY QueueAssumption
<1>2. \A x \in Int : x % CounterSpan \in 0 .. CounterSpan - 1
  BY <1>1
<1> QED
  BY <1>2 DEF Plus

\* A new queue is empty and within any capacity.
LEMMA QueueInit == Init => QueueInv
<1> SUFFICES ASSUME Init PROVE QueueInv
  OBVIOUS
<1>1. Good(Offers, queue) /\ size(queue) = 0
  BY EmptyGood DEF Init
<1>2. CounterSpan \in Nat \ {0} /\ Capacity \in Nat
  BY QueueAssumption, CapacityAssumption
<1> QED
  BY <1>1, <1>2 DEF Init, QueueInv, Bounded

\* push, pop and clear keep the invariant.
LEMMA QueueStep == QueueInv /\ [Next]_vars => QueueInv'
<1> SUFFICES ASSUME QueueInv, [Next]_vars PROVE QueueInv'
  OBVIOUS
<1> USE DEF QueueInv
<1>0. /\ Good(Offers, queue) /\ size(queue) \in Nat /\ size(queue) <= Capacity
      /\ \A c \in Counters : metrics[c] \in Int
      /\ offered \in Int /\ Capacity \in Nat
  BY SizeType, QueueAssumption, CapacityAssumption DEF Bounded
<1>1. ASSUME NEW m \in Offers, NEW now \in Times, Push(m, now)
      PROVE  QueueInv'
  <2>1. Good(Offers, queue)' /\ Bounded'
    BY <1>0, <1>1, PushGood DEF Push, Bounded
  <2>2. metrics' \in [Counters -> 0 .. CounterSpan - 1]
    <3>1. \A c \in Counters : \A d \in {0, 1} :
            Plus(metrics[c], d) \in 0 .. CounterSpan - 1
      <4> SUFFICES ASSUME NEW c \in Counters, NEW d \in {0, 1}
                   PROVE  Plus(metrics[c], d) \in 0 .. CounterSpan - 1
        OBVIOUS
      <4>1. metrics[c] \in Int /\ d \in Int
        BY <1>0
      <4> QED
        BY <4>1, PlusType
    <3>2. metrics' = [c \in Counters |->
                        Plus(metrics[c],
                             IF push_counts(push_verdict(queue, m, now), c)
                             THEN 1 ELSE 0)]
      BY <1>1 DEF Push
    <3>3. \A c \in Counters : metrics'[c] \in 0 .. CounterSpan - 1
      BY <3>1, <3>2
    <3> QED
      BY <3>2, <3>3
  <2>3. offered' \in 0 .. CounterSpan - 1
    BY <1>0, <1>1, PlusType DEF Push
  <2>4. last' \in [call : {"none", "push", "pop", "clear"},
                   message : Offers \cup {None}, now : Times \cup {0}]
    BY <1>1 DEF Push
  <2> QED
    BY <2>1, <2>2, <2>3, <2>4
<1>2. ASSUME NEW now \in Times, Pop(now)
      PROVE  QueueInv'
  <2>1. /\ Good(Offers, pop(queue, now)) /\ size(pop(queue, now)) <= size(queue)
        /\ size(pop(queue, now)) \in Nat
    BY <1>0, PopGood, SizeType
  <2>2. Good(Offers, queue)' /\ Bounded'
    BY <1>0, <1>2, <2>1 DEF Pop, Bounded
  <2>3. metrics' \in [Counters -> 0 .. CounterSpan - 1]
    <3> DEFINE d == IF pop_source(queue, now) # "none" THEN 1 ELSE 0
               g == size(queue) - size(pop(queue, now)) - d
    <3>1. metrics' = [metrics EXCEPT !.delivered = Plus(@, d), !.expired = Plus(@, g)]
      BY <1>2 DEF Pop
    <3>2. d \in Int /\ g \in Int
      BY <1>0, <2>1
    <3> HIDE DEF d, g
    <3>3. "delivered" \in Counters /\ "expired" \in Counters
      BY DEF Counters
    <3>4. metrics["delivered"] \in Int /\ metrics["expired"] \in Int
      BY <1>0, <3>3
    <3>5. /\ Plus(metrics["delivered"], d) \in 0 .. CounterSpan - 1
          /\ Plus(metrics["expired"], g) \in 0 .. CounterSpan - 1
      BY <3>2, <3>4, PlusType
    <3> QED
      BY <3>1, <3>3, <3>5
  <2>4. last' \in [call : {"none", "push", "pop", "clear"},
                   message : Offers \cup {None}, now : Times \cup {0}]
    BY <1>0, <1>2, OffersTyped, PopMessageType DEF Pop
  <2> QED
    BY <1>2, <2>2, <2>3, <2>4 DEF Pop
<1>3. CASE Clear
  <2>1. Good(Offers, queue') /\ size(queue') = 0
    BY <1>3, EmptyGood DEF Clear
  <2>2. offered' \in 0 .. CounterSpan - 1
    BY <1>0, <1>3, PlusType DEF Clear
  <2>3. last' \in [call : {"none", "push", "pop", "clear"},
                   message : Offers \cup {None}, now : Times \cup {0}]
    BY <1>3 DEF Clear
  <2> QED
    BY <1>0, <1>3, <2>1, <2>2, <2>3 DEF Clear, Bounded
<1>4. CASE UNCHANGED vars
  BY <1>4 DEF vars, Good, Contents, Filed, Bounded
<1> QED
  BY <1>1, <1>2, <1>3, <1>4 DEF Next, PopSome

\* The invariant holds of every reachable state.
LEMMA QueueInvariant == Spec => []QueueInv
BY QueueInit, QueueStep, PTL DEF Spec

\* Every state of a queue is well formed: each message is in the container of
\* its class, and each state message under the key of its stream.
THEOREM QueueTypeCorrect == Spec => []TypeOK
<1>1. QueueInv => TypeOK
  <2> SUFFICES ASSUME QueueInv PROVE TypeOK
    OBVIOUS
  <2>1. queue.critical \in Seq(Offers) /\ queue.events \in Seq(Offers)
        /\ queue.state \in States(Offers)
    BY DEF QueueInv, Good, Contents
  <2>2. \A k \in DOMAIN queue.state : queue.state[k] \in Offers
    BY <2>1, StateType
  <2>3. Sorted
    BY DEF QueueInv, Good, Filed, Sorted
  <2> QED
    BY <2>1, <2>2, <2>3 DEF QueueInv, TypeOK
<1> QED
  BY <1>1, QueueInvariant, PTL

\* The three containers of a queue together never hold more than its capacity,
\* whatever that is and whatever is pushed.
THEOREM QueueBounded == Spec => []Bounded
<1>1. QueueInv => Bounded
  BY DEF QueueInv
<1> QED
  BY <1>1, QueueInvariant, PTL

-----------------------------------------------------------------------------
(***************************************************************************)
(* The metrics lose nothing.  The counters wrap, so the sums are compared  *)
(* modulo their span: a counter may stand for any number congruent to it.  *)
(***************************************************************************)

\* Quotient and remainder.
LEMMA DivMod ==
  ASSUME NEW n \in Nat \ {0}, NEW a \in Int
  PROVE  /\ a \div n \in Int /\ a % n \in 0 .. n - 1
         /\ a = n * (a \div n) + (a % n)
OBVIOUS

\* Remainders that differ by a multiple of n are equal.
LEMMA RemainderUnique ==
  ASSUME NEW n \in Nat \ {0}, NEW r \in 0 .. n - 1, NEW s \in 0 .. n - 1,
         NEW k \in Int, r - s = n * k
  PROVE  r = s
<1>1. CASE k >= 1
  <2>1. n * k >= n
    BY <1>1
  <2> QED
    BY <2>1
<1>2. CASE k <= -1
  <2>1. n * k <= -n
    BY <1>2
  <2> QED
    BY <2>1
<1>3. CASE k = 0
  BY <1>3
<1> QED
  BY <1>1, <1>2, <1>3

\* Numbers that differ by a multiple of n have the same remainder.
LEMMA SameRemainder ==
  ASSUME NEW n \in Nat \ {0}, NEW a \in Int, NEW b \in Int, NEW k \in Int,
         a - b = n * k
  PROVE  a % n = b % n
<1> DEFINE p == a \div n
           q == b \div n
           r == a % n
           s == b % n
<1>1. /\ p \in Int /\ q \in Int /\ r \in 0 .. n - 1 /\ s \in 0 .. n - 1
      /\ a = n * p + r /\ b = n * q + s
  BY DivMod
<1> HIDE DEF p, q, r, s
<1>2. k - p + q \in Int
  BY <1>1
<1>3. r - s = n * (k - p + q)
  <2> DEFINE x == n * k
             y == n * p
             z == n * q
  <2>1. n * (k - p + q) = x - y + z
    BY <1>1
  <2>2. x \in Int /\ y \in Int /\ z \in Int
    BY <1>1
  <2>3. a - b = x /\ a = y + r /\ b = z + s
    BY <1>1
  <2> HIDE DEF x, y, z
  <2> QED
    BY <1>1, <2>1, <2>2, <2>3
<1>4. r = s
  BY <1>1, <1>2, <1>3, RemainderUnique
<1> QED
  BY <1>4 DEF r, s

\* A term of a sum may be reduced before the sum is.
LEMMA ReducedTerm ==
  ASSUME NEW a \in Int, NEW b \in Int
  PROVE  ((a % CounterSpan) + b) % CounterSpan = (a + b) % CounterSpan
<1> DEFINE n == CounterSpan
           q == a \div n
           r == a % n
           x == a + b
           y == r + b
<1>1. n \in Nat \ {0}
  BY QueueAssumption
<1>2. q \in Int /\ r \in Int /\ a = n * q + r
  BY <1>1, DivMod
<1> HIDE DEF q, r
<1>3. x \in Int /\ y \in Int /\ x - y = n * q
  BY <1>1, <1>2
<1> HIDE DEF x, y, n
<1>4. x % n = y % n
  BY <1>1, <1>2, <1>3, SameRemainder
<1> QED
  BY <1>4 DEF x, y, r, n

\* The sum that Accounted compares, of four counters and a size.
Total(d, l, r, e, z) == (d + l + r + e + z) % CounterSpan

\* All the counters may be.
LEMMA ReducedTerms ==
  ASSUME NEW D \in Int, NEW L \in Int, NEW R \in Int, NEW E \in Int, NEW z \in Int
  PROVE  Total(D % CounterSpan, L % CounterSpan, R % CounterSpan, E % CounterSpan, z) =
           Total(D, L, R, E, z)
<1> DEFINE N == CounterSpan
<1>1. D % N \in Int /\ L % N \in Int /\ R % N \in Int /\ E % N \in Int
  BY QueueAssumption
<1> DEFINE d1 == D % N
           l1 == L % N
           r1 == R % N
           e1 == E % N
<1> HIDE DEF d1, l1, r1, e1
<1>2. Total(d1, l1, r1, e1, z) = Total(D, l1, r1, e1, z)
  <2>1. (d1 + (l1 + r1 + e1 + z)) % N = (D + (l1 + r1 + e1 + z)) % N
    <3>1. l1 + r1 + e1 + z \in Int
      BY <1>1 DEF l1, r1, e1
    <3> QED
      BY <3>1, ReducedTerm DEF d1
  <2>2. /\ d1 + (l1 + r1 + e1 + z) = d1 + l1 + r1 + e1 + z
        /\ D + (l1 + r1 + e1 + z) = D + l1 + r1 + e1 + z
    BY <1>1 DEF d1, l1, r1, e1
  <2> QED
    BY <2>1, <2>2 DEF Total
<1>3. Total(D, l1, r1, e1, z) = Total(D, L, r1, e1, z)
  <2>1. (l1 + (D + r1 + e1 + z)) % N = (L + (D + r1 + e1 + z)) % N
    <3>1. D + r1 + e1 + z \in Int
      BY <1>1 DEF r1, e1
    <3> QED
      BY <3>1, ReducedTerm DEF l1
  <2>2. /\ l1 + (D + r1 + e1 + z) = D + l1 + r1 + e1 + z
        /\ L + (D + r1 + e1 + z) = D + L + r1 + e1 + z
    BY <1>1 DEF l1, r1, e1
  <2> QED
    BY <2>1, <2>2 DEF Total
<1>4. Total(D, L, r1, e1, z) = Total(D, L, R, e1, z)
  <2>1. (r1 + (D + L + e1 + z)) % N = (R + (D + L + e1 + z)) % N
    <3>1. D + L + e1 + z \in Int
      BY <1>1 DEF e1
    <3> QED
      BY <3>1, ReducedTerm DEF r1
  <2>2. /\ r1 + (D + L + e1 + z) = D + L + r1 + e1 + z
        /\ R + (D + L + e1 + z) = D + L + R + e1 + z
    BY <1>1 DEF r1, e1
  <2> QED
    BY <2>1, <2>2 DEF Total
<1>5. Total(D, L, R, e1, z) = Total(D, L, R, E, z)
  <2>1. (e1 + (D + L + R + z)) % N = (E + (D + L + R + z)) % N
    <3>1. D + L + R + z \in Int
      OBVIOUS
    <3> QED
      BY <3>1, ReducedTerm DEF e1
  <2>2. /\ e1 + (D + L + R + z) = D + L + R + e1 + z
        /\ E + (D + L + R + z) = D + L + R + E + z
    BY <1>1 DEF e1
  <2> QED
    BY <2>1, <2>2 DEF Total
<1> QED
  BY <1>2, <1>3, <1>4, <1>5 DEF d1, l1, r1, e1

\* A push counts the message once, or finds it a place that nobody had; a pop
\* counts all that it takes out; what clear throws away is not counted.
LEMMA AccountedStep ==
  ASSUME QueueInv, QueueInv', Accounted, [Next]_vars
  PROVE  Accounted'
<1> DEFINE d == metrics.delivered
           l == metrics.dropped_latest
           r == metrics.rejected_critical
           e == metrics.expired
           z == size(queue)
<1>0. CounterSpan \in Nat \ {0}
  BY QueueAssumption
<1>1. /\ d \in 0 .. CounterSpan - 1 /\ l \in 0 .. CounterSpan - 1
      /\ r \in 0 .. CounterSpan - 1 /\ e \in 0 .. CounterSpan - 1
      /\ z \in Nat
  BY SizeType DEF QueueInv, Counters
<1>2. \A x \in 0 .. CounterSpan - 1 : Plus(x, 0) = x
  BY <1>0 DEF Plus
<1>3. offered = Total(d, l, r, e, z)
  BY DEF Accounted, Total
<1>4. /\ d \in Int /\ l \in Int /\ r \in Int /\ e \in Int /\ z \in Int
      /\ d + l + r + e + z \in Int
  BY <1>0, <1>1
<1> HIDE DEF d, l, r, e, z
<1>5. ASSUME NEW dd \in Int, NEW dl \in Int, NEW dr \in Int, NEW de \in Int,
             NEW y \in Int
      PROVE  Total(Plus(d, dd), Plus(l, dl), Plus(r, dr), Plus(e, de), y) =
               (d + l + r + e + (dd + dl + dr + de + y)) % CounterSpan
  <2> DEFINE D == d + dd
             L == l + dl
             R == r + dr
             E == e + de
  <2>1. D \in Int /\ L \in Int /\ R \in Int /\ E \in Int
    BY <1>4
  <2>2. D + L + R + E + y = d + l + r + e + (dd + dl + dr + de + y)
    BY <1>4
  <2>3. /\ Plus(d, dd) = D % CounterSpan /\ Plus(l, dl) = L % CounterSpan
        /\ Plus(r, dr) = R % CounterSpan /\ Plus(e, de) = E % CounterSpan
    BY DEF Plus
  <2> HIDE DEF D, L, R, E
  <2>4. Total(D % CounterSpan, L % CounterSpan, R % CounterSpan, E % CounterSpan, y)
          = Total(D, L, R, E, y)
    BY <2>1, ReducedTerms
  <2> QED
    BY <2>2, <2>3, <2>4 DEF Total
<1>6. ASSUME NEW m \in Offers, NEW now \in Times, Push(m, now)
      PROVE  Accounted'
  <2> DEFINE v == push_verdict(queue, m, now)
             up(c) == IF push_counts(v, c) THEN 1 ELSE 0
  <2>1. v \in {"expired", "replaced", "added", "rejected_critical", "evicted", "dropped"}
    BY DEF push_verdict
  <2>2. size(queue') = IF v = "added" THEN z + 1 ELSE z
    BY <1>6, PushGood DEF Push, QueueInv, Bounded, z
  <2>3. metrics' = [c \in Counters |-> Plus(metrics[c], up(c))]
    BY <1>6 DEF Push
  <2>4. /\ metrics'.delivered = Plus(d, up("delivered"))
        /\ metrics'.dropped_latest = Plus(l, up("dropped_latest"))
        /\ metrics'.rejected_critical = Plus(r, up("rejected_critical"))
        /\ metrics'.expired = Plus(e, up("expired"))
    BY <2>3 DEF Counters, d, l, r, e
  <2> HIDE DEF v
  <2>5. /\ up("delivered") = 0
        /\ up("dropped_latest") = IF v \in {"replaced", "evicted", "dropped"} THEN 1 ELSE 0
        /\ up("rejected_critical") = IF v = "rejected_critical" THEN 1 ELSE 0
        /\ up("expired") = IF v = "expired" THEN 1 ELSE 0
    BY <2>1 DEF push_counts, Admitted
  <2> HIDE DEF up
  <2>6. /\ up("delivered") \in Int /\ up("dropped_latest") \in Int
        /\ up("rejected_critical") \in Int /\ up("expired") \in Int
    BY <2>5
  <2> DEFINE y == size(queue')
  <2>7. /\ y \in Int
        /\ d + l + r + e + (up("delivered") + up("dropped_latest")
                             + up("rejected_critical") + up("expired") + y)
             = (d + l + r + e + z) + 1
    BY <1>4, <2>1, <2>2, <2>5
  <2> HIDE DEF y
  <2>8. Total(metrics'.delivered, metrics'.dropped_latest, metrics'.rejected_critical,
              metrics'.expired, y)
          = ((d + l + r + e + z) + 1) % CounterSpan
    <3> DEFINE a == up("delivered")
               b == up("dropped_latest")
               c == up("rejected_critical")
               f == up("expired")
    <3> HIDE DEF a, b, c, f
    <3>1. a \in Int /\ b \in Int /\ c \in Int /\ f \in Int /\ y \in Int
      BY <2>6, <2>7 DEF a, b, c, f
    <3>2. Total(Plus(d, a), Plus(l, b), Plus(r, c), Plus(e, f), y) =
            (d + l + r + e + (a + b + c + f + y)) % CounterSpan
      BY <1>5, <3>1
    <3>3. d + l + r + e + (a + b + c + f + y) = (d + l + r + e + z) + 1
      BY <2>7 DEF a, b, c, f
    <3> QED
      BY <2>4, <3>2, <3>3 DEF a, b, c, f
  <2>9. offered' = ((d + l + r + e + z) + 1) % CounterSpan
    BY <1>3, <1>4, <1>6, ReducedTerm DEF Push, Plus, Total
  <2> QED
    BY <2>8, <2>9 DEF Accounted, Total, y
<1>7. ASSUME NEW now \in Times, Pop(now)
      PROVE  Accounted'
  <2> DEFINE dd == IF pop_source(queue, now) # "none" THEN 1 ELSE 0
             y  == size(pop(queue, now))
             g  == z - y - dd
  <2>1. y \in Nat
    BY PopGood, SizeType DEF QueueInv
  <2>2. dd \in Int /\ g \in Int
    BY <1>1, <2>1
  <2>3. metrics' = [metrics EXCEPT !.delivered = Plus(@, dd), !.expired = Plus(@, g)]
    BY <1>7 DEF Pop, z
  <2>4. queue' = pop(queue, now) /\ offered' = offered
    BY <1>7 DEF Pop
  <2> HIDE DEF dd, g, y
  <2>5. /\ metrics'.delivered = Plus(d, dd) /\ metrics'.dropped_latest = Plus(l, 0)
        /\ metrics'.rejected_critical = Plus(r, 0) /\ metrics'.expired = Plus(e, g)
    <3>1. metrics \in [Counters -> 0 .. CounterSpan - 1]
      BY DEF QueueInv
    <3>2. /\ metrics'.delivered = Plus(d, dd) /\ metrics'.dropped_latest = l
          /\ metrics'.rejected_critical = r /\ metrics'.expired = Plus(e, g)
      BY <2>3, <3>1 DEF Counters, d, l, r, e
    <3> QED
      BY <1>1, <1>2, <3>2
  <2>6. /\ y \in Int /\ 0 \in Int
        /\ d + l + r + e + (dd + 0 + 0 + g + y) = d + l + r + e + z
    BY <1>4, <2>1, <2>2 DEF g
  <2>7. offered' = Total(metrics'.delivered, metrics'.dropped_latest,
                         metrics'.rejected_critical, metrics'.expired, y)
    BY <1>3, <1>5, <2>2, <2>4, <2>5, <2>6 DEF Total
  <2> QED
    BY <2>4, <2>7 DEF Accounted, Total, y
<1>8. CASE Clear
  <2>1. offered' = (offered - z) % CounterSpan /\ queue' = EmptyQueue /\ metrics' = metrics
    BY <1>8 DEF Clear, z
  <2>2. size(queue') = 0
    BY <2>1, FS_EmptySet DEF EmptyQueue, size
  <2>3. offered \in Int /\ offered - z = offered + (-z) /\ -z \in Int
    BY <1>1 DEF QueueInv
  <2>4. ((d + l + r + e + z) + (-z)) % CounterSpan
          = (((d + l + r + e + z) % CounterSpan) + (-z)) % CounterSpan
    BY <1>4, <2>3, ReducedTerm
  <2>5. (d + l + r + e + z) + (-z) = d + l + r + e + 0
    BY <1>0, <1>1
  <2>6. offered' = Total(d, l, r, e, 0)
    BY <1>3, <2>1, <2>3, <2>4, <2>5 DEF Total
  <2> QED
    BY <2>1, <2>2, <2>6 DEF Accounted, Total, d, l, r, e
<1>9. CASE UNCHANGED vars
  BY <1>9 DEF vars, Accounted
<1> QED
  BY <1>6, <1>7, <1>8, <1>9 DEF Next, PopSome

\* Every message pushed and not thrown away by clear is waiting, or counted once
\* as delivered, dropped, rejected or expired (qos.cpp), for counters of any
\* span: also after they have wrapped.
THEOREM QueueAccounted == Spec => []Accounted
<1>1. Init => Accounted
  <2> SUFFICES ASSUME Init PROVE Accounted
    OBVIOUS
  <2>1. size(queue) = 0
    BY FS_EmptySet DEF Init, EmptyQueue, size
  <2>2. /\ metrics.delivered = 0 /\ metrics.dropped_latest = 0
        /\ metrics.rejected_critical = 0 /\ metrics.expired = 0 /\ offered = 0
    BY DEF Init, Counters
  <2>3. 0 % CounterSpan = 0
    BY QueueAssumption
  <2> QED
    BY <2>1, <2>2, <2>3 DEF Accounted
<1>2. QueueInv /\ QueueInv' /\ Accounted /\ [Next]_vars => Accounted'
  BY AccountedStep
<1> QED
  BY <1>1, <1>2, QueueInvariant, PTL DEF Spec

-----------------------------------------------------------------------------
(***************************************************************************)
(* What a step may not do.                                                 *)
(***************************************************************************)

\* What a step of each kind says it was.
LEMMA LastCall ==
  ASSUME Next
  PROVE  /\ last'.call = "push" => \E m \in Offers, now \in Times :
              /\ queue' = push(queue, m, push_verdict(queue, m, now))
              /\ last'.message = m
         /\ last'.call = "pop" => \E now \in Times :
              /\ queue' = pop(queue, now)
              /\ last'.now = now
              /\ last'.message = IF pop_source(queue, now) # "none"
                                 THEN pop_message(queue, now) ELSE None
         /\ last'.call \in {"push", "pop", "clear"}
<1>1. ASSUME NEW m \in Offers, NEW now \in Times, Push(m, now)
      PROVE  /\ last'.call = "push" /\ last'.message = m
             /\ queue' = push(queue, m, push_verdict(queue, m, now))
  BY <1>1 DEF Push
<1>2. ASSUME NEW now \in Times, Pop(now)
      PROVE  /\ last'.call = "pop" /\ last'.now = now
             /\ queue' = pop(queue, now)
             /\ last'.message = IF pop_source(queue, now) # "none"
                                THEN pop_message(queue, now) ELSE None
  BY <1>2 DEF Pop
<1>3. Clear => last'.call = "clear"
  BY DEF Clear
<1> QED
  BY <1>1, <1>2, <1>3 DEF Next, PopSome

\* The last value of a stream waits in the queue, whatever else is pushed,
\* until it is popped, cleared, or replaced by one of the same stream.
THEOREM QueueStreamsApart == Spec => StreamsApart
<1>1. QueueInv /\ [Next]_vars =>
        [last'.call = "push" =>
           \A k \in DOMAIN queue.state :
             /\ k \in DOMAIN queue'.state
             /\ \/ queue'.state[k] = queue.state[k]
                \/ /\ queue'.state[k] = last'.message
                   /\ stream_key(last'.message) = k]_vars
  <2> SUFFICES ASSUME QueueInv, Next, last'.call = "push",
                      NEW k \in DOMAIN queue.state
               PROVE  /\ k \in DOMAIN queue'.state
                      /\ \/ queue'.state[k] = queue.state[k]
                         \/ /\ queue'.state[k] = last'.message
                            /\ stream_key(last'.message) = k
    OBVIOUS
  <2>1. PICK m \in Offers, now \in Times :
          /\ queue' = push(queue, m, push_verdict(queue, m, now))
          /\ last'.message = m
    BY LastCall
  <2>2. push_verdict(queue, m, now) = "evicted" => queue.events # <<>>
    BY DEF push_verdict
  <2>3. Good(Offers, queue)
    BY DEF QueueInv
  <2> QED
    BY <2>1, <2>2, <2>3, PushStreams
<1> QED
  BY <1>1, QueueInvariant, PTL DEF Spec, StreamsApart

\* Nothing that has expired is delivered, and while a reliable message is live
\* nothing else is.
THEOREM QueueCriticalFirst == Spec => CriticalFirst
<1>1. QueueInv /\ [Next]_vars =>
        [last'.call = "pop" /\ last'.message # None =>
           /\ ~expired(last'.message, last'.now)
           /\ ~is_critical(last'.message) =>
                \A i \in 1 .. Len(queue.critical) :
                  expired(queue.critical[i], last'.now)]_vars
  <2> SUFFICES ASSUME QueueInv, Next, last'.call = "pop", last'.message # None
               PROVE  /\ ~expired(last'.message, last'.now)
                      /\ ~is_critical(last'.message) =>
                           \A i \in 1 .. Len(queue.critical) :
                             expired(queue.critical[i], last'.now)
    OBVIOUS
  <2>1. PICK now \in Times :
          /\ last'.now = now
          /\ last'.message = IF pop_source(queue, now) # "none"
                             THEN pop_message(queue, now) ELSE None
    BY LastCall
  <2>2. pop_source(queue, now) # "none" /\ last'.message = pop_message(queue, now)
    BY <2>1
  <2>3. /\ Good(Offers, queue) /\ queue.critical \in Seq(Offers)
        /\ queue.events \in Seq(Offers) /\ queue.state \in States(Offers)
    BY DEF QueueInv, Good, Contents
  <2> DEFINE i == FirstLive(queue.critical, now)
             j == FirstLive(queue.events, now)
  <2>4. CASE pop_source(queue, now) = "critical"
    <3>1. i # 0 /\ pop_message(queue, now) = queue.critical[i]
      BY <2>4 DEF pop_source, pop_message
    <3>2. i \in 1 .. Len(queue.critical) /\ ~expired(queue.critical[i], now)
      BY <2>3, <3>1, FirstLiveMeaning
    <3>3. is_critical(queue.critical[i])
      BY <2>3, <3>2 DEF Good, Filed
    <3> QED
      BY <2>1, <2>2, <3>1, <3>2, <3>3
  <2>5. CASE pop_source(queue, now) = "events"
    <3>1. i = 0 /\ j # 0 /\ pop_message(queue, now) = queue.events[j]
      BY <2>5 DEF pop_source, pop_message
    <3>2. ~expired(queue.events[j], now)
      BY <2>3, <3>1, FirstLiveMeaning
    <3>3. \A h \in 1 .. Len(queue.critical) : expired(queue.critical[h], now)
      BY <2>3, <3>1, FirstLiveMeaning
    <3> QED
      BY <2>1, <2>2, <3>1, <3>2, <3>3
  <2>6. CASE pop_source(queue, now) = "state"
    <3>1. i = 0 /\ pop_message(queue, now) = queue.state[FirstKey(queue, now)]
      BY <2>6 DEF pop_source, pop_message
    <3>2. FirstKey(queue, now) \in LiveKeys(queue, now)
      BY <2>3, <2>6, OffersTyped, FirstKeyLive
    <3>3. ~expired(queue.state[FirstKey(queue, now)], now)
      BY <3>2 DEF LiveKeys
    <3>4. \A h \in 1 .. Len(queue.critical) : expired(queue.critical[h], now)
      BY <2>3, <3>1, FirstLiveMeaning
    <3> QED
      BY <2>1, <2>2, <3>1, <3>3, <3>4
  <2> QED
    BY <2>2, <2>4, <2>5, <2>6 DEF pop_source
<1> QED
  BY <1>1, QueueInvariant, PTL DEF Spec, CriticalFirst

\* No push costs a reliable message its place; a pop removes the one it
\* delivers and those that have expired; what stays keeps its order.
THEOREM QueueReliableKept == Spec => ReliableKept
<1> DEFINE Step ==
      last'.call # "clear" =>
        /\ \A i \in 1 .. Len(queue.critical) :
             LET m == queue.critical[i] IN
             \/ \E j \in 1 .. Len(queue'.critical) : m = queue'.critical[j]
             \/ last'.call = "pop" /\ (m = last'.message \/ expired(m, last'.now))
        /\ \E n \in 0 .. Len(queue.critical) :
             /\ Len(queue'.critical) >= Len(queue.critical) - n
             /\ After(queue.critical, n) =
                  SubSeq(queue'.critical, 1, Len(queue.critical) - n)
<1>1. QueueInv /\ [Next]_vars => [Step]_vars
  <2> SUFFICES ASSUME QueueInv, Next, last'.call # "clear" PROVE Step
    OBVIOUS
  <2>0. Good(Offers, queue) /\ Len(queue.critical) \in Nat
    BY SizeType DEF QueueInv
  <2>1. CASE last'.call = "push"
    <3>1. PICK m \in Offers, now \in Times :
            queue' = push(queue, m, push_verdict(queue, m, now))
      BY <2>1, LastCall
    <3> DEFINE v == push_verdict(queue, m, now)
    <3>2. queue' = push(queue, m, v) /\ (v = "evicted" => queue.events # <<>>)
      BY <3>1 DEF push_verdict
    <3> HIDE DEF v
    <3> DEFINE c == queue.critical
               d == push(queue, m, v).critical
    <3>3. /\ \A i \in 1 .. Len(c) : \E j \in 1 .. Len(d) : c[i] = d[j]
          /\ Kept(c, d, 0)
      BY <2>0, <3>2, PushCritical
    <3>4. /\ \A i \in 1 .. Len(queue.critical) :
               \E j \in 1 .. Len(queue'.critical) : queue.critical[i] = queue'.critical[j]
          /\ Kept(queue.critical, queue'.critical, 0)
      BY <3>2, <3>3, Zenon
    <3>5. 0 \in 0 .. Len(queue.critical)
      BY <2>0
    <3> QED
      BY <3>4, <3>5 DEF Kept
  <2>2. CASE last'.call = "pop"
    <3>1. PICK now \in Times :
            /\ queue' = pop(queue, now)
            /\ last'.now = now
            /\ last'.message = IF pop_source(queue, now) # "none"
                               THEN pop_message(queue, now) ELSE None
      BY <2>2, LastCall
    <3>2. /\ \A i \in 1 .. Len(queue.critical) :
               \/ \E j \in 1 .. Len(queue'.critical) : queue.critical[i] = queue'.critical[j]
               \/ expired(queue.critical[i], last'.now)
               \/ queue.critical[i] = last'.message
          /\ \E n \in 0 .. Len(queue.critical) : Kept(queue.critical, queue'.critical, n)
      BY <2>0, <3>1, PopCritical
    <3> QED
      BY <2>2, <3>2 DEF Kept
  <2> QED
    BY <2>1, <2>2, LastCall
<1> QED
  BY <1>1, QueueInvariant, PTL DEF Spec, ReliableKept
=============================================================================
