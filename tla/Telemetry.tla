----------------------------- MODULE Telemetry -----------------------------
(***************************************************************************)
(* A StatePublisher, a link that loses and reorders, a NativeProxy and one *)
(* subscriber: how a value that is reported reaches the subscriber, and    *)
(* what becomes of it when the publisher's process restarts.  Repeated     *)
(* records are the business of RecordSession, and do not get here.         *)
(*                                                                         *)
(* Nothing in the code answers a ResyncRequest: a gap is closed by the     *)
(* next snapshot of the publisher, or not at all.                          *)
(***************************************************************************)
EXTENDS Publisher

CONSTANTS
  Capacity,     \* of the subscriber's queue and of the resync list
  Subscriber,   \* the link of the subscriber; the publisher's has its source_id
  Reported,     \* the streams that values are reported of
  MaxRestarts   \* bound: restarts of the publisher

ASSUME TelemetryAssumption ==
  /\ Subscriber \in Nat \ {source_id}
  /\ Reported \subseteq Streams
  /\ MaxRestarts \in Nat

VARIABLES
  links, cache, resync, seen, refused,  \* see NativeProxy
  net,       \* the messages under way from the publisher to the proxy; one
             \*   that is lost stays there
  peak,      \* history: the last generation of the earlier runs, by stream
  restarts

Request(s) == [type |-> s, qos |-> "StateLatest", source_id |-> source_id]

Prx == INSTANCE NativeProxy WITH
         LinkIds <- {source_id, Subscriber}, Asking <- {Subscriber},
         Peer <- [l \in {source_id, Subscriber} |-> l], LocalId <- destination_id,
         MaxLinks <- 16, MaxSubscriptions <- 64, Times <- {0}, Records <- {},
         Requests <- {Request(s) : s \in Reported}

proxy == <<links, cache, resync, seen, refused>>
all_vars == <<vars, proxy, net, peak, restarts>>

\* The proxy has its links, and no subscription, before the publisher starts.
TelemetryInit ==
  /\ Init
  /\ links = [l \in {source_id, Subscriber} |->
                [queue |-> Prx!EmptyQueue, subscriptions |-> Prx!NoFunction]]
  /\ cache = Prx!NoFunction
  /\ resync = <<>>
  /\ seen = [l \in {source_id, Subscriber} |-> Prx!NoFunction]
  /\ refused = [l \in {source_id, Subscriber} |-> {}]
  /\ net = {}
  /\ peak = [s \in Reported |-> 0]
  /\ restarts = 0
-----------------------------------------------------------------------------
\* A caller reports a value.  The two bounds stand for generations and a clock
\* that are far from their ends, where two values would share a generation, and
\* the first update would compute a next_snapshot_ms_ of 0.
Report ==
  /\ now + snapshot_period_ms <= TimeMax
  /\ \E s \in Reported : generation[s] < GenerationMax /\ \E v \in Values[s] : Update(s, v)
  /\ UNCHANGED <<proxy, net, peak, restarts>>

Wait == Tick /\ UNCHANGED <<proxy, net, peak, restarts>>

Poll ==
  /\ \E capacity \in Capacities :
       /\ PollDue(capacity) \/ PollChanged(capacity)
       /\ net' = net \cup {published(s, due) : s \in polled(capacity)}
  /\ UNCHANGED <<proxy, peak, restarts>>

\* The process of the publisher starts again.
Restart ==
  /\ restarts < MaxRestarts
  /\ restarts' = restarts + 1
  /\ peak' = [s \in Reported |-> IF generation[s] > peak[s] THEN generation[s] ELSE peak[s]]
  /\ now' = 0
  /\ has' = [s \in Streams |-> FALSE]
  /\ state' = [s \in Streams |-> Nothing]
  /\ generation' = [s \in Streams |-> 0]
  /\ dirty' = [s \in Streams |-> FALSE]
  /\ next_snapshot_ms' = 0
  /\ sent' = [s \in Streams |-> Nothing]
  /\ reported' = [s \in Streams |-> Nothing]
  /\ since' = 0
  /\ UNCHANGED <<proxy, net>>

\* A message that ingest returns false for, and that it asks for no resync
\* after, is dropped.
Dropped(m) ==
  /\ Prx!ingest_verdict(source_id, m) \in {"rejected", "stale", "gap"}
  /\ Prx!ingest_verdict(source_id, m) = "gap" => ~Prx!resync_room
  /\ UNCHANGED proxy

Deliver(m) ==
  /\ net' = net \ {m}
  /\ Prx!Ingest(source_id, m, 0) \/ Prx!IngestGap(source_id, m) \/ Dropped(m)
  /\ UNCHANGED <<vars, peak, restarts>>

Subscribe(s) ==
  /\ s \notin DOMAIN links[Subscriber].subscriptions
  /\ Prx!Subscribe(Subscriber, Request(s))
  /\ UNCHANGED <<vars, net, peak, restarts>>

Receive ==
  /\ Prx!NextMessage(Subscriber, 0)
  /\ UNCHANGED <<vars, net, peak, restarts>>

NextResync ==
  /\ Prx!NextResync
  /\ UNCHANGED <<vars, net, peak, restarts>>

TelemetryNext ==
  \/ Report \/ Wait \/ Poll \/ Restart
  \/ \E m \in net : Deliver(m)
  \/ \E s \in Reported : Subscribe(s)
  \/ Receive \/ NextResync

\* Polls and calls of next do not stop, and time goes on; of the snapshots of a
\* stream that are sent again and again, some arrive.
Fairness ==
  /\ WF_all_vars(Wait) /\ WF_all_vars(Poll) /\ WF_all_vars(Receive)
  /\ \A s \in Reported :
       /\ WF_all_vars(Subscribe(s))
       /\ SF_all_vars(\E m \in net : m.type = s /\ m.snapshot /\ Deliver(m))

TelemetrySpec == TelemetryInit /\ [][TelemetryNext]_all_vars /\ Fairness
-----------------------------------------------------------------------------
\* The key of a stream of the publisher as it stands.
Key(s) == <<TypeCode[s], state[s].meta.source_id, state[s].meta.resource_id>>

\* The cache of the proxy is never ahead of what some run of the source has
\* reached, across loss, reordering and restarts, and where it has the present
\* generation, and no earlier run had it, it has the present value.  After a
\* restart it may be ahead of the present run, and keep a value of the run
\* before, until the source has passed the earlier generations (proxy.cpp:67).
CacheFollowsSource ==
  \A s \in Reported : has[s] /\ Key(s) \in DOMAIN cache =>
    LET m == cache[Key(s)] IN
    /\ m.meta.generation <= (IF generation[s] > peak[s] THEN generation[s] ELSE peak[s])
    /\ m.meta.generation = generation[s] /\ generation[s] > peak[s] =>
         m.body = state[s].body

CaughtUp(s) ==
  Key(s) \in DOMAIN seen[Subscriber] /\ seen[Subscriber][Key(s)] = generation[s]

\* Whatever is lost, overtaken or skipped, the subscriber gets the last value
\* of every stream in the end, if only by a snapshot; after a restart, from
\* the moment on that the source has passed the generations of its earlier runs.
Converges ==
  <>[](\A s \in Reported : has[s] /\ generation[s] > peak[s] => CaughtUp(s))
=============================================================================
