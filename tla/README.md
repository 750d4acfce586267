# A TLA+ model of new_mavlink

`new_mavlink` is a telemetry protocol for a vehicle, a proxy and a ground station
(GCS): records sealed with Ascon-AEAD over UDP, typed state messages, queues by
class of service, a caching proxy, and a publisher that sends changes at once and
everything once per period. This directory holds TLA+ modules of the library's
logic, TLC configurations that check them on small instances, and TLAPS proofs
for all instances of the record layer, the handshake, the queue, the publisher, the
proxy, the publisher and the proxy together, the chain of applications, the codecs with
their CRC, and the PX4 probe. `PROJECT.json` relates every definition to
the lines it models. Line numbers below are of `src/src/*.cpp` unless a path says
otherwise.

## 1. Inventory

| component (code) | state | operations | what is hard about it | what makes it correct |
|---|---|---|---|---|
| record layer: `Session`, `ReplayWindow` (`record.cpp`) | keys in force, last sequence sent, 64-bit replay window with its high-water mark | `seal`, `open_uncommitted`, `commit_replay`, `rekey` | datagrams lost, repeated, late, damaged; open and commit are two calls; each end rekeys at its own time; the edges of the window | no nonce twice under a key; nothing accepted twice; nothing accepted that was not sealed; nothing refused without reason |
| key derivation, nonce, AEAD (`crypto.cpp`) | none | `derive_directional_keys`, `make_nonce`, `aead_seal`, `aead_open` | two directions count their sequences from 0 in one session | the directions, and the epochs, have keys of their own |
| session establishment (`session.cpp`) | `InitiatorSession`: started, hello, keys, established. `ResponderSession`: accepted, hello, accept, keys, established | `start`, `accept`, `receive_hello`, `finish`, three codecs | stale and altered messages of earlier attempts; restarts; no retry | an end that is established agrees with its peer; every session has new keys |
| wire types (`wire.cpp`), typed messages (`messages.cpp`) | none | predicates on types; encoders and decoders | ranges, reserved bytes, lengths | what one accepts the other wrote |
| QoS queue (`qos.cpp`) | two deques, a map by stream, five counters | `push`, `pop`, `clear` | full queues; three classes that make room differently; expiry in the queue; times that jump | the capacity; no reliable message displaced; latest value per stream; nothing uncounted |
| native proxy (`proxy.cpp`) | links with queue and subscriptions, cache by stream, resync requests | `add_link`, `remove_link`, `subscribe`, `unsubscribe`, `ingest`, `next`, `next_resync` | subscriptions and messages in any order; deltas that do not fit; failures half way | the cache only advances; subscribers are up to date; limits |
| state publisher (`publisher.cpp`) | last value, generation and dirty flag of three streams, time of the next snapshot | `update_*`, `poll` | several updates between polls; counters at their end; values that do not encode | no change lost; snapshots complete and in time |
| UDP transport, `NativeEndpoint` (`transport.cpp`) | socket, session, buffer | `send`, `receive_uncommitted`, `commit`, `receive` | a send that fails after the seal; a timeout that hides other failures | a sequence is used up by every seal; an error is told |
| CRC-16 (`crc16.cpp`) | none | `crc16_ccitt` | | no change of one header byte goes unnoticed |
| MAVLink 2 adapter and PX4 probe (`mavlink2_adapter.cpp`, `apps/px4_adapter_probe.cpp`) | the parser of `MAVLINK_COMM_0`; the probe's deadline | conversions; send a command, wait for its ACK | the ACKs of others; frames cut off; endless telemetry | no false success; only allowed commands; the probe ends; what is converted has an encoding |
| applications (`apps/`) | vehicle, proxy and GCS processes with fixed keys of session 1, epoch 1; counters and clocks | one loop each | three clocks; datagrams lost, repeated, overtaken; a failure ends a process | nothing shown twice; nothing swallowed; exit codes agree; every process ends |

How they interact: a publisher (or the vehicle) builds a message; `Session::seal`
turns it into a record; the network carries it; `NativeEndpoint` opens and commits
it; `NativeProxy::ingest` looks into `StateMeta`, updates the cache and pushes to the
queue of each subscriber's link; `next` pops it for a second session to seal. The
applications use part of this: `proxy_service` opens a record, decodes its payload,
commits it and seals it again for the GCS, without a `NativeProxy`; `NativeProxy`,
the queue and the handshake are library code that the tests call. Everything is
called from one thread of its process; what is concurrent are the processes, the
network, and the order in which a process's callers make their calls.

## 2. Modules

| module | models | state ↔ code |
|---|---|---|
| `ReplayWindow` | class `ReplayWindow` as operators on a value | `bitmap` is the set of the positions of the 1 bits of `bitmap_`; `Window` is its width |
| `RecordSession` | two `Session`s, their callers, and the network | `keys`, `send_initialized`, `send_high_water`, `replay` are the members; `wire` is every record sealed; `held` the `OpenRecord`s a caller has not committed yet; `committed`, `recommitted`, `crossed` are history, the last whether an end was rekeyed with records open |
| `ReplayFilter` | abstract: an end that remembers every sequence accepted under its present keys | — |
| `RecordSessionProofs` | theorems about `RecordSession` | — |
| `Handshake` | `InitiatorSession`, `ResponderSession`, restarts, the network | `initiator`, `responder` are the members; `answered`, `completed` history |
| `Wire`, `Messages` | types, classes, `StateMeta`, the conditions of the decoders | constant operators |
| `QosQueue` | `push` and `pop` as operators on the contents of a queue | `critical`, `events`, `state` |
| `BoundedQosQueue` | one queue under any sequence of calls | `queue`, `metrics`; `offered`, `last` are history |
| `QosQueueProofs` | lemmas about `push` and `pop` as operators, for the next and for `NativeProxyProofs` | — |
| `BoundedQosQueueProofs`, `HandshakeProofs`, `NativeProxyProofs`, `PipelineProofs` | theorems about the modules they are named for | — |
| `PublisherProofs`, `CodecProofs` | theorems about `Publisher` and `Telemetry`, and about `Codec` and `Px4Probe` | — |
| `NativeProxy` | class `NativeProxy`, on the queues of `QosQueue` | `links`, `cache`, `resync`; `seen`, `refused` are history |
| `Publisher` | class `StatePublisher` | the members by name, the three streams as an index; `now` is the caller's clock; `sent` what `poll` wrote; `reported` and `since`, when the wait for the next snapshot began, are history |
| `Telemetry` | composition: a publisher, a link that loses and reorders, a proxy and one subscriber; restarts of the publisher | the variables of `Publisher`, which it extends, and of `NativeProxy`, which it instantiates; `net` the messages under way; `peak` history |
| `Pipeline` | composition: the three applications, over `UdpEndpoint` and `NativeEndpoint` | the vehicle's `Publisher`; `status` why a process ended; `duration`, `age`, `elapsed`, `waited` its clock; `high`, `replay` its sessions; `vehicle`, `proxy`, `shown` the locals of the three `main`s; `wire` the datagrams under way |
| `Codec` | the bytes of every payload and of the record header, CRC-16, and the values the adapter lets through | one struct on its way: `value`, `bytes`, `result` |
| `Px4Probe` | the PX4 probe and the command path of the adapter | `pc`, `code`, `elapsed` are where `main` is; `parser` the state of the MAVLink library; `executed` what PX4 has got |
| `MC…` | the values of constants that a cfg cannot write | — |

Abstractions, in all modules: an action is a call that succeeds, whole; a call that
fails changes nothing and is no step, except where the code changes something
before it fails (`Session0`, `Subscribe`, a `pop` that finds nothing, a `push` that
only counts). Cryptography is ideal: a key is what it was derived from, a
ciphertext opens under exactly what it was sealed under, an authenticator is what
it covers. The network keeps every datagram for ever and may deliver any of them,
at any time, any number of times or never. A damaged record is any other
ciphertext or any other header with a CRC that fits. Bodies of messages are values.
`Pipeline` and `Telemetry` keep the datagrams of each link in a set: one that is lost
stays there for good, and one that is late is overtaken by others. In `Codec` a field
of 32 bits is the int32 of these bits, one of 64 bits the pair of its halves, and a
float the int32 that `memcpy` makes of it; the CRC is the set of the places of its 1
bits, on which a shift and an exclusive or are set operations.
`XorOp` is exclusive or; the proofs need only that it is injective in its second
argument. Definitions with `Mutant` in their comment are not part of a
specification: each is a plausible mistake in the definition below it, and the
property named for it in `PROJECT.json` fails when it is put in place.

Bounds: `Use` (which sequences are sealed, by which end and in which epoch), `MaxEpoch`,
`SequenceMax`, `Window` (64 in the code), `GenerationMax`,
`TimeMax`, `Capacity`, `CounterSpan`, `MaxLinks`, `MaxSubscriptions`,
`MaxRestarts`, `MaxOvertake`, `MaxFaults`, `MaxChanges`, `MaxInbox`; all are constants, and where the code has a largest value (`UINT64_MAX` for a sequence,
`UINT32_MAX` for a generation, `UINT64_MAX` for a time) the model reaches it and does
what the code does there: `seal` refuses, the generation stays, the first snapshot
wraps, the later ones saturate, the counters wrap.

## 3. Runs

**record_session** — one end seals three sequences, 0 to 2, and after a rekey both ends
seal sequence 0; two payloads for each, so that a sequence used again would show. The
window is of two: 0 is at its edge, and past it, when 2 has come. Each end has two
`OpenRecord`s, so that two copies of a record can be open before the first commit, and is
rekeyed at its own time, with records open or not; damaged records included. `NonceFresh`
(no key and nonce for two records), `Authentic` (what is accepted was sealed by the peer
for this end, header and payload), `AtMostOnce`, `OnlyLateRefused` (an intact record is
refused only if expired, accepted before, or a window or more behind), and
`ImplementsFilter`: the specification implements `ReplayFilter`, with `seen` the sequences
accepted in the epoch in force and `repeated` what was accepted twice. The last three are
about ends that were not rekeyed with records open, since `commit_replay` does not look at
the epoch of its record (record.cpp:167). `OncePerEpoch` is about all of them: what is
accepted twice is of an epoch gone by, so that a record which crossed the rekey does not
make the window forget one of the epoch in force. Payloads and slots are symmetric.

**handshake** — one initiator and one responder, two client nonces and three server
nonces, one of which makes the session id 0; both may restart as often as nonces
last; every message may come again, late, or with any one of its fields altered: to 0, to
another of its values, an authenticator to noise or to that of another message.
`InitiatorAgrees`, `ResponderAgrees` (agreement on hello, terms and keys),
`KeysFresh` (no two answers have the same keys). `NonceAssumption`, that the
exclusive or of two pairs of nonces differs, is what 64 bits give with all but
negligible probability.

**handshake_codec** (violated: `HelloDecodes`) — the same with messages that go
through the codecs: `encode_hello` (session.cpp:45) computes its CRC and does not
write it, and `decode_hello` requires it.

**qos_queue** — eight messages of every class, dated and not, one of a state type in
a reliable class, one state without a `StateMeta`, one too long; a capacity of
three, so that each class meets a queue full of the others; times 0 and 2 in any
order. `Bounded`, `Accounted` (offered = delivered + dropped + rejected + expired +
waiting), `ReliableKept`, `StreamsApart`, `CriticalFirst`, and the liveness property
`CriticalServed`. Counters are modulo `CounterSpan`, as the code's are modulo 2^64,
which keeps the state space finite without a bound on the calls.

**publisher** — a position that changes, goes out of range, and is reported with its
source or with 0 for the publisher to complete; an attitude whose resource changes, a
battery; generations to 3 and times to 5, so that both come to their end; a period of 2.
`NoLostChange`, `GenerationsAscend`, `SnapshotComplete`. `SnapshotInSight`: the wait for a
snapshot is one period at most, counted from the first update or the last snapshot and
not from later updates; it covers the wrap of publisher.cpp:59, by which a snapshot comes
early, or, at the one millisecond where the sum is 0, is not scheduled by that update.
`RepeatsCompleted`: the one repeat that starts a new generation is of a value reported with
source_id 0. The array given to `poll` has room for three messages, as all callers in the
repository give it; with less, a poll that is due drops what does not fit
(publisher.cpp:116), and `NoLostChange` and `SnapshotComplete` say nothing of that.

**publisher_repeat** (violated: `UnchangedIgnored`) — the same instance: a value that is
reported again with source_id 0 is taken for a change (publisher.cpp:33, 57).

**proxy** — the vehicle's link, two links that subscribe, and link id 0, which is
refused; room for two links, one subscription and two messages per queue; snapshots
and deltas of one resource up to generation 3, a second resource, and an event.
`LimitsHeld`, `SubscriberUpToDate` (each cached generation a link subscribes to was
the last it got, waits for it, or had no room), `CacheAdvances`, `LinkNotTakenBack`.
`cache_` is an `unordered_map`: `Subscribe` takes its entries in every order.

**telemetry** — one stream with two generations, a snapshot every unit of time, a queue
of one message, room for one resync request, one restart of the publisher. Every
delta can be lost, overtaken, skipped by two updates in a row, or come from the run
before the restart. Each generation of each run has a value of its own, which keeps the
instance small and tells every message from every other. `CacheFollowsSource`: the cache
is never ahead of what some run of the source has reached, and with the present
generation, if no earlier run had it, it has the present value. After a restart the
cache can be ahead of the present run, and has then a value of the run before.
`Converges`: in the end the
subscriber has the last value, although nothing answers a `ResyncRequest`; after a
restart, from the generation on that passes those of the earlier run, which is how
far the code goes (proxy.cpp:67). Updates stop one period before `TimeMax`, where the
first of them would compute a next snapshot of 0.

**pipeline** — the three processes with durations (0, 0, 0), (1, 1, 1) and (1, 0, 1) for
vehicle, proxy and GCS, a unit being the second that a receive waits: all that differs
between durations is whether one is 0, and whether a loop goes on at a timeout and
after a message. The position changes after one unit, and the period is two: what is sent are
deltas, one after another. Snapshots, which no process lives to send here, are sent in
`publisher` and `telemetry`, and the theorems about the pipeline are for any period.
Datagrams fall behind by one, in a window of three; one
fault in all: a repeated or damaged datagram, a send or a receive that fails. `ShownOnce`,
`ReorderHarmless` (datagrams late within the window end no process), `NothingSwallowed`,
`CodesAgree`, and `AllEnd`. That `MaxOvertake` is below `Window` is assumed: 64 records
behind, a late datagram is a replay to the code and ends the process.

**pipeline_restart** (violated: `NonceFresh`) — the same with a proxy that is started
again after it has ended.

**codec** — ten layouts. A caller sets fields to values at the edges of their ranges
and widths, one byte changes on the way by 1, 128 or 255 or the last byte is lost;
two changes in all, so that a byte changes in a struct with an edge value.
`RoundTrip`, `Canonical` (what a decoder accepts is the one encoding of its value),
`HeaderDamageNoticed`, `AdaptedEncodes`. Two encoders write what their decoders refuse, a
subscription of a qos above 5 and a lone `StateMeta` with other flags (`OneSided`):
`RoundTrip` says that these are refused and that nothing else is. `AdaptedEncodes` excepts
a position out of range, which has no encoding.

**px4_probe** — an allowed command and one that is not; PX4 may have got it before,
or another; datagrams of up to two frames, whole or cut off, three of them waiting;
a deadline of three. `NoFalsePass`, `ProbeEnds`.

Fairness. `qos_queue` assumes weak fairness of `PopSome`, an assumption
on the owner of the queue, who takes messages out of it again and again: `pop` never
blocks and is never refused, so that only an owner who stops calling it violates the
assumption. Nothing is assumed of the times it passes, nor of the pushes.
`CriticalServed` is what the queue promises such an owner. `telemetry` assumes that
time passes and that the loops around `poll` and `next` go on (weak fairness), and of
the link that it does not lose every snapshot of a stream that is sent again and again
(strong fairness), which is the least under which anything can arrive. `pipeline`
assumes that time passes, that the vehicle is given the processor, and that `select`
returns when its time is over; nothing of the links. `px4_probe` assumes the same of
the probe, and nothing of PX4.

Deadlock is checked for the queue, the proxy and `telemetry`, which can always
be called; a session whose sequences and epochs are used up, a handshake without
nonces, a publisher at its last millisecond, processes that have ended and a struct
that is decoded may stop.

## 4. What is proved

`RecordSessionProofs`, for all ids, epochs, sequences, payloads, window widths and
numbers of open records, from `SessionAssumption`, `WindowAssumption` and
`XorAssumption`:

| theorem | says | inductive invariant |
|---|---|---|
| `TypeCorrect` | `TypeOK` | itself |
| `NoNonceReuse` | `NonceFresh` | `NonceInv`: every record on the wire was sealed under the key of its direction and epoch, an epoch not after its sender's, and, if of the present epoch, at or below its high-water mark |
| `AcceptedAuthentic` | `Authentic` | `AuthInv`: what a sealed ciphertext authenticates is its own header; what is held was sealed by the peer |
| `ReplaySafe` | `AtMostOnce` | `ReplayInv`, below |
| `OncePerEpochAlways` | `OncePerEpoch` | `ReplayInv` |
| `OnlyLateRefusedAlways` | `OnlyLateRefused` | `ReplayInv` and `NonceInv` |
| `WindowImplementsFilter` | `ImplementsFilter` | `ReplayInv` |

`AtMostOnce` says nothing of the bitmap, and so cannot carry itself over a step.
`ReplayInv` adds `WindowsRight`: the window of an end that was not rekeyed with records
open *represents* the set of the sequences accepted in the epoch in force (its high-water
mark is the largest, bit d is set exactly if high_water - d was accepted), and that of any
other end a set that has these among its members. With it come that such an
end holds records of the epoch in force only, and any other none of an epoch to come
(`HeldPast`), and that nothing accepted is of an epoch to come (`CommittedPast`). The two
lemmas that carry the proof are about the algorithm alone: `AcceptedMeaning` (`accepted`
refuses exactly what is in the set or a window behind) and `CommitRepresents` (`commit`
adds one sequence to the set). A record that has crossed a rekey adds its sequence to a
window it does not belong to: the window then refuses more than it should, which is why
`OnlyLateRefused` excepts such ends, but never less, which is `OncePerEpoch`.

`BoundedQosQueueProofs`, for every capacity, every set of messages and all times, from
`CapacityAssumption` and `QueueAssumption`: `QueueTypeCorrect` (`TypeOK`), `QueueBounded`
(`Bounded`), `QueueAccounted` (`Accounted`), `QueueReliableKept` (`ReliableKept`),
`QueueStreamsApart` (`StreamsApart`) and `QueueCriticalFirst` (`CriticalFirst`). The
inductive invariant `QueueInv` is `TypeOK` and `Bounded` with the shape of the contents:
two sequences, and a function on a finite set of streams. `Bounded` needs it because the
size is a sum that has a cardinality in it, and because a replaced message must be found
under its own key to add nothing. The argument goes by what the parts of `push` and
`pop` do to a queue as a value, in `QosQueueProofs`: `EvictGood` takes one away,
`StoreGood` adds one or replaces one, `PopGood` leaves ends of what there was.
`FirstLiveMeaning` and `FirstKeyExists` show that the choices in `pop` exist: a first live
message, and a smallest key of a set of streams. `Accounted` is an equation of counters
that wrap: each call adds as much to one side as to the other, and lemmas about sums
modulo the span carry that through the wrap, for any span.

`HandshakeProofs`, for any sets of nonces and capabilities, with messages handed over as
structures or through the codecs, from the module's assumptions (`NonceAssumption` among
them):

| theorem | says | needs of `HandshakeInv` |
|---|---|---|
| `InitiatorAlwaysAgrees` | `InitiatorAgrees` | `AuthenticatorsOwned`: an authenticator under way was made by its owner, whatever was altered around it or put in its place (`AcceptOwned`); `CompletedAnswered` |
| `ResponderAlwaysAgrees` | `ResponderAgrees` | the same for FINISH (`FinishOwned`), and `NoncesUsedOnce`: the session that the FINISH names is that of one answer only |
| `KeysAlwaysFresh` | `KeysFresh` | `NoncesUsedOnce` and `NonceAssumption` |

The properties relate the two objects to the history; `EndsRecorded` is where they
stand in it, and restarts keep it because they leave the history.

`PublisherProofs`, for all values, periods, generations and times, from
`PublisherAssumption`: `SnapshotAlwaysInSight` (`SnapshotInSight`), `GenerationsAlwaysAscend`
(`GenerationsAscend`), `NothingLost` (`NoLostChange`), `SnapshotsComplete`
(`SnapshotComplete`) and `RepeatsOnlyCompleted` (`RepeatsCompleted`). The invariant
`PublisherInv`: the types; `SentBehind`, by which the last message of a stream is not
ahead of the stream and, with the stream's generation, has its value; and
`SnapshotScheduled`, by which the next snapshot is at most a period after the beginning
of the wait, and 0 only before the first update or where that period ends just past the
largest time. Two theorems have a hypothesis, an array of three or more (`NothingLost`,
`SnapshotsComplete`); section 5 has what the code does otherwise.

The same module proves `CacheAlwaysFollows` (`CacheFollowsSource` of `Telemetry`), for any
values, generations, capacity and number of restarts, from `TelemetryAssumption` too. The
property is about the cache alone, and a delivery could put anything into it: `FollowInv`
says the same of each message under way (`NetFollows`), with `PublisherInv`, and of each
cached one that it is filed under the number of its type (`CacheFollows`). A message
*follows* if its generation is not above the source's, nor above the last of the earlier
runs, and, once the source has passed these, has the source's value under the source's
generation. A report keeps this because the generation ascends (`FollowsReport`), a
restart because all generations become past ones (`FollowsRestart`), a poll because it
writes what the stream has (`FollowsPublished`), and a delivery because `ingest` caches
the message it is given or nothing (`DeliverCaches`).

`NativeProxyProofs`, for any links, records, requests, capacities and limits, from
`ProxyAssumption`:

| theorem | says | inductive invariant |
|---|---|---|
| `LimitsAlwaysHold` | `LimitsHeld` | `ProxyInv`: every link has a queue of known messages within its capacity and subscriptions under their types; the cache has every message under its key |
| `CacheAlwaysAdvances` | `CacheAdvances` | `ProxyInv` |
| `SubscribersUpToDate` | `SubscriberUpToDate`, if `StateRecordsLatest` | `UpToDateInv`: with `ProxyInv`, `SeenBehind` (no link got more than is cached) and `QueuesBehind` (what waits is between what the link got and what is cached) |
| `LinksNotTakenBack` | `LinkNotTakenBack`, if `StateRecordsLatest` | the same |

`StateRecordsLatest` says that a record of a state type has the class `StateLatest`, as
every sender in the repository writes it (publisher.cpp:17). It is needed: a state message in another class
waits in one of the deques, under no key, and one of the same stream that waits in
`state_` may come out before or after it. `push_cached` is a recursive function over the order
in which the map is walked; instead of an induction, `CachedPushes` takes the least
place at which the claim would fail. It gives what `Subscribe` does for every order:
each cached message that matches is in the queue, or was refused.

`PipelineProofs`, for every window, all durations, any number of faults and any
overtaking below the window, over `Spec`, that is without the restart of section 5:

| theorem | says |
|---|---|
| `NothingShownTwice` | `ShownOnce` |
| `ReorderingHarmless` | `ReorderHarmless` |
| `NothingIsSwallowed` | `NothingSwallowed` |
| `CodesAlwaysAgree` | `CodesAgree` |

None of these is inductive: what the ground station has shown says nothing of what is
still under way for it. `PipeInv` adds how the counters of the senders, the windows of
the receivers and the datagrams under way relate. `Counted`: the next sequence is above
all that were used, and a sequence under way belongs to one datagram. `OnceEach`: what
has been passed on is no longer acceptable to the proxy, and what has been shown is not
acceptable to the ground station. `FreshUnderWay`: without faults a datagram under way is
acceptable or a window behind. `Endings`: how processes end and what the proxy
remembers. The lemma under all of them, `CommitThen`, is about `ReplayWindow` alone: a
commit makes its own sequence unacceptable, and those a window below it, and no other.

`CodecProofs`, for all values of all fields, and any change of any byte, from
`CodecAssumption` (a field is given a value of its width):

| theorem | says | rests on |
|---|---|---|
| `RoundTripAlways` | `RoundTrip`, the structs of `OneSided` included, which are refused | `DecodeEncode` |
| `CanonicalAlways` | `Canonical` | `EncodeDecode` |
| `HeaderDamageAlwaysNoticed` | `HeaderDamageNoticed` | `HeaderChange`, `HeaderEncoded` |
| `AdaptedAlwaysEncodes` | `AdaptedEncodes` | `AdaptedInv` |

The state is one struct on its way, and `CodecInv` says what it is at each phase: a value
that fits its layout (`StructInv`), what the adapter leaves of a plain one (`AdaptedInv`),
and bytes that are the encoding, shorter, or different in one place (`SentInv`). The
substance is in the lemmas about the operators:

- each of the ten layouts has its fields within the struct and apart (`LayoutApart`), so
  that a byte is one field's or none's (`FieldUnique`);
- `get` gets what `put` has put, and the other way round, for 8, 16, 32 and 64 bits with
  their sign (`GetPut`, `PutGet`, down to `Digits32` and `Bytes32`);
- together: `read` and `written` are inverse (`ReadWritten`, `WrittenRead`), the bytes
  between the fields being 0;
- one bit's turn of the CRC is injective on sets of 16 places, for it brings place 0 in
  exactly if it took place 15 out (`ShiftInjective`), hence so is a byte's turn, both in
  the CRC and in the byte (`ByteInjective`, `ByteTells`). Two inputs that differ in one
  byte have CRCs that differ from there on (`CrcTells`). The recursive function in
  `crc16_ccitt` is taken for what satisfies its equations, of which `CrcExists` and
  `CrcSteps` show that there is one; as for `push_cached`, the least place at which a
  claim fails stands in for an induction.

That `HeaderDamageNoticed` speaks of one byte is a limit of the claim and not of the proof:
a CRC of 16 bits cannot tell every change of three bytes.

In the same module, `NeverFalsePass` (`NoFalsePass` of `Px4Probe`), for any datagrams,
deadline and commands, from `ProbeInv`: the ACKs that wait at the socket are of commands
that PX4 has got, and a parser that takes up anywhere gets frames of the datagram and no
others.

Every inductive invariant was checked by TLC on the run of its module before it was
proved.

Every invariant and every action property of the runs is a theorem. Only model-checked:
`CriticalServed`, `Converges`, `AllEnd` and `ProbeEnds`, which are liveness under fairness
and beyond the proof system. The three runs that find a violation are counterexamples, and
there is nothing to prove. What an induction would give (the value of a recursive function
for every argument) is proved only as far as the least counterexample to a claim about
consecutive values goes; the CRC of a given sequence of bytes is for TLC to compute.

## 5. Findings

1. **session.cpp:45** — no HELLO that `encode_hello` writes is one that
   `decode_hello` takes (`handshake_codec`).
2. **apps/proxy_service.cpp:23** — a proxy that is started again counts its sequences
   from 0 under the keys of its earlier run, and uses its nonces for other messages
   (`pipeline_restart`). The vehicle does the same (apps/vehicle_endpoint.cpp:24). The
   handshake, which gives every session new keys (`KeysFresh`), is not called by them.
3. **publisher.cpp:33** — a value that is reported with source_id 0, which the publisher
   completes (line 57), counts as a change each time it is reported, and is sent again
   (`publisher_repeat`); docs/FINAL_ACCEPTANCE_SPEC.md:21 has it that messages that do not
   change are not repeated.

Known limits, which the modules have as the code does, and which the properties are
worded around:

- a record opened before a rekey and committed after it counts for the window of the
  next epoch: it may be accepted a second time, and fresh records are refused
  (record.cpp:167; `AtMostOnce` and `OnlyLateRefused` except an end that has `crossed`,
  `OncePerEpoch` does not). `NativeEndpoint::receive` opens and commits in a row and does
  not meet it;
- the time of the first snapshot wraps (publisher.cpp:59), and if it wraps to 0 there is
  none until another update comes;
- a poll that is due, with an array for fewer than three messages, drops the changes that
  do not fit (publisher.cpp:116);
- `encode_subscription` takes a qos and `encode_state_meta` flags that their decoders
  refuse (messages.cpp:54 and 59, 82 and 88);
- the first message of a stream is a delta, where docs/FINAL_ACCEPTANCE_SPEC.md:19 has
  a snapshot (publisher.cpp:118);
- after two updates between polls a delta has a base that was never sent
  (publisher.cpp:55), and nothing in the code answers the `ResyncRequest` that the
  proxy then makes: the next snapshot repairs it (`Converges`);
- a deadline of 16 bits is compared with a clock of 32 bits that starts with the
  receiver's process: after 65 seconds every record with a deadline has expired
  (record.cpp:151);
- a source that restarts is taken for old until its generation passes the cached one
  (proxy.cpp:67);
- a `subscribe` that returns false has subscribed (proxy.cpp:41), and what waits in a
  queue outlives the subscription (proxy.cpp:49); a message
  from the cache keeps the destination_id it came with, where one that is forwarded gets
  that of the link (proxy.cpp:41, 76);
- `cache_` has no limit (proxy.cpp:69), where docs/FINAL_ACCEPTANCE_SPEC.md:19 has fixed
  limits of memory and of the number of sources; `LimitsHeld` is about links,
  subscriptions, queues and resync requests only;
- a message that the full queue of a subscriber refuses is not asked for again
  (proxy.cpp:77), and `SubscriberUpToDate` excepts it;
- a send that fails loses a record that is committed already (apps/proxy_service.cpp:38),
  and the ground station is not told;
- a state message in a class other than `StateLatest` waits in a deque (qos.cpp:12), and
  comes to a subscriber before or after one of its stream in `state_`, whichever is newer;
- a queue full of events rejects a critical message, though it would give up an event
  for a state (qos.cpp:43); state waits behind all else, and has no share of the pops
  of its own (qos.cpp:54);
- one repeated or damaged datagram ends the proxy or the ground station, the latter
  with exit code 0 if it has shown anything (apps/proxy_service.cpp:29,
  apps/gcs_endpoint.cpp:28), where docs/ACCEPTANCE.md:5 requires resilience to
  loss, repetition and reordering; a failed `select` and an empty datagram count as a
  timeout (transport.cpp:53, 55);
- the adapter lets positions out of range through, which have no encoding
  (mavlink2_adapter.cpp:76); the probe takes any ACK of its command id for the answer,
  an earlier one or a refusal too, looks at the first ACK of a datagram only, and ends
  at an empty datagram (mavlink2_adapter.cpp:46, 51, px4_adapter_probe.cpp:39, 40).

## 6. Not modelled

Ascon itself, which is vendored, and the MAVLink library, which is generated: both are
taken for what the code makes of them. Sockets and addresses, and what the programs do
before their loops (arguments, bind, key derivation). `publisher_demo`, which prints.
`ProxyMetrics`, which nothing reads; `critical_type` and `default_qos`, which nothing
modelled calls. The floating-point product in the adapter's `decode_attitude`: an angle
is any int32. Null pointers and short buffers given to the codecs.

## 7. Order of work

The record layer came first, since everything else is carried by it; handshake, queue,
publisher, proxy; then the compositions `Telemetry` and `Pipeline`, `Codec` and `Px4Probe`;
then the proofs, in the same order, until no safety property was left. What would be
worth adding: the socket layer below `UdpEndpoint`, `default_qos` when something calls it,
and a handshake that retries, once the code has one.
