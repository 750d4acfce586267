--------------------------- MODULE RecordSession ---------------------------
(***************************************************************************)
(* Two record sessions facing each other: class Session of                 *)
(* include/new_mavlink/record.hpp and src/record.cpp, with the key         *)
(* derivation, the nonce and the AEAD of src/crypto.cpp, over a datagram   *)
(* network that loses, repeats, reorders and damages records.              *)
(*                                                                         *)
(* An action is a call that succeeds; a call that returns an error leaves  *)
(* the session as it was, and is a step that changes nothing.  The type,   *)
(* flags, qos and length checks of a header are abstracted: the headers    *)
(* enumerated are those that pass them.                                    *)
(***************************************************************************)
EXTENDS ReplayWindow, FiniteSets

CONSTANTS
  First, Second,    \* the ids the keys are derived for, in this order
  Use,              \* bound: what callers seal, triples of an end, an epoch
                    \*   and a sequence
  SessionValue,     \* SessionId::value
  MaxEpoch,         \* bound: the epochs are 1 .. MaxEpoch
  SequenceMax,      \* the largest value of a sequence: UINT64_MAX in the code
  Payloads,         \* what a record carries
  Deadlines,        \* values of deadline_ms, 0 for none
  Times,            \* values of now_ms that callers pass
  Slots,            \* the OpenRecord objects the caller of an end has
  XorOp(_, _),      \* bitwise exclusive or
  NoRecord          \* the content of an empty slot

Ends == {First, Second}
Epochs == 1 .. MaxEpoch
Numbers == 0 .. SequenceMax

ASSUME SessionAssumption ==
  /\ First \in Nat \ {0} /\ Second \in Nat \ {0} /\ First # Second
  /\ Use \subseteq Ends \X Epochs \X Numbers
  /\ SessionValue \in Nat \ {0}
  /\ MaxEpoch \in Nat \ {0}
  /\ SequenceMax \in Nat
  /\ Deadlines \subseteq Nat
  /\ Times \subseteq Nat

\* The only fact about exclusive or that the nonce relies on.
ASSUME XorAssumption ==
  \A e \in Epochs : \A s, t \in Numbers : XorOp(e, s) = XorOp(e, t) => s = t

VARIABLES
  keys,              \* keys_
  send_initialized,  \* send_initialized_
  send_high_water,   \* send_high_water_
  replay,            \* replay_
  wire,              \* every record ever sealed: the network may deliver any
                     \*   of them, at any time, any number of times, or never
  held,              \* held[e][slot]: opened and not yet committed
  committed,         \* history: what commit_replay has accepted at each end
  recommitted,       \* history: what it has accepted more than once
  crossed            \* history: whether an end was rekeyed with records in
                     \*   its caller's hands

vars == <<keys, send_initialized, send_high_water, replay, wire, held,
          committed, recommitted, crossed>>
-----------------------------------------------------------------------------
Peer(e) == IF e = First THEN Second ELSE First

\* prf_block over the label, the session and both ids: an ideal PRF, so the
\* key is what it was derived from.
derive_one(label, epoch) == <<label, SessionValue, epoch, First, Second>>

\* Mutant: both ends send under the key of one label.
derive_directional_keys_one_way(e, epoch) ==
  [session  |-> [value |-> SessionValue, epoch |-> epoch],
   local_id |-> e,
   peer_id  |-> Peer(e),
   tx |-> derive_one("NM-TX", epoch),
   rx |-> derive_one("NM-RX", epoch)]

derive_directional_keys(e, epoch) ==
  [session  |-> [value |-> SessionValue, epoch |-> epoch],
   local_id |-> e,
   peer_id  |-> Peer(e),
   tx |-> derive_one(IF e = First THEN "NM-TX" ELSE "NM-RX", epoch),
   rx |-> derive_one(IF e = First THEN "NM-RX" ELSE "NM-TX", epoch)]

valid_keys(k) ==
  /\ k.session.value # 0 /\ k.session.epoch # 0
  /\ k.local_id # 0 /\ k.peer_id # 0 /\ k.local_id # k.peer_id
  /\ k.tx # k.rx

make_nonce(session, sequence) ==
  <<session.value, XorOp(session.epoch, sequence)>>

\* An ideal AEAD: a ciphertext records what it was sealed under, and opens
\* under exactly that.
aead_seal(key, nonce, aad, plaintext) ==
  [key |-> key, nonce |-> nonce, aad |-> aad, plaintext |-> plaintext,
   intact |-> TRUE]

\* Mutant: the tag is not verified.
aead_opens_unverified(key, nonce, aad, cipher) == TRUE

aead_opens(key, nonce, aad, cipher) ==
  /\ cipher.intact
  /\ cipher.key = key /\ cipher.nonce = nonce /\ cipher.aad = aad
-----------------------------------------------------------------------------
Headers ==
  [source_id : Ends, destination_id : Ends, session_id : {SessionValue},
   epoch : Epochs, sequence : Numbers, deadline_ms : Deadlines]

\* A record as the receiver gets it: the header and the ciphertext.
Record(h, cipher) == [header |-> h, cipher |-> cipher]

\* What may become of a record on the way: other bits in its ciphertext, or
\* in its header, with a CRC that still fits.
DamagedCipher(r, p) ==
  Record(r.header, [key |-> r.cipher.key, nonce |-> r.cipher.nonce,
                    aad |-> r.cipher.aad, plaintext |-> p, intact |-> FALSE])

DamagedHeader(r, h) == Record(h, r.cipher)

Arrivals ==
  wire \cup {DamagedCipher(r, p) : r \in wire, p \in Payloads}
       \cup {DamagedHeader(r, h) : r \in wire, h \in Headers}

\* OpenRecord
Opened(r) == [header |-> r.header, payload |-> r.cipher.plaintext]

Init ==
  /\ keys = [e \in Ends |-> derive_directional_keys(e, 1)]
  /\ send_initialized = [e \in Ends |-> FALSE]
  /\ send_high_water = [e \in Ends |-> 0]
  /\ replay = [e \in Ends |-> EmptyWindow]
  /\ wire = {}
  /\ held = [e \in Ends |-> [slot \in Slots |-> NoRecord]]
  /\ committed = [e \in Ends |-> {}]
  /\ recommitted = [e \in Ends |-> {}]
  /\ crossed = [e \in Ends |-> FALSE]

\* The checks of Session::seal on the caller's header.
seal_accepts(e, h) ==
  LET k == keys[e] IN
  /\ valid_keys(k)
  /\ h.source_id = k.local_id /\ h.destination_id = k.peer_id
  /\ h.session_id = k.session.value /\ h.epoch = k.session.epoch
  /\ h.sequence # SequenceMax
  /\ send_initialized[e] => h.sequence > send_high_water[e]

\* Session::seal, and the send of its output.
Seal(e, h, payload) ==
  /\ seal_accepts(e, h)
  /\ LET nonce == make_nonce(keys[e].session, h.sequence)
     IN  wire' = wire \cup {Record(h, aead_seal(keys[e].tx, nonce, h, payload))}
  /\ send_high_water' = [send_high_water EXCEPT ![e] = h.sequence]
  /\ send_initialized' = [send_initialized EXCEPT ![e] = TRUE]
  /\ UNCHANGED <<keys, replay, held, committed, recommitted, crossed>>

\* The error Session::open_uncommitted returns, in the order of its checks.
open_error(e, r, now) ==
  LET k == keys[e]
      h == r.header
  IN  IF ~valid_keys(k) THEN "InvalidKeys"
      ELSE IF \/ h.source_id # k.peer_id \/ h.destination_id # k.local_id
              \/ h.session_id # k.session.value \/ h.epoch # k.session.epoch
      THEN "InvalidHeader"
      ELSE IF h.deadline_ms # 0 /\ now > h.deadline_ms THEN "Expired"
      ELSE IF ~accepted(replay[e], h.sequence) THEN "Replay"
      ELSE IF ~aead_opens(k.rx, make_nonce(k.session, h.sequence), h, r.cipher)
      THEN "AuthenticationFailed"
      ELSE "None"

\* Session::open_uncommitted into a free OpenRecord of the caller.
OpenUncommitted(e, slot, r, now) ==
  /\ held[e][slot] = NoRecord
  /\ open_error(e, r, now) = "None"
  /\ held' = [held EXCEPT ![e][slot] = Opened(r)]
  /\ UNCHANGED <<keys, send_initialized, send_high_water, replay, wire,
                 committed, recommitted, crossed>>

\* Mutant: commit_replay trusts the check open_uncommitted made.
CommitAccepts_unchecked(e, o) == TRUE

CommitAccepts(e, o) == accepted(replay[e], o.header.sequence)

\* Session::commit_replay, returning true.
CommitReplay(e, slot) ==
  LET o == held[e][slot] IN
  /\ o # NoRecord
  /\ CommitAccepts(e, o)
  /\ replay' = [replay EXCEPT ![e] = commit(@, o.header.sequence)]
  /\ committed' = [committed EXCEPT ![e] = @ \cup {o}]
  /\ recommitted' = [recommitted EXCEPT ![e] = @ \cup ({o} \cap committed[e])]
  /\ held' = [held EXCEPT ![e][slot] = NoRecord]
  /\ UNCHANGED <<keys, send_initialized, send_high_water, wire, crossed>>

\* The caller is done with an OpenRecord without a commit: commit_replay
\* returned Replay, or the payload did not decode.
Discard(e, slot) ==
  /\ held[e][slot] # NoRecord
  /\ held' = [held EXCEPT ![e][slot] = NoRecord]
  /\ UNCHANGED <<keys, send_initialized, send_high_water, replay, wire,
                 committed, recommitted, crossed>>

\* Mutant: a rekey may install the keys in force once more.
rekey_accepts_same(e, next) ==
  /\ valid_keys(next)
  /\ next.local_id = keys[e].local_id /\ next.peer_id = keys[e].peer_id
  /\ next.session.value = keys[e].session.value
  /\ next.session.epoch >= keys[e].session.epoch

rekey_accepts(e, next) ==
  /\ valid_keys(next)
  /\ next.local_id = keys[e].local_id /\ next.peer_id = keys[e].peer_id
  /\ next.session.value = keys[e].session.value
  /\ next.session.epoch > keys[e].session.epoch

\* Session::rekey.  Each end is rekeyed on its own, and nothing keeps its
\* caller from doing so between open and commit.
Rekey(e, next) ==
  /\ rekey_accepts(e, next)
  /\ crossed' = [crossed EXCEPT ![e] = @ \/ \E slot \in Slots : held[e][slot] # NoRecord]
  /\ keys' = [keys EXCEPT ![e] = next]
  /\ replay' = [replay EXCEPT ![e] = EmptyWindow]
  /\ send_high_water' = [send_high_water EXCEPT ![e] = 0]
  /\ send_initialized' = [send_initialized EXCEPT ![e] = FALSE]
  /\ UNCHANGED <<wire, held, committed, recommitted>>

Next ==
  \/ \E e \in Ends, h \in Headers, p \in Payloads :
       <<e, h.epoch, h.sequence>> \in Use /\ Seal(e, h, p)
  \/ \E e \in Ends, slot \in Slots, r \in Arrivals, now \in Times :
       OpenUncommitted(e, slot, r, now)
  \/ \E e \in Ends, slot \in Slots : CommitReplay(e, slot)
  \/ \E e \in Ends, slot \in Slots : Discard(e, slot)
  \/ \E e \in Ends, epoch \in Epochs :
       Rekey(e, derive_directional_keys(e, epoch))

Spec == Init /\ [][Next]_vars
-----------------------------------------------------------------------------
OpenRecords == [header : Headers, payload : Payloads]

Ciphers ==
  [key : {derive_one(l, epoch) : l \in {"NM-TX", "NM-RX"}, epoch \in Epochs},
   nonce : {<<SessionValue, XorOp(epoch, s)>> : epoch \in Epochs, s \in Numbers},
   aad : Headers, plaintext : Payloads, intact : BOOLEAN]

\* Every variable has its type.
TypeOK ==
  /\ \A e \in Ends : \E epoch \in Epochs :
       keys[e] = derive_directional_keys(e, epoch)
  /\ DOMAIN keys = Ends
  /\ send_initialized \in [Ends -> BOOLEAN]
  /\ send_high_water \in [Ends -> Numbers]
  /\ replay \in [Ends -> Windows(Numbers)]
  /\ wire \subseteq [header : Headers, cipher : Ciphers]
  /\ held \in [Ends -> [Slots -> OpenRecords \cup {NoRecord}]]
  /\ committed \in [Ends -> SUBSET OpenRecords]
  /\ recommitted \in [Ends -> SUBSET OpenRecords]
  /\ crossed \in [Ends -> BOOLEAN]

\* No two records are ever sealed under one key with one nonce: seal refuses
\* a sequence that is not above the last one (record.cpp:111), rekey forgets
\* the last one only when the epoch, and so the key, moves on (record.cpp:174),
\* and the two directions have keys of their own.
NonceFresh ==
  \A r1, r2 \in wire :
    /\ r1.cipher.key = r2.cipher.key
    /\ r1.cipher.nonce = r2.cipher.nonce
    => r1 = r2

\* However often the network repeats a record, and however many copies of it
\* have been opened and wait for their commit, commit_replay accepts it once,
\* at an end whose caller has not rekeyed with opened records in its hands.
AtMostOnce == \A e \in Ends : ~crossed[e] => recommitted[e] = {}

\* And at one whose caller has: commit_replay asks for the sequence only, and
\* not for the epoch it was opened in (record.cpp:167), so a record of an epoch
\* gone by may be accepted again.  One of the epoch in force is not, whatever
\* the window holds of the records that have crossed.
OncePerEpoch ==
  \A e \in Ends : \A o \in recommitted[e] : o.header.epoch < keys[e].session.epoch

\* The sequences end e has accepted under the keys it has now.
Seen(e) ==
  {o.header.sequence :
     o \in {c \in committed[e] : c.header.epoch = keys[e].session.epoch}}

\* Everything an end has accepted is a record its peer sealed for it, bit for
\* bit: not a damaged one, not one of its own, not one of another epoch's keys.
Authentic ==
  \A e \in Ends : \A o \in committed[e] :
    \E r \in wire :
      /\ o = Opened(r)
      /\ r.header.source_id = Peer(e)
      /\ r.cipher.key =
           derive_directional_keys(e, r.header.epoch).rx

\* An undamaged record sealed for this end under its present epoch is refused
\* only for being late: past its deadline, accepted before, or Window or more
\* behind a sequence accepted already.  A rekey makes no fresh record stale,
\* unless it is made with opened records in the caller's hands.
OnlyLateRefused ==
  \A e \in Ends : \A r \in wire : \A now \in Times :
    /\ ~crossed[e]
    /\ r.header.destination_id = e
    /\ r.header.epoch = keys[e].session.epoch
    /\ open_error(e, r, now) # "None"
    => \/ r.header.deadline_ms # 0 /\ now > r.header.deadline_ms
       \/ r.header.sequence \in Seen(e)
       \/ \E s \in Seen(e) : s - r.header.sequence >= Window

\* The bitmap implements the memory of every accepted sequence.  An end whose
\* caller has rekeyed with opened records in its hands counts as one that has
\* forgotten everything.
Filter ==
  INSTANCE ReplayFilter WITH
    seen <- [e \in Ends |-> IF crossed[e] THEN {} ELSE Seen(e)],
    repeated <- [e \in Ends |-> IF crossed[e] THEN {} ELSE recommitted[e]]

\* Sessions with their 64-bit windows behave as ends that remember every
\* sequence accepted under the present keys: commit_replay accepts exactly
\* once, and a new epoch starts from nothing, at every end whose caller has not
\* rekeyed with opened records in its hands (record.cpp:167).
ImplementsFilter == Filter!Spec
=============================================================================
