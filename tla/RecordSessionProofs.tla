------------------------ MODULE RecordSessionProofs ------------------------
(***************************************************************************)
(* Proofs about RecordSession, for windows, epochs and sequences of any    *)
(* size.                                                                   *)
(***************************************************************************)
EXTENDS RecordSession, TLAPS

\* A window represents a set of accepted sequences: its high-water mark is the
\* largest of them, and its bits are those of them that are near enough.
Represents(w, S) ==
  /\ ~w.initialized => S = {}
  /\ w.initialized =>
       /\ w.high_water \in S
       /\ \A s \in S : s <= w.high_water
       /\ \A d \in Bits : d \in w.bitmap <=> w.high_water - d \in S

\* ReplayWindow::accepted says what it should of the set it stands for.
LEMMA AcceptedMeaning ==
  ASSUME NEW w \in Windows(Numbers), NEW S \in SUBSET Numbers,
         NEW s \in Numbers, Represents(w, S)
  PROVE  accepted(w, s) <=> (s \notin S /\ \A t \in S : t - s < Window)
<1>1. Numbers \subseteq Nat /\ w.high_water \in Nat
  <2>1. Numbers \subseteq Nat
    BY SessionAssumption DEF Numbers
  <2>2. w.high_water \in Numbers
    BY DEF Windows
  <2> QED
    BY <2>1, <2>2
<1>2. CASE ~w.initialized
  BY <1>2 DEF Represents, accepted
<1>3. CASE w.initialized /\ s > w.high_water
  BY <1>1, <1>3, WindowAssumption DEF Represents, accepted
<1>4. CASE w.initialized /\ ~(s > w.high_water)
  <2> DEFINE d == w.high_water - s
  <2>1. w.high_water \in Nat /\ s \in Nat /\ d \in Nat /\ w.high_water - d = s
    BY <1>1, <1>4
  <2>2. accepted(w, s) <=> (d < Window /\ d \notin w.bitmap)
    BY <1>4, <2>1 DEF accepted
  <2>3. d < Window => d \in Bits
    BY <2>1, WindowAssumption DEF Bits
  <2>4. d < Window => (d \notin w.bitmap <=> s \notin S)
    BY <1>4, <2>1, <2>3 DEF Represents
  <2>5. ASSUME d < Window, NEW t \in S
        PROVE  t - s < Window
    <3>1. t \in Nat /\ t <= w.high_water
      BY <1>1, <1>4 DEF Represents
    <3> QED
      BY <2>1, <2>5, <3>1, WindowAssumption
  <2>6. (\A t \in S : t - s < Window) => d < Window
    BY <1>4 DEF Represents
  <2> QED
    BY <2>2, <2>4, <2>5, <2>6
<1> QED
  BY <1>2, <1>3, <1>4

\* ReplayWindow::commit adds the sequence to the set, and nothing else.
LEMMA CommitRepresents ==
  ASSUME NEW w \in Windows(Numbers), NEW S \in SUBSET Numbers,
         NEW s \in Numbers, Represents(w, S), accepted(w, s)
  PROVE  /\ commit(w, s) \in Windows(Numbers)
         /\ Represents(commit(w, s), S \cup {s})
<1>1. /\ Numbers \subseteq Nat /\ Window \in Nat /\ Window > 0
      /\ w.high_water \in Nat /\ w.bitmap \subseteq Bits
  <2>1. Numbers \subseteq Nat /\ Window \in Nat /\ Window > 0
    BY SessionAssumption, WindowAssumption DEF Numbers
  <2>2. w.high_water \in Numbers /\ w.bitmap \subseteq Bits
    BY DEF Windows
  <2> QED
    BY <2>1, <2>2
<1>2. 0 \in Bits
  BY <1>1 DEF Bits
<1>3. CASE ~w.initialized
  <2> DEFINE v == [initialized |-> TRUE, high_water |-> s, bitmap |-> {0}]
  <2>1. commit(w, s) = v /\ S = {}
    BY <1>3 DEF commit, Represents
  <2>2. v \in Windows(Numbers)
    BY <1>2 DEF Windows
  <2>3. \A d \in Bits : d \in v.bitmap <=> v.high_water - d \in {s}
    BY <1>1 DEF Bits
  <2>4. Represents(v, {s})
    BY <1>1, <2>3 DEF Represents
  <2> QED
    BY <2>1, <2>2, <2>4
<1>4. CASE w.initialized /\ s > w.high_water
  <2> DEFINE v == Advance(w, s)
             shift == s - w.high_water
  <2>1. commit(w, s) = v
    BY <1>4 DEF commit
  <2>2. w.high_water \in Nat /\ s \in Nat /\ shift \in Nat /\ shift > 0
    BY <1>1, <1>4
  <2>3. v.initialized /\ v.high_water = s /\ v.bitmap \subseteq Bits
    BY <1>2 DEF Advance, ShiftLeft
  <2>4. v \in Windows(Numbers)
    BY <1>2 DEF Windows, Advance, ShiftLeft
  <2>5. ASSUME NEW d \in Bits
        PROVE  d \in v.bitmap <=> s - d \in S \cup {s}
    <3>1. d \in Nat /\ d < Window
      BY <1>1 DEF Bits
    <3>2. CASE d = 0
      BY <2>2, <3>2 DEF Advance
    <3>3. CASE d # 0 /\ shift >= Window
      <4>1. v.bitmap = {0}
        BY <3>3 DEF Advance
      <4>2. s - d > w.high_water
        BY <2>2, <3>1, <3>3, <1>1
      <4>3. s - d \notin S
        BY <1>1, <1>4, <2>2, <3>1, <4>2 DEF Represents
      <4> QED
        BY <2>2, <3>1, <3>3, <4>1, <4>3
    <3>4. CASE d # 0 /\ ~(shift >= Window)
      <4>1. d \in v.bitmap <=> d - shift \in w.bitmap
        BY <3>4 DEF Advance, ShiftLeft
      <4>2. CASE d >= shift
        <5>1. d - shift \in Bits /\ w.high_water - (d - shift) = s - d
          BY <1>1, <2>2, <3>1, <4>2 DEF Bits
        <5>2. d - shift \in w.bitmap <=> s - d \in S
          BY <1>4, <5>1 DEF Represents
        <5> QED
          BY <2>2, <3>1, <3>4, <4>1, <5>2
      <4>3. CASE ~(d >= shift)
        <5>1. d - shift \notin w.bitmap
          BY <1>1, <2>2, <3>1, <4>3 DEF Bits
        <5>2. s - d > w.high_water
          BY <2>2, <3>1, <4>3
        <5>3. s - d \notin S
          BY <1>1, <1>4, <2>2, <3>1, <5>2 DEF Represents
        <5> QED
          BY <2>2, <3>1, <3>4, <4>1, <5>1, <5>3
      <4> QED
        BY <4>2, <4>3
    <3> QED
      BY <3>2, <3>3, <3>4
  <2>6. \A t \in S \cup {s} : t <= s
    BY <1>1, <1>4, <2>2 DEF Represents
  <2>7. Represents(v, S \cup {s})
    BY <2>3, <2>5, <2>6 DEF Represents
  <2> QED
    BY <2>1, <2>4, <2>7
<1>5. CASE w.initialized /\ ~(s > w.high_water)
  <2> DEFINE new == w.high_water - s
             v   == [initialized |-> TRUE, high_water |-> w.high_water,
                     bitmap |-> w.bitmap \cup {new}]
  <2>1. commit(w, s) = v
    BY <1>5 DEF commit
  <2>2. w.high_water \in Nat /\ s \in Nat /\ new \in Nat /\ new < Window
    BY <1>1, <1>5 DEF accepted
  <2>3. new \in Bits
    BY <1>1, <2>2 DEF Bits
  <2>4. v \in Windows(Numbers)
    BY <2>3 DEF Windows
  <2>5. /\ v.initialized /\ v.high_water = w.high_water
        /\ v.bitmap = w.bitmap \cup {new}
    BY <1>5
  <2>6. ASSUME NEW d \in Bits
        PROVE  d \in v.bitmap <=> w.high_water - d \in S \cup {s}
    <3>1. d \in w.bitmap <=> w.high_water - d \in S
      BY <1>5 DEF Represents
    <3>2. d = new <=> w.high_water - d = s
      BY <1>1, <2>2 DEF Bits
    <3> QED
      BY <2>5, <3>1, <3>2
  <2>7. \A t \in S \cup {s} : t <= w.high_water
    BY <1>5, <2>2 DEF Represents
  <2>8. w.high_water \in S \cup {s}
    BY <1>5 DEF Represents
  <2>9. Represents(v, S \cup {s})
    BY <2>5, <2>6, <2>7, <2>8 DEF Represents
  <2> QED
    BY <2>1, <2>4, <2>9
<1> QED
  BY <1>3, <1>4, <1>5
-----------------------------------------------------------------------------
(***************************************************************************)
(* Type correctness.                                                       *)
(***************************************************************************)

\* The keys that derive_directional_keys returns pass valid_keys.
LEMMA DerivedKeys ==
  ASSUME NEW e \in Ends, NEW epoch \in Epochs
  PROVE  LET k == derive_directional_keys(e, epoch) IN
         /\ k.session.value = SessionValue /\ k.session.epoch = epoch
         /\ k.local_id = e /\ k.peer_id = Peer(e)
         /\ k.tx = derive_one(IF e = First THEN "NM-TX" ELSE "NM-RX", epoch)
         /\ k.rx = derive_one(IF e = First THEN "NM-RX" ELSE "NM-TX", epoch)
BY DEF derive_directional_keys

\* The epoch of an end is one of the epochs.
LEMMA EpochType ==
  ASSUME TypeOK, NEW e \in Ends
  PROVE  /\ keys[e].session.epoch \in Epochs
         /\ keys[e] = derive_directional_keys(e, keys[e].session.epoch)
BY DerivedKeys DEF TypeOK

\* What Session::seal puts on the wire has its type.
LEMMA SealedType ==
  ASSUME TypeOK, NEW e \in Ends, NEW h \in Headers, NEW p \in Payloads,
         seal_accepts(e, h)
  PROVE  Record(h, aead_seal(keys[e].tx, make_nonce(keys[e].session, h.sequence), h, p))
           \in [header : Headers, cipher : Ciphers]
<1> DEFINE ep == keys[e].session.epoch
           label == IF e = First THEN "NM-TX" ELSE "NM-RX"
<1>1. ep \in Epochs /\ keys[e].session.value = SessionValue
      /\ keys[e].tx = derive_one(label, ep)
  BY EpochType, DerivedKeys
<1>2. h.sequence \in Numbers
  BY DEF Headers
<1>3. make_nonce(keys[e].session, h.sequence) = <<SessionValue, XorOp(ep, h.sequence)>>
  BY <1>1 DEF make_nonce
<1>4. label \in {"NM-TX", "NM-RX"}
  OBVIOUS
<1> QED
  BY <1>1, <1>2, <1>3, <1>4 DEF Record, aead_seal, Ciphers

\* So has what a receiver opens, damaged or not.
LEMMA OpenedType ==
  ASSUME TypeOK, NEW r \in Arrivals
  PROVE  Opened(r) \in OpenRecords
<1>1. wire \subseteq [header : Headers, cipher : Ciphers]
  BY DEF TypeOK
<1>2. CASE r \in wire
  BY <1>1, <1>2 DEF Opened, OpenRecords, Ciphers
<1>3. ASSUME NEW s \in wire, NEW p \in Payloads, r = DamagedCipher(s, p)
      PROVE  Opened(r) \in OpenRecords
  <2>1. s.header \in Headers /\ s.cipher \in Ciphers
    BY <1>1
  <2>2. r.header = s.header /\ r.cipher.plaintext = p
    BY <1>3, <2>1 DEF DamagedCipher, Record, Ciphers
  <2> QED
    BY <2>1, <2>2 DEF Opened, OpenRecords
<1>4. ASSUME NEW s \in wire, NEW h \in Headers, r = DamagedHeader(s, h)
      PROVE  Opened(r) \in OpenRecords
  <2>1. s.cipher.plaintext \in Payloads
    BY <1>1 DEF Ciphers
  <2> QED
    BY <1>4, <2>1 DEF DamagedHeader, Record, Opened, OpenRecords
<1> QED
  BY <1>2, <1>3, <1>4 DEF Arrivals

\* A window that is committed to stays a window.
LEMMA CommitType ==
  ASSUME NEW w \in Windows(Numbers), NEW s \in Numbers, accepted(w, s)
  PROVE  commit(w, s) \in Windows(Numbers)
<1>1. 0 \in Bits
  BY WindowAssumption DEF Bits
<1>2. w.high_water \in Numbers /\ w.bitmap \subseteq Bits
  BY DEF Windows
<1>3. CASE ~w.initialized
  BY <1>1, <1>3 DEF commit, Windows
<1>4. CASE w.initialized /\ s > w.high_water
  BY <1>1, <1>4 DEF commit, Advance, ShiftLeft, Windows
<1>5. CASE w.initialized /\ ~(s > w.high_water)
  <2>1. w.high_water - s \in Bits
    BY <1>2, <1>5, WindowAssumption, SessionAssumption DEF accepted, Bits, Numbers
  <2> QED
    BY <1>2, <1>5, <2>1 DEF commit, Windows
<1> QED
  BY <1>3, <1>4, <1>5

\* The initial state is well formed, and every step leaves it so.
LEMMA TypeInit == Init => TypeOK
<1> SUFFICES ASSUME Init PROVE TypeOK
  OBVIOUS
<1>1. 1 \in Epochs /\ 0 \in Numbers
  BY SessionAssumption DEF Epochs, Numbers
<1>2. EmptyWindow \in Windows(Numbers)
  BY <1>1 DEF EmptyWindow, Windows
<1> QED
  BY <1>1, <1>2 DEF Init, TypeOK

\* Every call, and everything the network does, leaves the state well formed.
LEMMA TypeStep == TypeOK /\ [Next]_vars => TypeOK'
<1> SUFFICES ASSUME TypeOK, [Next]_vars PROVE TypeOK'
  OBVIOUS
<1>1. ASSUME NEW e \in Ends, NEW h \in Headers, NEW p \in Payloads, Seal(e, h, p)
      PROVE  TypeOK'
  <2>1. e \in Ends /\ h.sequence \in Numbers
    BY SessionAssumption DEF Headers
  <2>2. wire' \subseteq [header : Headers, cipher : Ciphers]
    BY <1>1, <2>1, SealedType DEF Seal, TypeOK
  <2>3. send_high_water' \in [Ends -> Numbers] /\ send_initialized' \in [Ends -> BOOLEAN]
    BY <1>1, <2>1 DEF Seal, TypeOK
  <2> QED
    BY <1>1, <2>2, <2>3 DEF Seal, TypeOK
<1>2. ASSUME NEW e \in Ends, NEW slot \in Slots, NEW r \in Arrivals,
             NEW now \in Times, OpenUncommitted(e, slot, r, now)
      PROVE  TypeOK'
  BY <1>2, OpenedType DEF OpenUncommitted, TypeOK
<1>3. ASSUME NEW e \in Ends, NEW slot \in Slots, CommitReplay(e, slot)
      PROVE  TypeOK'
  <2> DEFINE o == held[e][slot]
  <2>1. o \in OpenRecords
    BY <1>3 DEF CommitReplay, TypeOK
  <2>2. o.header.sequence \in Numbers
    BY <2>1 DEF OpenRecords, Headers
  <2>3. commit(replay[e], o.header.sequence) \in Windows(Numbers)
    BY <1>3, <2>2, CommitType DEF CommitReplay, CommitAccepts, TypeOK
  <2>4. replay' \in [Ends -> Windows(Numbers)]
    BY <1>3, <2>3 DEF CommitReplay, TypeOK
  <2>5. held' \in [Ends -> [Slots -> OpenRecords \cup {NoRecord}]]
    BY <1>3 DEF CommitReplay, TypeOK
  <2>6. committed' \in [Ends -> SUBSET OpenRecords]
        /\ recommitted' \in [Ends -> SUBSET OpenRecords]
    BY <1>3, <2>1 DEF CommitReplay, TypeOK
  <2> QED
    BY <1>3, <2>4, <2>5, <2>6 DEF CommitReplay, TypeOK
<1>4. ASSUME NEW e \in Ends, NEW slot \in Slots, Discard(e, slot)
      PROVE  TypeOK'
  BY <1>4 DEF Discard, TypeOK
<1>5. ASSUME NEW e \in Ends, NEW epoch \in Epochs,
             Rekey(e, derive_directional_keys(e, epoch))
      PROVE  TypeOK'
  <2>1. 0 \in Numbers
    BY SessionAssumption DEF Numbers
  <2>2. replay' \in [Ends -> Windows(Numbers)]
    BY <1>5, <2>1 DEF Rekey, TypeOK, EmptyWindow, Windows
  <2>3. send_high_water' \in [Ends -> Numbers] /\ send_initialized' \in [Ends -> BOOLEAN]
    BY <1>5, <2>1 DEF Rekey, TypeOK
  <2>4. /\ DOMAIN keys' = Ends
        /\ \A f \in Ends : \E ep \in Epochs : keys'[f] = derive_directional_keys(f, ep)
    BY <1>5 DEF Rekey, TypeOK
  <2> QED
    BY <1>5, <2>2, <2>3, <2>4 DEF Rekey, TypeOK
<1>6. CASE UNCHANGED vars
  BY <1>6 DEF vars, TypeOK
<1> QED
  BY <1>1, <1>2, <1>3, <1>4, <1>5, <1>6 DEF Next

\* Every state of the sessions, their callers and the network is well formed.
THEOREM TypeCorrect == Spec => []TypeOK
BY TypeInit, TypeStep, PTL DEF Spec

-----------------------------------------------------------------------------
(***************************************************************************)
(* Replay protection.  AtMostOnce and OncePerEpoch are not inductive: that *)
(* a record is not accepted twice rests on the window standing for a set   *)
(* of sequences with all those accepted in this epoch among them, and with *)
(* no other until a rekey is crossed (WindowsRight), on the records that   *)
(* wait for their commit being of no later epoch, and of this one until a  *)
(* rekey is crossed (HeldPast), and on none of those committed being of an *)
(* epoch to come (CommittedPast).                                          *)
(***************************************************************************)

HeldPast ==
  \A e \in Ends : \A slot \in Slots :
    held[e][slot] # NoRecord =>
      /\ held[e][slot].header.epoch <= keys[e].session.epoch
      /\ ~crossed[e] => held[e][slot].header.epoch = keys[e].session.epoch

CommittedPast ==
  \A e \in Ends : \A o \in committed[e] : o.header.epoch <= keys[e].session.epoch

\* The window w stands for what was seen, and for more only after a crossing.
Covers(w, S, W, across) ==
  Represents(w, W) /\ S \subseteq W /\ (~across => W = S)

WindowsRight ==
  \A e \in Ends : \E W \in SUBSET Numbers : Covers(replay[e], Seen(e), W, crossed[e])

ReplayInv ==
  TypeOK /\ HeldPast /\ CommittedPast /\ WindowsRight /\ AtMostOnce /\ OncePerEpoch

\* What an end has seen are sequence numbers.
LEMMA SeenType ==
  ASSUME TypeOK, NEW e \in Ends
  PROVE  Seen(e) \in SUBSET Numbers
BY DEF TypeOK, Seen, OpenRecords, Headers

\* A commit adds the sequence of its record to what its end has seen, unless
\* the record is of an earlier epoch.
LEMMA CommitSeen ==
  ASSUME TypeOK, NEW e \in Ends, NEW slot \in Slots, CommitReplay(e, slot)
  PROVE  /\ Seen(e)' = IF held[e][slot].header.epoch = keys[e].session.epoch
                       THEN Seen(e) \cup {held[e][slot].header.sequence}
                       ELSE Seen(e)
         /\ \A f \in Ends \ {e} : Seen(f)' = Seen(f)
<1> DEFINE o == held[e][slot]
<1>1. keys' = keys /\ committed'[e] = committed[e] \cup {o}
      /\ \A f \in Ends \ {e} : committed'[f] = committed[f]
  BY DEF CommitReplay, TypeOK
<1>2. CASE o.header.epoch = keys[e].session.epoch
  <2>1. Seen(e)' = Seen(e) \cup {o.header.sequence}
    BY <1>1, <1>2 DEF Seen
  <2> QED
    BY <1>1, <1>2, <2>1 DEF Seen
<1>3. CASE o.header.epoch # keys[e].session.epoch
  <2>1. Seen(e)' = Seen(e)
    BY <1>1, <1>3 DEF Seen
  <2> QED
    BY <1>1, <1>3, <2>1 DEF Seen
<1> QED
  BY <1>2, <1>3

\* A rekey forgets what its end has seen: nothing committed is of the epoch
\* that begins.
LEMMA RekeySeen ==
  ASSUME TypeOK, CommittedPast, NEW e \in Ends, NEW epoch \in Epochs,
         Rekey(e, derive_directional_keys(e, epoch))
  PROVE  /\ Seen(e)' = {}
         /\ \A f \in Ends \ {e} : Seen(f)' = Seen(f)
         /\ keys'[e].session.epoch = epoch /\ epoch > keys[e].session.epoch
<1>1. /\ keys'[e].session.epoch = epoch
      /\ epoch > keys[e].session.epoch
  BY DerivedKeys DEF Rekey, rekey_accepts, TypeOK
<1>2. committed' = committed /\ \A f \in Ends \ {e} : keys'[f] = keys[f]
  BY DEF Rekey, TypeOK
<1>3. \A o \in committed[e] : o.header.epoch # epoch
  <2> SUFFICES ASSUME NEW o \in committed[e], o.header.epoch = epoch PROVE FALSE
    OBVIOUS
  <2>1. epoch <= keys[e].session.epoch
    BY DEF CommittedPast
  <2>2. epoch \in Int /\ keys[e].session.epoch \in Int
    BY EpochType DEF Epochs
  <2> QED
    BY <1>1, <2>1, <2>2
<1>4. Seen(e)' = {}
  BY <1>1, <1>2, <1>3 DEF Seen
<1>5. \A f \in Ends \ {e} : Seen(f)' = Seen(f)
  BY <1>2 DEF Seen
<1> QED
  BY <1>1, <1>4, <1>5

\* Actions that touch neither the keys nor what was committed nor the windows.
LEMMA ReplayUntouched ==
  ASSUME ReplayInv, TypeOK', UNCHANGED <<keys, replay, committed, recommitted, crossed>>,
         HeldPast'
  PROVE  ReplayInv'
<1>1. \A e \in Ends : Seen(e)' = Seen(e)
  BY DEF Seen
<1>2. WindowsRight'
  BY <1>1 DEF ReplayInv, WindowsRight, Covers, Represents
<1>3. CommittedPast' /\ AtMostOnce' /\ OncePerEpoch'
  BY DEF ReplayInv, CommittedPast, AtMostOnce, OncePerEpoch
<1> QED
  BY <1>2, <1>3 DEF ReplayInv

\* A commit keeps the window right, and accepts again at most what is of an
\* earlier epoch, and has crossed a rekey.
LEMMA CommitKeepsReplay ==
  ASSUME ReplayInv, TypeOK', NEW e \in Ends, NEW slot \in Slots,
         CommitReplay(e, slot)
  PROVE  ReplayInv'
<1> DEFINE o == held[e][slot]
           s == o.header.sequence
           now_epoch == keys[e].session.epoch
<1> USE DEF ReplayInv
<1>1. /\ o \in OpenRecords /\ s \in Numbers
      /\ o.header.epoch <= now_epoch /\ (~crossed[e] => o.header.epoch = now_epoch)
  BY DEF CommitReplay, HeldPast, TypeOK, OpenRecords, Headers
<1>2. /\ replay[e] \in Windows(Numbers) /\ accepted(replay[e], s)
      /\ replay'[e] = commit(replay[e], s)
      /\ \A f \in Ends \ {e} : replay'[f] = replay[f]
      /\ keys' = keys /\ crossed' = crossed
  BY DEF CommitReplay, CommitAccepts, TypeOK
<1>3. PICK W \in SUBSET Numbers : Covers(replay[e], Seen(e), W, crossed[e])
  BY DEF WindowsRight
<1>4. Represents(commit(replay[e], s), W \cup {s}) /\ W \cup {s} \in SUBSET Numbers
  BY <1>1, <1>2, <1>3, CommitRepresents DEF Covers
<1>5. s \notin Seen(e)
  BY <1>1, <1>2, <1>3, AcceptedMeaning DEF Covers
<1>6. o \in committed[e] => o.header.epoch < now_epoch
  <2>1. o \in committed[e] => o.header.epoch # now_epoch
    BY <1>5 DEF Seen
  <2>2. o.header.epoch \in Int /\ now_epoch \in Int
    BY <1>1, EpochType DEF Epochs, OpenRecords, Headers
  <2> QED
    BY <1>1, <2>1, <2>2
<1>7. WindowsRight'
  <2> SUFFICES ASSUME NEW f \in Ends
               PROVE  \E V \in SUBSET Numbers :
                        Covers(replay'[f], Seen(f)', V, crossed'[f])
    BY DEF WindowsRight
  <2>1. CASE f = e
    <3>1. Covers(replay'[e], Seen(e)', W \cup {s}, crossed'[e])
      BY <1>1, <1>2, <1>3, <1>4, CommitSeen DEF Covers
    <3> QED
      BY <1>4, <2>1, <3>1
  <2>2. CASE f # e
    <3>1. replay'[f] = replay[f] /\ Seen(f)' = Seen(f) /\ crossed'[f] = crossed[f]
      BY <1>2, <2>2, CommitSeen
    <3> QED
      BY <3>1 DEF WindowsRight
  <2> QED
    BY <2>1, <2>2
<1>8. /\ recommitted'[e] = recommitted[e] \cup ({o} \cap committed[e])
      /\ \A f \in Ends \ {e} : recommitted'[f] = recommitted[f]
      /\ committed'[e] = committed[e] \cup {o}
      /\ \A f \in Ends \ {e} : committed'[f] = committed[f]
  BY DEF CommitReplay, TypeOK
<1>9. AtMostOnce'
  <2>1. ~crossed[e] => o \notin committed[e]
    BY <1>1, <1>5 DEF Seen
  <2> QED
    BY <1>2, <1>8, <2>1 DEF AtMostOnce
<1>10. OncePerEpoch'
  BY <1>2, <1>6, <1>8 DEF OncePerEpoch
<1>11. HeldPast'
  BY <1>2 DEF HeldPast, CommitReplay, TypeOK
<1>12. CommittedPast'
  BY <1>1, <1>2, <1>8 DEF CommittedPast
<1> QED
  BY <1>7, <1>9, <1>10, <1>11, <1>12

\* A rekey empties the window, and what its end has seen.
LEMMA RekeyKeepsReplay ==
  ASSUME ReplayInv, TypeOK', NEW e \in Ends, NEW epoch \in Epochs,
         Rekey(e, derive_directional_keys(e, epoch))
  PROVE  ReplayInv'
<1> USE DEF ReplayInv
<1>1. /\ replay'[e] = EmptyWindow /\ \A f \in Ends \ {e} : replay'[f] = replay[f]
      /\ \A f \in Ends \ {e} : keys'[f] = keys[f] /\ crossed'[f] = crossed[f]
      /\ held' = held /\ committed' = committed /\ recommitted' = recommitted
      /\ ~crossed'[e] => ~crossed[e] /\ \A slot \in Slots : held[e][slot] = NoRecord
  BY DEF Rekey, TypeOK
<1>2. WindowsRight'
  <2> SUFFICES ASSUME NEW f \in Ends
               PROVE  \E V \in SUBSET Numbers :
                        Covers(replay'[f], Seen(f)', V, crossed'[f])
    BY DEF WindowsRight
  <2>1. CASE f = e
    <3>1. Covers(replay'[e], Seen(e)', {}, crossed'[e])
      BY <1>1, RekeySeen DEF Covers, Represents, EmptyWindow
    <3> QED
      BY <2>1, <3>1
  <2>2. CASE f # e
    <3>1. replay'[f] = replay[f] /\ Seen(f)' = Seen(f) /\ crossed'[f] = crossed[f]
      BY <1>1, <2>2, RekeySeen
    <3> QED
      BY <3>1 DEF WindowsRight
  <2> QED
    BY <2>1, <2>2
<1>3. \A f \in Ends : /\ keys[f].session.epoch \in Int /\ keys'[f].session.epoch \in Int
                      /\ keys[f].session.epoch <= keys'[f].session.epoch
  <2> SUFFICES ASSUME NEW f \in Ends
               PROVE  /\ keys[f].session.epoch \in Int /\ keys'[f].session.epoch \in Int
                      /\ keys[f].session.epoch <= keys'[f].session.epoch
    OBVIOUS
  <2>1. keys[f].session.epoch \in Int /\ epoch \in Int
    BY EpochType DEF Epochs
  <2>2. CASE f = e
    BY <2>1, <2>2, RekeySeen
  <2>3. CASE f # e
    BY <1>1, <2>1, <2>3
  <2> QED
    BY <2>2, <2>3
<1>4. HeldPast'
  <2> SUFFICES ASSUME NEW f \in Ends, NEW slot \in Slots, held[f][slot] # NoRecord
               PROVE  /\ held[f][slot].header.epoch <= keys'[f].session.epoch
                      /\ ~crossed'[f] =>
                           held[f][slot].header.epoch = keys'[f].session.epoch
    BY <1>1 DEF HeldPast
  <2>1. /\ held[f][slot].header.epoch \in Int
        /\ held[f][slot].header.epoch <= keys[f].session.epoch
        /\ ~crossed[f] => held[f][slot].header.epoch = keys[f].session.epoch
    BY DEF HeldPast, TypeOK, OpenRecords, Headers, Epochs
  <2>2. held[f][slot].header.epoch <= keys'[f].session.epoch
    BY <1>3, <2>1
  <2> QED
    BY <1>1, <2>1, <2>2
<1>5. CommittedPast'
  <2> SUFFICES ASSUME NEW f \in Ends, NEW o \in committed[f]
               PROVE  o.header.epoch <= keys'[f].session.epoch
    BY <1>1 DEF CommittedPast
  <2>1. o.header.epoch \in Int /\ o.header.epoch <= keys[f].session.epoch
    BY DEF CommittedPast, TypeOK, OpenRecords, Headers, Epochs
  <2> QED
    BY <1>3, <2>1
<1>6. AtMostOnce'
  <2> SUFFICES ASSUME NEW f \in Ends, ~crossed'[f] PROVE recommitted[f] = {}
    BY <1>1 DEF AtMostOnce
  <2> QED
    BY <1>1 DEF AtMostOnce
<1>7. OncePerEpoch'
  <2> SUFFICES ASSUME NEW f \in Ends, NEW o \in recommitted[f]
               PROVE  o.header.epoch < keys'[f].session.epoch
    BY <1>1 DEF OncePerEpoch
  <2>1. o.header.epoch \in Int /\ o.header.epoch < keys[f].session.epoch
    BY DEF OncePerEpoch, TypeOK, OpenRecords, Headers, Epochs
  <2> QED
    BY <1>3, <2>1
<1> QED
  BY <1>2, <1>4, <1>5, <1>6, <1>7

\* An opened record is of the epoch in force.
LEMMA OpenedCurrent ==
  ASSUME NEW e, NEW r, NEW now, open_error(e, r, now) = "None"
  PROVE  r.header.epoch = keys[e].session.epoch
BY DEF open_error

\* The replay invariant holds of every reachable state.
LEMMA ReplayInvariant == Spec => []ReplayInv
<1>1. Init => ReplayInv
  <2> SUFFICES ASSUME Init PROVE ReplayInv
    OBVIOUS
  <2>1. TypeOK
    BY TypeInit
  <2>2. \A e \in Ends : Covers(replay[e], Seen(e), {}, crossed[e])
    BY DEF Init, Seen, Covers, Represents, EmptyWindow
  <2>3. WindowsRight
    BY <2>2 DEF WindowsRight
  <2> QED
    BY <2>1, <2>3 DEF ReplayInv, Init, HeldPast, CommittedPast, AtMostOnce, OncePerEpoch
<1>2. ReplayInv /\ [Next]_vars => ReplayInv'
  <2> SUFFICES ASSUME ReplayInv, [Next]_vars PROVE ReplayInv'
    OBVIOUS
  <2>0. TypeOK'
    BY TypeStep DEF ReplayInv
  <2>1. ASSUME NEW e \in Ends, NEW h \in Headers, NEW p \in Payloads, Seal(e, h, p)
        PROVE  ReplayInv'
    <3>1. HeldPast'
      BY <2>1 DEF Seal, HeldPast, ReplayInv
    <3> QED
      BY <2>0, <2>1, <3>1, ReplayUntouched DEF Seal
  <2>2. ASSUME NEW e \in Ends, NEW slot \in Slots, NEW r \in Arrivals,
               NEW now \in Times, OpenUncommitted(e, slot, r, now)
        PROVE  ReplayInv'
    <3>1. /\ Opened(r).header.epoch = keys[e].session.epoch
          /\ Opened(r).header.epoch <= keys[e].session.epoch
      BY <2>2, OpenedCurrent, EpochType DEF OpenUncommitted, Opened, Epochs, ReplayInv
    <3>2. HeldPast'
      BY <2>2, <3>1 DEF OpenUncommitted, HeldPast, ReplayInv, TypeOK
    <3> QED
      BY <2>0, <2>2, <3>2, ReplayUntouched DEF OpenUncommitted
  <2>3. ASSUME NEW e \in Ends, NEW slot \in Slots, CommitReplay(e, slot)
        PROVE  ReplayInv'
    BY <2>0, <2>3, CommitKeepsReplay
  <2>4. ASSUME NEW e \in Ends, NEW slot \in Slots, Discard(e, slot)
        PROVE  ReplayInv'
    <3>1. HeldPast'
      BY <2>4 DEF Discard, HeldPast, ReplayInv, TypeOK
    <3> QED
      BY <2>0, <2>4, <3>1, ReplayUntouched DEF Discard
  <2>5. ASSUME NEW e \in Ends, NEW epoch \in Epochs,
               Rekey(e, derive_directional_keys(e, epoch))
        PROVE  ReplayInv'
    BY <2>0, <2>5, RekeyKeepsReplay
  <2>6. CASE UNCHANGED vars
    <3>1. HeldPast'
      BY <2>6 DEF vars, HeldPast, ReplayInv
    <3> QED
      BY <2>0, <2>6, <3>1, ReplayUntouched DEF vars
  <2> QED
    BY <2>1, <2>2, <2>3, <2>4, <2>5, <2>6 DEF Next
<1> QED
  BY <1>1, <1>2, PTL DEF Spec

\* commit_replay accepts no record twice, whatever the network repeats and
\* however many copies are opened before the first commit, until its caller
\* rekeys between open and commit.
THEOREM ReplaySafe == Spec => []AtMostOnce
<1>1. ReplayInv => AtMostOnce
  BY DEF ReplayInv
<1> QED
  BY <1>1, ReplayInvariant, PTL

\* And whenever its caller rekeys, a record that is accepted twice is of an
\* epoch gone by: commit_replay, which does not ask for the epoch, still
\* accepts each record of the epoch in force once.
THEOREM OncePerEpochAlways == Spec => []OncePerEpoch
<1>1. ReplayInv => OncePerEpoch
  BY DEF ReplayInv
<1> QED
  BY <1>1, ReplayInvariant, PTL
-----------------------------------------------------------------------------
(***************************************************************************)
(* Nonces.  A record on the wire was sealed by its source under the keys   *)
(* of its epoch, which its source has reached, and if it is of the present *)
(* one then its sequence is no higher than the last one sealed.            *)
(***************************************************************************)

WireRight ==
  \A r \in wire :
    LET e == r.header.source_id
        h == r.header
    IN  /\ h.destination_id = Peer(e)
        /\ r = Record(h, aead_seal(derive_directional_keys(e, h.epoch).tx,
                                   <<SessionValue, XorOp(h.epoch, h.sequence)>>,
                                   h, r.cipher.plaintext))
        /\ h.epoch <= keys[e].session.epoch
        /\ h.epoch = keys[e].session.epoch =>
             send_initialized[e] /\ h.sequence <= send_high_water[e]

NonceInv == TypeOK /\ WireRight /\ NonceFresh

\* The keys of the two directions, and of two epochs, are different keys.
LEMMA KeysDiffer ==
  ASSUME NEW e \in Ends, NEW f \in Ends, NEW m \in Epochs, NEW n \in Epochs,
         derive_directional_keys(e, m).tx = derive_directional_keys(f, n).tx
  PROVE  e = f /\ m = n
<1> DEFINE l == IF e = First THEN "NM-TX" ELSE "NM-RX"
           k == IF f = First THEN "NM-TX" ELSE "NM-RX"
<1>1. derive_one(l, m) = derive_one(k, n)
  BY DerivedKeys
<1>2. /\ derive_one(l, m)[1] = l /\ derive_one(l, m)[3] = m
      /\ derive_one(k, n)[1] = k /\ derive_one(k, n)[3] = n
  BY DEF derive_one
<1>3. m = n /\ l = k
  <2> HIDE DEF l, k
  <2> QED
    BY <1>1, <1>2
<1> QED
  BY <1>3 DEF Ends

\* What is sealed is not sealed under a nonce used before.
LEMMA SealKeepsNonces ==
  ASSUME NonceInv, TypeOK', NEW e \in Ends, NEW h \in Headers, NEW p \in Payloads,
         Seal(e, h, p)
  PROVE  NonceInv'
<1> USE DEF NonceInv
<1> DEFINE ep == keys[e].session.epoch
           new == Record(h, aead_seal(derive_directional_keys(e, ep).tx,
                                      <<SessionValue, XorOp(ep, h.sequence)>>, h, p))
<1>1. /\ ep \in Epochs /\ keys[e] = derive_directional_keys(e, ep)
      /\ keys[e].session.value = SessionValue
      /\ keys[e].local_id = e /\ keys[e].peer_id = Peer(e)
  BY EpochType, DerivedKeys
<1>2. /\ h.source_id = e /\ h.destination_id = Peer(e) /\ h.epoch = ep
      /\ send_initialized[e] => h.sequence > send_high_water[e]
  BY <1>1 DEF Seal, seal_accepts
<1>3. wire' = wire \cup {new} /\ keys' = keys
  BY <1>1 DEF Seal, make_nonce
<1>4. /\ send_initialized'[e] /\ send_high_water'[e] = h.sequence
      /\ \A f \in Ends \ {e} : /\ send_initialized'[f] = send_initialized[f]
                               /\ send_high_water'[f] = send_high_water[f]
  BY DEF Seal, TypeOK
<1>5. h.sequence \in Nat /\ ep \in Nat /\ send_high_water[e] \in Nat
  <2>1. h.sequence \in Numbers
    BY DEF Headers
  <2>2. send_high_water[e] \in Numbers
    BY DEF TypeOK
  <2> QED
    BY <1>1, <2>1, <2>2 DEF Numbers, Epochs
<1>6. new.header = h /\ new.cipher.plaintext = p
      /\ new.cipher.key = derive_directional_keys(e, ep).tx
      /\ new.cipher.nonce = <<SessionValue, XorOp(ep, h.sequence)>>
      /\ new = Record(new.header, aead_seal(derive_directional_keys(e, ep).tx,
                                            <<SessionValue, XorOp(ep, h.sequence)>>,
                                            new.header, new.cipher.plaintext))
  BY DEF Record, aead_seal
<1> HIDE DEF new
<1>7. WireRight'
  <2> SUFFICES ASSUME NEW r \in wire'
               PROVE  LET f == r.header.source_id
                          g == r.header
                      IN  /\ g.destination_id = Peer(f)
                          /\ r = Record(g, aead_seal(derive_directional_keys(f, g.epoch).tx,
                                     <<SessionValue, XorOp(g.epoch, g.sequence)>>,
                                     g, r.cipher.plaintext))
                          /\ g.epoch <= keys[f].session.epoch
                          /\ g.epoch = keys[f].session.epoch =>
                               send_initialized'[f] /\ g.sequence <= send_high_water'[f]
    BY <1>3 DEF WireRight
  <2>1. CASE r = new
    <3>1. r.header = h /\ r.header.source_id = e /\ r.header.epoch = ep
      BY <1>2, <1>6, <2>1
    <3>2. ep <= keys[e].session.epoch /\ h.sequence <= send_high_water'[e]
      BY <1>4, <1>5
    <3> QED
      BY <1>2, <1>4, <1>6, <2>1, <3>1, <3>2
  <2>2. CASE r \in wire /\ r.header.source_id # e
    <3>1. r.header.source_id \in Ends \ {e}
      BY <2>2 DEF TypeOK, Headers
    <3> QED
      BY <1>4, <2>2, <3>1 DEF WireRight
  <2>3. CASE r \in wire /\ r.header.source_id = e
    <3>1. r.header.sequence \in Nat
      BY <2>3, SessionAssumption DEF TypeOK, Headers, Numbers
    <3>2. r.header.epoch = keys[e].session.epoch =>
            send_initialized[e] /\ r.header.sequence <= send_high_water[e]
      BY <2>3 DEF WireRight
    <3>3. r.header.epoch = keys[e].session.epoch =>
            send_initialized'[e] /\ r.header.sequence <= send_high_water'[e]
      BY <1>2, <1>4, <1>5, <3>1, <3>2
    <3> QED
      BY <2>3, <3>3 DEF WireRight
  <2> QED
    BY <1>3, <2>1, <2>2, <2>3
<1>8. ASSUME NEW r \in wire, r.cipher.key = new.cipher.key,
             r.cipher.nonce = new.cipher.nonce
      PROVE  FALSE
  <2> DEFINE f == r.header.source_id
             g == r.header
  <2>1. f \in Ends /\ g.epoch \in Epochs /\ g.sequence \in Numbers
        /\ h.sequence \in Numbers
    BY DEF TypeOK, Headers
  <2>2. /\ r.cipher.key = derive_directional_keys(f, g.epoch).tx
        /\ r.cipher.nonce = <<SessionValue, XorOp(g.epoch, g.sequence)>>
    BY DEF WireRight, Record, aead_seal
  <2>3. f = e /\ g.epoch = ep
    <3>1. derive_directional_keys(f, g.epoch).tx = derive_directional_keys(e, ep).tx
      BY <1>6, <1>8, <2>2
    <3> QED
      BY <1>1, <2>1, <3>1, KeysDiffer
  <2>4. g.sequence = h.sequence
    <3>1. XorOp(ep, g.sequence) = XorOp(ep, h.sequence)
      <4>1. <<SessionValue, XorOp(ep, g.sequence)>> = <<SessionValue, XorOp(ep, h.sequence)>>
        BY <1>6, <1>8, <2>2, <2>3
      <4> QED
        BY <4>1
    <3> QED
      BY <1>1, <2>1, <3>1, XorAssumption
  <2>5. send_initialized[e] /\ g.sequence <= send_high_water[e]
    BY <2>3 DEF WireRight
  <2> QED
    BY <1>2, <1>5, <2>4, <2>5
<1>9. NonceFresh'
  BY <1>3, <1>8 DEF NonceFresh
<1> QED
  BY <1>7, <1>9

\* A rekey moves its end past every epoch it has sealed in.
LEMMA RekeyKeepsNonces ==
  ASSUME NonceInv, TypeOK', NEW e \in Ends, NEW epoch \in Epochs,
         Rekey(e, derive_directional_keys(e, epoch))
  PROVE  NonceInv'
<1> USE DEF NonceInv
<1>1. /\ keys'[e].session.epoch = epoch /\ epoch > keys[e].session.epoch
      /\ \A f \in Ends \ {e} : /\ keys'[f] = keys[f]
                               /\ send_initialized'[f] = send_initialized[f]
                               /\ send_high_water'[f] = send_high_water[f]
      /\ wire' = wire
  BY DerivedKeys DEF Rekey, rekey_accepts, TypeOK
<1>2. epoch \in Int /\ keys[e].session.epoch \in Int
  BY EpochType DEF Epochs
<1>3. WireRight'
  <2> SUFFICES ASSUME NEW r \in wire
               PROVE  LET f == r.header.source_id
                          g == r.header
                      IN  /\ g.epoch <= keys'[f].session.epoch
                          /\ g.epoch = keys'[f].session.epoch =>
                               send_initialized'[f] /\ g.sequence <= send_high_water'[f]
    BY <1>1 DEF WireRight
  <2>1. r.header.source_id \in Ends /\ r.header.epoch \in Int
    BY DEF TypeOK, Headers, Epochs
  <2>2. CASE r.header.source_id = e
    <3>1. r.header.epoch <= keys[e].session.epoch
      BY <2>2 DEF WireRight
    <3> QED
      BY <1>1, <1>2, <2>1, <2>2, <3>1
  <2>3. CASE r.header.source_id # e
    BY <1>1, <2>1, <2>3 DEF WireRight
  <2> QED
    BY <2>2, <2>3
<1>4. NonceFresh'
  BY <1>1 DEF NonceFresh
<1> QED
  BY <1>3, <1>4

\* The nonce invariant holds of every reachable state.
LEMMA NonceInvariant == Spec => []NonceInv
<1>1. Init => NonceInv
  BY TypeInit DEF Init, NonceInv, WireRight, NonceFresh
<1>2. NonceInv /\ [Next]_vars => NonceInv'
  <2> SUFFICES ASSUME NonceInv, [Next]_vars PROVE NonceInv'
    OBVIOUS
  <2>0. TypeOK'
    BY TypeStep DEF NonceInv
  <2>1. ASSUME NEW e \in Ends, NEW h \in Headers, NEW p \in Payloads, Seal(e, h, p)
        PROVE  NonceInv'
    BY <2>0, <2>1, SealKeepsNonces, SessionAssumption
  <2>2. ASSUME NEW e \in Ends, NEW epoch \in Epochs,
               Rekey(e, derive_directional_keys(e, epoch))
        PROVE  NonceInv'
    BY <2>0, <2>2, RekeyKeepsNonces
  <2>3. CASE UNCHANGED <<keys, send_initialized, send_high_water, wire>>
    BY <2>0, <2>3 DEF NonceInv, WireRight, NonceFresh
  <2> QED
    BY <2>1, <2>2, <2>3 DEF Next, OpenUncommitted, CommitReplay, Discard, vars
<1> QED
  BY <1>1, <1>2, PTL DEF Spec

\* No key is ever used with one nonce for two records, in either direction,
\* over any number of rekeys, and whatever the callers do: the promise that
\* seal and rekey make with their checks of the sequence and of the epoch.
THEOREM NoNonceReuse == Spec => []NonceFresh
<1>1. NonceInv => NonceFresh
  BY DEF NonceInv
<1> QED
  BY <1>1, NonceInvariant, PTL
-----------------------------------------------------------------------------
(***************************************************************************)
(* Authenticity.  A record passes from the wire to an OpenRecord and from  *)
(* there to the history; it is genuine at each place.                      *)
(***************************************************************************)

Genuine(e, o) ==
  \E r \in wire :
    /\ o = Opened(r)
    /\ r.header.source_id = Peer(e)
    /\ r.cipher.key = derive_directional_keys(e, r.header.epoch).rx

HeldGenuine ==
  \A e \in Ends : \A slot \in Slots :
    held[e][slot] # NoRecord => Genuine(e, held[e][slot])

\* The header a record was sent with is what its ciphertext was sealed with.
HeaderSealed == \A r \in wire : r.cipher.aad = r.header

AuthInv == TypeOK /\ HeaderSealed /\ HeldGenuine /\ Authentic

\* open_uncommitted opens genuine records only.
LEMMA OpensGenuine ==
  ASSUME TypeOK, HeaderSealed, NEW e \in Ends, NEW r \in Arrivals, NEW now,
         open_error(e, r, now) = "None"
  PROVE  Genuine(e, Opened(r))
<1>1. /\ r.header.source_id = keys[e].peer_id
      /\ r.header.epoch = keys[e].session.epoch
      /\ r.cipher.intact /\ r.cipher.key = keys[e].rx
      /\ r.cipher.aad = r.header
  BY DEF open_error, aead_opens
<1>2. r \in wire
  <2>1. ASSUME NEW s \in wire, NEW p \in Payloads, r = DamagedCipher(s, p)
        PROVE  FALSE
    <3>1. s.cipher \in Ciphers
      BY DEF TypeOK
    <3>2. r.cipher.intact = FALSE
      BY <2>1, <3>1 DEF DamagedCipher, Record, Ciphers
    <3> QED
      BY <1>1, <3>2
  <2>2. ASSUME NEW s \in wire, NEW h \in Headers, r = DamagedHeader(s, h)
        PROVE  r \in wire
    <3>1. r.header = h /\ r.cipher = s.cipher
      BY <2>2 DEF DamagedHeader, Record
    <3>2. h = s.header
      BY <1>1, <3>1 DEF HeaderSealed
    <3>3. s = [header |-> s.header, cipher |-> s.cipher]
      BY DEF TypeOK
    <3> QED
      BY <2>2, <3>2, <3>3 DEF DamagedHeader, Record
  <2> QED
    BY <2>1, <2>2 DEF Arrivals
<1>3. /\ keys[e].peer_id = Peer(e)
      /\ keys[e].rx = derive_directional_keys(e, keys[e].session.epoch).rx
  BY EpochType, DerivedKeys
<1> QED
  BY <1>1, <1>2, <1>3 DEF Genuine

\* The invariant of what is held and accepted holds of every reachable state.
LEMMA AuthInvariant == Spec => []AuthInv
<1>1. Init => AuthInv
  BY TypeInit DEF Init, AuthInv, HeaderSealed, HeldGenuine, Authentic
<1>2. AuthInv /\ [Next]_vars => AuthInv'
  <2> SUFFICES ASSUME AuthInv, [Next]_vars PROVE AuthInv'
    OBVIOUS
  <2>0. TypeOK' /\ TypeOK
    BY TypeStep DEF AuthInv
  <2>1. wire \subseteq wire'
    BY DEF Next, Seal, OpenUncommitted, CommitReplay, Discard, Rekey, vars
  <2>h. HeaderSealed'
    <3>1. ASSUME NEW e \in Ends, NEW h \in Headers, NEW p \in Payloads, Seal(e, h, p)
          PROVE  HeaderSealed'
      BY <3>1 DEF Seal, Record, aead_seal, HeaderSealed, AuthInv
    <3>2. CASE wire' = wire
      BY <3>2 DEF HeaderSealed, AuthInv
    <3> QED
      BY <3>1, <3>2 DEF Next, OpenUncommitted, CommitReplay, Discard, Rekey, vars
  <2>2. \A e \in Ends : \A o : Genuine(e, o) => Genuine(e, o)'
    BY <2>1 DEF Genuine
  <2>3. ASSUME NEW e \in Ends, NEW slot \in Slots, NEW r \in Arrivals,
               NEW now \in Times, OpenUncommitted(e, slot, r, now)
        PROVE  AuthInv'
    <3>1. Genuine(e, Opened(r))
      BY <2>0, <2>3, OpensGenuine DEF OpenUncommitted, AuthInv
    <3>2. HeldGenuine'
      BY <2>0, <2>2, <2>3, <3>1 DEF OpenUncommitted, HeldGenuine, AuthInv, TypeOK
    <3>3. Authentic'
      BY <2>3 DEF OpenUncommitted, Authentic, AuthInv
    <3> QED
      BY <2>0, <2>h, <3>2, <3>3 DEF AuthInv
  <2>4. ASSUME NEW e \in Ends, NEW slot \in Slots, CommitReplay(e, slot)
        PROVE  AuthInv'
    <3>1. Genuine(e, held[e][slot]) /\ wire' = wire
      BY <2>4 DEF CommitReplay, HeldGenuine, AuthInv
    <3>2. HeldGenuine'
      BY <2>0, <2>2, <2>4 DEF CommitReplay, HeldGenuine, AuthInv, TypeOK
    <3>3. Authentic'
      BY <2>0, <2>4, <3>1 DEF CommitReplay, Authentic, AuthInv, TypeOK, Genuine
    <3> QED
      BY <2>0, <2>h, <3>2, <3>3 DEF AuthInv
  <2>5. ASSUME NEW e \in Ends, NEW slot \in Slots, Discard(e, slot)
        PROVE  AuthInv'
    <3>1. HeldGenuine'
      BY <2>0, <2>2, <2>5 DEF Discard, HeldGenuine, AuthInv, TypeOK
    <3>2. Authentic'
      BY <2>5 DEF Discard, Authentic, AuthInv
    <3> QED
      BY <2>0, <2>h, <3>1, <3>2 DEF AuthInv
  <2>6. CASE UNCHANGED <<held, committed>>
    <3>1. HeldGenuine'
      BY <2>2, <2>6 DEF HeldGenuine, AuthInv
    <3>2. Authentic'
      BY <2>1, <2>6 DEF Authentic, AuthInv
    <3> QED
      BY <2>0, <2>h, <3>1, <3>2 DEF AuthInv
  <2> QED
    BY <2>3, <2>4, <2>5, <2>6 DEF Next, Seal, Rekey, vars
<1> QED
  BY <1>1, <1>2, PTL DEF Spec

\* What an end accepts was sealed for it by its peer, under the keys of the
\* epoch its header names, and is not damaged.
THEOREM AcceptedAuthentic == Spec => []Authentic
<1>1. AuthInv => Authentic
  BY DEF AuthInv
<1> QED
  BY <1>1, AuthInvariant, PTL
-----------------------------------------------------------------------------
(***************************************************************************)
(* Availability: the error paths of open_uncommitted refuse nothing that   *)
(* is intact and in time.                                                  *)
(***************************************************************************)

\* Where the replay and nonce invariants hold, an intact record of the epoch
\* in force that open_uncommitted refuses is late.
LEMMA RefusedIsLate ==
  ASSUME ReplayInv, NonceInv
  PROVE  OnlyLateRefused
<1> SUFFICES ASSUME NEW e \in Ends, NEW r \in wire, NEW now \in Times,
                    ~crossed[e], r.header.destination_id = e,
                    r.header.epoch = keys[e].session.epoch,
                    open_error(e, r, now) # "None"
             PROVE  \/ r.header.deadline_ms # 0 /\ now > r.header.deadline_ms
                    \/ r.header.sequence \in Seen(e)
                    \/ \E s \in Seen(e) : s - r.header.sequence >= Window
  BY DEF OnlyLateRefused
<1> DEFINE ep == keys[e].session.epoch
           h == r.header
<1>0. TypeOK
  BY DEF ReplayInv
<1>1. /\ ep \in Epochs /\ h.source_id \in Ends /\ h.sequence \in Numbers
      /\ h.session_id = SessionValue
  BY <1>0, EpochType DEF TypeOK, Headers
<1>2. /\ h.destination_id = Peer(h.source_id)
      /\ r.cipher = aead_seal(derive_directional_keys(h.source_id, ep).tx,
                              <<SessionValue, XorOp(ep, h.sequence)>>,
                              h, r.cipher.plaintext)
  BY DEF NonceInv, WireRight, Record
<1>3. h.source_id = Peer(e)
  BY <1>1, <1>2, SessionAssumption DEF Peer, Ends
<1>4. /\ keys[e].session.value = SessionValue
      /\ keys[e].local_id = e /\ keys[e].peer_id = Peer(e)
      /\ keys[e].tx = derive_one(IF e = First THEN "NM-TX" ELSE "NM-RX", ep)
      /\ keys[e].rx = derive_one(IF e = First THEN "NM-RX" ELSE "NM-TX", ep)
  BY <1>0, EpochType, DerivedKeys
<1>5. derive_directional_keys(Peer(e), ep).tx = keys[e].rx
  <2>1. Peer(e) \in Ends /\ (Peer(e) = First <=> e # First)
    BY SessionAssumption DEF Peer, Ends
  <2> QED
    BY <1>1, <1>4, <2>1, DerivedKeys
<1>6. aead_opens(keys[e].rx, make_nonce(keys[e].session, h.sequence), h, r.cipher)
  BY <1>2, <1>3, <1>4, <1>5 DEF aead_opens, aead_seal, make_nonce
<1>7. valid_keys(keys[e])
  <2>1. keys[e].tx # keys[e].rx
    <3>1. derive_one("NM-TX", ep)[1] = "NM-TX" /\ derive_one("NM-RX", ep)[1] = "NM-RX"
      BY DEF derive_one
    <3> QED
      BY <1>4, <3>1
  <2>2. ep # 0 /\ SessionValue # 0 /\ e # 0 /\ Peer(e) # 0 /\ e # Peer(e)
    BY <1>1, SessionAssumption DEF Epochs, Ends, Peer
  <2> QED
    BY <1>4, <2>1, <2>2 DEF valid_keys
<1>8. CASE h.deadline_ms # 0 /\ now > h.deadline_ms
  BY <1>8
<1>9. CASE ~accepted(replay[e], h.sequence)
  <2>1. /\ replay[e] \in Windows(Numbers) /\ Seen(e) \in SUBSET Numbers
        /\ Represents(replay[e], Seen(e))
    BY <1>0, SeenType DEF ReplayInv, WindowsRight, Covers, TypeOK
  <2>2. ~(h.sequence \notin Seen(e) /\ \A t \in Seen(e) : t - h.sequence < Window)
    BY <1>1, <1>9, <2>1, AcceptedMeaning
  <2>3. \A t \in Seen(e) : ~(t - h.sequence < Window) => t - h.sequence >= Window
    BY <1>1, <2>1, SessionAssumption, WindowAssumption DEF Numbers
  <2> QED
    BY <2>2, <2>3
<1> QED
  BY <1>1, <1>3, <1>4, <1>6, <1>7, <1>8, <1>9 DEF open_error

\* An intact record of the epoch in force is refused for being late and for
\* nothing else, until the caller rekeys between open and commit.
THEOREM OnlyLateRefusedAlways == Spec => []OnlyLateRefused
BY RefusedIsLate, ReplayInvariant, NonceInvariant, PTL
-----------------------------------------------------------------------------
(***************************************************************************)
(* Refinement: the sessions with their windows implement ReplayFilter.     *)
(***************************************************************************)

\* The bitmap, the high-water mark and their reset at a rekey implement an end
\* that remembers every sequence it has accepted under its present keys.
THEOREM WindowImplementsFilter == Spec => ImplementsFilter
<1> DEFINE S == [e \in Ends |-> IF crossed[e] THEN {} ELSE Seen(e)]
           R == [e \in Ends |-> IF crossed[e] THEN {} ELSE recommitted[e]]
<1>1. Init => Filter!Init
  BY DEF Init, Filter!Init, Seen
<1>2. ASSUME ReplayInv, [Next]_vars
      PROVE  [Filter!Next]_<<S, R>>
  <2>0. TypeOK /\ HeldPast /\ CommittedPast /\ AtMostOnce
    BY <1>2 DEF ReplayInv
  <2>1. ASSUME NEW e \in Ends, NEW slot \in Slots, CommitReplay(e, slot)
        PROVE  [Filter!Next]_<<S, R>>
    <3> DEFINE o == held[e][slot]
    <3>0. crossed' = crossed /\ \A f \in Ends \ {e} : recommitted'[f] = recommitted[f]
      BY <2>0, <2>1 DEF CommitReplay, TypeOK
    <3>r. R' = R
      <4>1. ReplayInv'
        BY <1>2, <2>0, <2>1, TypeStep, CommitKeepsReplay
      <4>2. ~crossed[e] => recommitted[e] = {} /\ recommitted'[e] = {}
        BY <2>0, <3>0, <4>1 DEF ReplayInv, AtMostOnce
      <4> QED
        BY <3>0, <4>2
    <3>1. CASE crossed[e]
      <4>1. S' = S
        BY <2>0, <2>1, <3>0, <3>1, CommitSeen
      <4> QED
        BY <3>r, <4>1
    <3>2. CASE ~crossed[e]
      <4>0. o.header.sequence \in Numbers /\ o.header.epoch = keys[e].session.epoch
        BY <2>0, <2>1, <3>2 DEF CommitReplay, HeldPast, TypeOK, OpenRecords, Headers
      <4>1. PICK s \in Numbers : s = o.header.sequence
        BY <4>0
      <4>2. /\ replay[e] \in Windows(Numbers) /\ Seen(e) \in SUBSET Numbers
            /\ Represents(replay[e], Seen(e)) /\ accepted(replay[e], s)
        BY <1>2, <2>0, <2>1, <3>2, <4>1, SeenType
        DEF ReplayInv, WindowsRight, Covers, TypeOK, CommitReplay, CommitAccepts
      <4>3. s \notin Seen(e) /\ \A t \in Seen(e) : t - s < Window
        BY <4>2, AcceptedMeaning
      <4>4. S' = [S EXCEPT ![e] = @ \cup {s}]
        BY <2>0, <2>1, <3>0, <3>2, <4>0, <4>1, CommitSeen
      <4>5. Filter!Accept(e, s)
        BY <3>r, <3>2, <4>3, <4>4 DEF Filter!Accept, Filter!Fresh
      <4> QED
        BY <4>5 DEF Filter!Next
    <3> QED
      BY <3>1, <3>2
  <2>2. ASSUME NEW e \in Ends, NEW epoch \in Epochs,
               Rekey(e, derive_directional_keys(e, epoch))
        PROVE  Filter!Next
    <3>1. /\ \A f \in Ends \ {e} : crossed'[f] = crossed[f]
          /\ recommitted' = recommitted /\ (~crossed'[e] => ~crossed[e])
      BY <2>0, <2>2 DEF Rekey, TypeOK
    <3>2. S' = [S EXCEPT ![e] = {}]
      BY <2>0, <2>2, <3>1, RekeySeen
    <3>3. R' = R
      BY <2>0, <3>1 DEF AtMostOnce
    <3> QED
      BY <3>2, <3>3 DEF Filter!Next, Filter!Reset
  <2>3. CASE UNCHANGED <<keys, committed, recommitted, crossed>>
    BY <2>3 DEF Seen
  <2> QED
    BY <1>2, <2>1, <2>2, <2>3 DEF Next, Seal, OpenUncommitted, Discard, vars
<1> QED
  BY <1>1, <1>2, ReplayInvariant, PTL DEF Spec, ImplementsFilter, Filter!Spec
=============================================================================
