--------------------------- MODULE PipelineProofs ---------------------------
(***************************************************************************)
(* Theorems about Pipeline, for every width of the windows, all durations, *)
(* any number of faults and any overtaking within the window.              *)
(***************************************************************************)
EXTENDS Pipeline, TLAPS

\* A commit makes its sequence, and those a whole window below it, unacceptable
\* and no other; it never moves the window back.
LEMMA CommitThen ==
  ASSUME NEW w \in Windows(Nat), NEW s \in Nat, accepted(w, s), NEW t \in Nat
  PROVE  /\ commit(w, s) \in Windows(Nat) /\ commit(w, s).initialized
         /\ commit(w, s).high_water >= s
         /\ \/ commit(w, s).high_water = s
            \/ w.initialized /\ commit(w, s).high_water = w.high_water
         /\ w.initialized => commit(w, s).high_water >= w.high_water
         /\ ~accepted(commit(w, s), s)
         /\ t # s => (accepted(commit(w, s), t) <=> accepted(w, t) /\ s - t < Window)
<1> DEFINE c == commit(w, s)
           hw == w.high_water
<1>0. /\ Window \in Nat /\ Window > 0 /\ hw \in Nat /\ w.bitmap \subseteq Bits
      /\ \A d : d \in Bits <=> d \in Int /\ 0 <= d /\ d < Window
  BY WindowAssumption DEF Windows, Bits
<1>1. CASE ~w.initialized
  <2>1. c = [initialized |-> TRUE, high_water |-> s, bitmap |-> {0}]
    BY <1>1 DEF commit
  <2> HIDE DEF c
  <2>2. c \in Windows(Nat) /\ c.initialized /\ c.high_water = s /\ c.bitmap = {0}
    BY <1>0, <2>1 DEF Windows
  <2>3. ~accepted(c, s)
    BY <1>0, <2>2 DEF accepted
  <2>4. t # s => (accepted(c, t) <=> accepted(w, t) /\ s - t < Window)
    BY <1>0, <1>1, <2>2 DEF accepted
  <2> QED
    BY <1>1, <2>2, <2>3, <2>4 DEF c
<1>2. CASE w.initialized /\ s > hw
  <2> DEFINE shift == s - hw
  <2>1. c = [initialized |-> TRUE, high_water |-> s,
             bitmap |-> IF shift >= Window THEN {0}
                        ELSE ShiftLeft(w.bitmap, shift) \cup {0}]
    BY <1>2 DEF commit, Advance
  <2> HIDE DEF c
  <2>2. /\ c.initialized /\ c.high_water = s
        /\ \A d \in Bits : d \in c.bitmap <=>
             d = 0 \/ (shift < Window /\ d - shift \in w.bitmap)
        /\ c.bitmap \subseteq Bits
    BY <1>0, <2>1 DEF ShiftLeft
  <2>3. c \in Windows(Nat)
    <3>1. c = [initialized |-> TRUE, high_water |-> s, bitmap |-> c.bitmap]
      BY <2>1
    <3> QED
      BY <2>2, <3>1 DEF Windows
  <2>4. ~accepted(c, s)
    BY <1>0, <2>2 DEF accepted
  <2>5. ASSUME t # s
        PROVE  accepted(c, t) <=> accepted(w, t) /\ s - t < Window
    <3>1. CASE t > s
      BY <1>0, <1>2, <2>2, <3>1 DEF accepted
    <3>2. CASE t < s /\ s - t >= Window
      BY <1>0, <2>2, <3>2 DEF accepted
    <3>3. CASE t < s /\ s - t < Window
      <4>1. s - t \in Bits /\ s - t # 0 /\ (s - t) - shift = hw - t
        BY <1>0, <3>3
      <4>2. accepted(c, t) <=> s - t \notin c.bitmap
        BY <1>0, <2>2, <3>3 DEF accepted
      <4>3. s - t \in c.bitmap <=> shift < Window /\ hw - t \in w.bitmap
        BY <2>2, <4>1
      <4>4. CASE t > hw
        BY <1>0, <1>2, <3>3, <4>2, <4>3, <4>4 DEF accepted
      <4>5. CASE ~(t > hw)
        BY <1>0, <1>2, <3>3, <4>2, <4>3, <4>5 DEF accepted
      <4> QED
        BY <4>4, <4>5
    <3> QED
      BY <1>0, <2>5, <3>1, <3>2, <3>3
  <2> QED
    BY <1>0, <1>2, <2>2, <2>3, <2>4, <2>5 DEF c
<1>3. CASE w.initialized /\ ~(s > hw)
  <2>1. c = [initialized |-> TRUE, high_water |-> hw, bitmap |-> w.bitmap \cup {hw - s}]
    BY <1>3 DEF commit
  <2>2. hw - s \in Bits
    BY <1>0, <1>3 DEF accepted
  <2> HIDE DEF c
  <2>3. /\ c \in Windows(Nat) /\ c.initialized /\ c.high_water = hw
        /\ c.bitmap = w.bitmap \cup {hw - s}
    BY <1>0, <2>1, <2>2 DEF Windows
  <2>4. ~accepted(c, s)
    BY <1>0, <1>3, <2>3 DEF accepted
  <2>5. t # s => (accepted(c, t) <=> accepted(w, t) /\ s - t < Window)
    BY <1>0, <1>3, <2>3 DEF accepted
  <2> QED
    BY <1>0, <1>3, <2>3, <2>4, <2>5 DEF c
<1> QED
  BY <1>1, <1>2, <1>3

-----------------------------------------------------------------------------
(***************************************************************************)
(* The inductive invariant.                                                *)
(***************************************************************************)

PipeTypes ==
  /\ faults \in Nat
  /\ status = [p \in Processes |-> status[p]]
  /\ duration \in [Processes -> Nat]
  /\ age \in [Processes -> Nat] /\ elapsed \in [Processes -> Nat]
  /\ vehicle = [updates |-> vehicle.updates, polled |-> vehicle.polled,
                messages |-> vehicle.messages, sequence |-> vehicle.sequence]
  /\ vehicle.sequence \in Nat
  /\ proxy \in [egress_sequence : Nat, received_any : BOOLEAN]
  /\ high \in [Receivers -> Int]
  /\ replay \in [Receivers -> Windows(Nat)]
  /\ wire = [p \in Receivers |-> wire[p]]
  /\ \A p \in Receivers : \A r \in wire[p] :
       /\ r = [sequence |-> r.sequence, message |-> r.message, origin |-> r.origin]
       /\ r.sequence \in Nat /\ r.origin \in Nat

\* The sequence that the next record for p is sealed under.
NextSequence(p) == IF p = "proxy" THEN vehicle.sequence ELSE proxy.egress_sequence

\* It is above all that were used, and no two datagrams under way share one.
Counted ==
  \A p \in Receivers :
    /\ high[p] < NextSequence(p)
    /\ replay[p].initialized => replay[p].high_water < NextSequence(p)
    /\ \A r \in wire[p] : r.sequence < NextSequence(p)
    /\ \A r, s \in wire[p] : r.sequence = s.sequence => r = s

\* What the ground station has shown, or may get, the proxy takes no second
\* time; and what it has shown it takes no second time itself.
OnceEach ==
  /\ \A r \in wire["proxy"] : r.origin = r.sequence
  /\ \A p \in Receivers : \A r \in wire[p] : r.origin \in published
  /\ \A r \in wire["gcs"] : ~accepted(replay["proxy"], r.origin)
  /\ \A o \in shown : o \in Nat /\ ~accepted(replay["proxy"], o)
  /\ \A r \in wire["gcs"] : r.origin \in shown => ~accepted(replay["gcs"], r.sequence)
  /\ \A r, s \in wire["gcs"] : r.origin = s.origin => r = s

\* Without faults a datagram under way is a new one for its receiver, unless it
\* has fallen behind by a whole window.
FreshUnderWay ==
  faults = 0 => \A p \in Receivers : \A r \in wire[p] :
    \/ accepted(replay[p], r.sequence)
    \/ replay[p].initialized /\ replay[p].high_water - r.sequence >= Window

\* How the processes end, and what the proxy remembers of what it got.
Endings ==
  /\ faults = 0 =>
       /\ status["vehicle"] \in {"up", "done"}
       /\ \A p \in Receivers : status[p] \in {"up", "done", "Timeout"}
  /\ wire["gcs"] # {} \/ shown # {} => proxy.received_any
  /\ proxy.received_any /\ status["proxy"] = "up" => duration["proxy"] # 0
  /\ status["proxy"] = "Timeout" => ~proxy.received_any

PipeInv ==
  /\ PipeTypes /\ Counted /\ OnceEach /\ FreshUnderWay /\ Endings
  /\ ShownOnce /\ NothingSwallowed

-----------------------------------------------------------------------------
\* The processes start with empty links and new windows.
LEMMA InitPipe == Init => PipeInv
<1> SUFFICES ASSUME Init PROVE PipeInv
  OBVIOUS
<1>1. /\ status = [p \in Processes |-> "up"] /\ duration \in Durations
      /\ age = [p \in Processes |-> 0] /\ elapsed = [p \in Processes |-> 0]
      /\ vehicle = [updates |-> updates(0), polled |-> FALSE, messages |-> <<>>,
                    sequence |-> 0]
      /\ high = [p \in Receivers |-> -1] /\ replay = [p \in Receivers |-> EmptyWindow]
      /\ proxy = [egress_sequence |-> 0, received_any |-> FALSE]
      /\ wire = [p \in Receivers |-> {}] /\ shown = {} /\ faults = 0
      /\ published = {} /\ again = {}
  BY DEF Init
<1>2. duration \in [Processes -> Nat]
  BY <1>1, PipelineAssumption
<1>3. EmptyWindow \in Windows(Nat) /\ ~EmptyWindow.initialized
  BY DEF EmptyWindow, Windows
<1>4. \A p \in Receivers : wire[p] = {}
  BY <1>1
<1>5. PipeTypes
  BY <1>1, <1>2, <1>3, <1>4 DEF PipeTypes
<1>6. Counted
  BY <1>1, <1>3, <1>4 DEF Counted, NextSequence
<1>7. OnceEach /\ FreshUnderWay /\ Endings /\ ShownOnce /\ NothingSwallowed
  BY <1>1, <1>4
     DEF OnceEach, FreshUnderWay, Endings, ShownOnce, NothingSwallowed, Receivers, Processes
<1> QED
  BY <1>5, <1>6, <1>7 DEF PipeInv

\* What a step that moves no record has to leave alone.
Quiet ==
  /\ UNCHANGED <<duration, high, replay, proxy, wire, shown, published, again>>
  /\ vehicle'.sequence = vehicle.sequence

\* Such a step keeps what PipeInv says of the records; faults only add up.
LEMMA QuietPipe ==
  ASSUME PipeInv, Quiet, PipeTypes', Endings', faults' = 0 => faults = 0
  PROVE  PipeInv'
<1>1. /\ duration' = duration /\ high' = high /\ replay' = replay /\ proxy' = proxy
      /\ wire' = wire /\ shown' = shown /\ published' = published /\ again' = again
      /\ \A p \in Receivers : NextSequence(p)' = NextSequence(p)
  BY DEF Quiet, NextSequence
<1>2. Counted'
  BY <1>1 DEF PipeInv, Counted
<1>3. OnceEach'
  BY <1>1 DEF PipeInv, OnceEach
<1>4. FreshUnderWay'
  BY <1>1 DEF PipeInv, FreshUnderWay
<1>5. ShownOnce' /\ NothingSwallowed'
  BY <1>1 DEF PipeInv, ShownOnce, NothingSwallowed
<1> QED
  BY <1>2, <1>3, <1>4, <1>5 DEF PipeInv

\* Time passes.
LEMMA TickStep ==
  ASSUME PipeInv, Tick
  PROVE  PipeInv'
<1>1. /\ age' = [p \in Processes |-> Least(age[p] + 1, duration[p])]
      /\ elapsed' = elapsed /\ faults' = faults /\ status' = status
      /\ vehicle' = vehicle /\ Quiet
  BY DEF Tick, Quiet, history
<1>2. \A p \in Processes : Least(age[p] + 1, duration[p]) \in Nat
  BY DEF PipeInv, PipeTypes, Least
<1>3. PipeTypes'
  BY <1>1, <1>2 DEF PipeInv, PipeTypes, Quiet
<1>4. Endings'
  BY <1>1 DEF PipeInv, Endings, Quiet
<1> QED
  BY <1>1, <1>3, <1>4, QuietPipe

\* The vehicle updates, polls, ends or sleeps.
LEMMA VehicleQuietStep ==
  ASSUME PipeInv, VehicleUpdate \/ VehiclePoll \/ VehicleEnd \/ VehicleSleep
  PROVE  PipeInv'
<1> DEFINE v == vehicle
<1>1. /\ Quiet /\ age' = age /\ faults' = faults
      /\ \/ elapsed' = elapsed
         \/ elapsed' = [elapsed EXCEPT !["vehicle"] = age["vehicle"]]
  BY DEF VehicleUpdate, VehiclePoll, VehicleEnd, VehicleSleep, Quiet, history, clocks,
         Iterate, PipeInv, PipeTypes
<1>2. vehicle' = [updates |-> vehicle'.updates, polled |-> vehicle'.polled,
                  messages |-> vehicle'.messages, sequence |-> vehicle'.sequence]
  BY DEF VehicleUpdate, VehiclePoll, VehicleEnd, VehicleSleep, PipeInv, PipeTypes
<1>3. status' = status \/ status' = [status EXCEPT !["vehicle"] = "done"]
  BY DEF VehicleUpdate, VehiclePoll, VehicleEnd, VehicleSleep, End
<1>4. elapsed' \in [Processes -> Nat]
  BY <1>1 DEF PipeInv, PipeTypes, Processes
<1>5. status' = [p \in Processes |-> status'[p]]
  BY <1>3 DEF PipeInv, PipeTypes
<1>6. PipeTypes'
  BY <1>1, <1>2, <1>4, <1>5 DEF PipeInv, PipeTypes, Quiet
<1>7. /\ status'["vehicle"] \in {status["vehicle"], "done"}
      /\ \A p \in Receivers : status'[p] = status[p]
  BY <1>3 DEF PipeInv, PipeTypes, Receivers, Processes
<1>8. Endings'
  BY <1>1, <1>7 DEF PipeInv, Endings, Quiet, Receivers
<1> QED
  BY <1>1, <1>6, <1>8, QuietPipe

\* A receive that returns nothing: only a process that is to run for no time,
\* and that has therefore got nothing, ends with it.
LEMMA NothingReceivedStep ==
  ASSUME PipeInv, NEW p \in Receivers, Timeout(p) \/ ReceiveFails(p)
  PROVE  PipeInv'
<1>1. /\ Quiet /\ age' = age /\ vehicle' = vehicle /\ faults' \in {faults, faults + 1}
      /\ NothingReceived(p)
  BY DEF Timeout, ReceiveFails, Quiet, history
<1>2. /\ status[p] = "up"
      /\ \/ /\ duration[p] = 0 /\ elapsed' = elapsed
            /\ status' = [status EXCEPT ![p] = "Timeout"]
         \/ elapsed' = elapsed /\ status' = [status EXCEPT ![p] = "done"]
         \/ elapsed' = [elapsed EXCEPT ![p] = age[p]] /\ status' = status
  BY <1>1 DEF NothingReceived, End, Iterate
<1>3. p \in Processes /\ p # "vehicle" /\ "proxy" \in Processes /\ "vehicle" \in Processes
  BY DEF Receivers, Processes
<1>4. elapsed' \in [Processes -> Nat] /\ status' = [x \in Processes |-> status'[x]]
  BY <1>2, <1>3 DEF PipeInv, PipeTypes
<1>5. faults' \in Nat /\ (faults' = 0 => faults = 0)
  BY <1>1 DEF PipeInv, PipeTypes
<1>6. PipeTypes'
  BY <1>1, <1>4, <1>5 DEF PipeInv, PipeTypes, Quiet
<1>7. /\ \A x \in Processes : x # p => status'[x] = status[x]
      /\ \/ status'[p] = "Timeout" /\ duration[p] = 0
         \/ status'[p] = "done"
         \/ status'[p] = status[p]
  BY <1>2, <1>3 DEF PipeInv, PipeTypes
<1>8. Endings'
  BY <1>1, <1>2, <1>3, <1>5, <1>7 DEF PipeInv, Endings, Quiet, Receivers, Processes
<1> QED
  BY <1>1, <1>5, <1>6, <1>8, QuietPipe

\* The vehicle sends: its sequences are never refused, so that the record is
\* under way or the send has failed.
LEMMA VehicleSendStep ==
  ASSUME PipeInv, VehicleSend
  PROVE  PipeInv'
<1> DEFINE n == vehicle.sequence
           r == [sequence |-> n, message |-> Head(vehicle.messages), origin |-> n]
<1>0. PipeTypes /\ Counted /\ OnceEach /\ FreshUnderWay /\ Endings
      /\ ShownOnce /\ NothingSwallowed
  BY DEF PipeInv
<1>1. PICK sent_to \in BOOLEAN :
        /\ vehicle' = [vehicle EXCEPT !.messages = Tail(@), !.sequence = @ + 1]
        /\ Send("proxy", r, sent_to)
        /\ wire' = [wire EXCEPT !["proxy"] = @ \cup Datagrams("proxy", r, sent_to)]
        /\ published' = IF send_result("proxy", r, sent_to) = "up"
                        THEN published \cup {n} ELSE published
        /\ End("vehicle", send_result("proxy", r, sent_to))
        /\ faults' = IF sent_to THEN faults ELSE faults + 1
        /\ UNCHANGED <<publisher, duration, clocks, replay, proxy, shown, again>>
  BY DEF VehicleSend
<1>2. "proxy" \in Receivers /\ "gcs" \in Receivers /\ "vehicle" \in Processes
      /\ "proxy" \in Processes /\ "gcs" \in Processes
  BY DEF Receivers, Processes
<1>3. r.sequence = n /\ r.origin = n /\ n \in Nat /\ n > high["proxy"]
      /\ r = [sequence |-> r.sequence, message |-> r.message, origin |-> r.origin]
  BY <1>0, <1>2 DEF PipeTypes, Counted, NextSequence
<1>4. seal_accepts("proxy", r.sequence)
  BY <1>3 DEF seal_accepts
<1> HIDE DEF r
<1>5. send_result("proxy", r, sent_to) = IF sent_to THEN "up" ELSE "unsent"
  BY <1>4 DEF send_result
<1>6. Datagrams("proxy", r, sent_to) = IF sent_to THEN {r} ELSE {}
  BY <1>5 DEF Datagrams
<1>7. /\ high' = [high EXCEPT !["proxy"] = n]
      /\ status' = [status EXCEPT !["vehicle"] = IF sent_to THEN "up" ELSE "unsent"]
      /\ published' = IF sent_to THEN published \cup {n} ELSE published
      /\ replay' = replay /\ proxy' = proxy /\ shown' = shown /\ again' = again
      /\ duration' = duration /\ age' = age /\ elapsed' = elapsed
      /\ faults' = IF sent_to THEN faults ELSE faults + 1
  BY <1>1, <1>3, <1>4, <1>5 DEF Send, End, clocks
<1>8. /\ vehicle'.sequence = n + 1
      /\ vehicle' = [updates |-> vehicle'.updates, polled |-> vehicle'.polled,
                     messages |-> vehicle'.messages, sequence |-> vehicle'.sequence]
  BY <1>0, <1>1 DEF PipeTypes
<1>9. /\ wire'["gcs"] = wire["gcs"]
      /\ wire'["proxy"] = wire["proxy"] \cup (IF sent_to THEN {r} ELSE {})
      /\ wire' = [p \in Receivers |-> wire'[p]]
  BY <1>0, <1>1, <1>2, <1>6 DEF PipeTypes
<1>10. faults' \in Nat /\ (faults' = 0 => faults = 0 /\ sent_to)
  BY <1>0, <1>7 DEF PipeTypes
<1>11. PipeTypes'
  <2>1. \A p \in Receivers : \A s \in wire'[p] :
          /\ s = [sequence |-> s.sequence, message |-> s.message, origin |-> s.origin]
          /\ s.sequence \in Nat /\ s.origin \in Nat
    BY <1>0, <1>3, <1>9 DEF PipeTypes, Receivers
  <2>2. high' \in [Receivers -> Int] /\ status' = [p \in Processes |-> status'[p]]
    <3>1. high \in [Receivers -> Int] /\ status = [p \in Processes |-> status[p]]
      BY <1>0 DEF PipeTypes
    <3>2. n \in Int
      BY <1>3
    <3> DEFINE why == IF sent_to THEN "up" ELSE "unsent"
    <3>3. status' = [status EXCEPT !["vehicle"] = why]
      BY <1>7
    <3> HIDE DEF n, why
    <3>4. high' \in [Receivers -> Int]
      BY <1>7, <3>1, <3>2
    <3>5. status' = [p \in Processes |-> status'[p]]
      BY <3>1, <3>3
    <3> QED
      BY <3>4, <3>5
  <2>3. vehicle'.sequence \in Nat
    BY <1>3, <1>8
  <2> QED
    BY <1>0, <1>7, <1>8, <1>9, <1>10, <2>1, <2>2, <2>3 DEF PipeTypes
<1>12. /\ NextSequence("proxy") = n /\ NextSequence("proxy")' = n + 1
       /\ NextSequence("gcs")' = NextSequence("gcs")
  BY <1>7, <1>8 DEF NextSequence
<1>13. Counted'
  <2>1. /\ high'["proxy"] = n /\ high'["gcs"] = high["gcs"]
    BY <1>0, <1>2, <1>7 DEF PipeTypes
  <2>2. /\ high'["proxy"] < n + 1
        /\ replay'["proxy"].initialized => replay'["proxy"].high_water < n + 1
        /\ \A s \in wire'["proxy"] : s.sequence < n + 1
        /\ \A s, u \in wire'["proxy"] : s.sequence = u.sequence => s = u
    <3>1. replay["proxy"].initialized => replay["proxy"].high_water < n
      BY <1>0, <1>2, <1>12 DEF Counted
    <3>2. /\ \A s \in wire["proxy"] : s.sequence < n /\ s.sequence \in Nat
          /\ \A s, u \in wire["proxy"] : s.sequence = u.sequence => s = u
      BY <1>0, <1>2, <1>12 DEF Counted, PipeTypes
    <3>3. replay["proxy"].high_water \in Nat
      BY <1>0, <1>2 DEF PipeTypes, Windows
    <3>4. \A s \in wire'["proxy"] : s \in wire["proxy"] \/ s = r
      BY <1>9
    <3> QED
      BY <1>3, <1>7, <2>1, <3>1, <3>2, <3>3, <3>4
  <2>3. /\ high'["gcs"] < NextSequence("gcs")'
        /\ replay'["gcs"].initialized => replay'["gcs"].high_water < NextSequence("gcs")'
        /\ \A s \in wire'["gcs"] : s.sequence < NextSequence("gcs")'
        /\ \A s, u \in wire'["gcs"] : s.sequence = u.sequence => s = u
    BY <1>0, <1>2, <1>7, <1>9, <1>12, <2>1 DEF Counted
  <2> QED
    BY <1>12, <2>2, <2>3 DEF Counted, Receivers
<1>14. OnceEach'
  BY <1>0, <1>2, <1>3, <1>7, <1>9 DEF OnceEach, Receivers
<1>15. FreshUnderWay'
  <2>1. accepted(replay["proxy"], n)
    <3>1. replay["proxy"].initialized => n > replay["proxy"].high_water
      BY <1>0, <1>2, <1>12 DEF Counted
    <3> QED
      BY <3>1 DEF accepted
  <2> QED
    BY <1>0, <1>3, <1>7, <1>9, <1>10, <2>1 DEF FreshUnderWay, Receivers
<1>16. Endings'
  <2>1. /\ status'["vehicle"] = (IF sent_to THEN "up" ELSE "unsent")
        /\ \A p \in Receivers : status'[p] = status[p]
    BY <1>0, <1>2, <1>7 DEF PipeTypes, Receivers
  <2> QED
    BY <1>0, <1>2, <1>7, <1>9, <1>10, <2>1 DEF Endings
<1>17. ShownOnce'
  BY <1>0, <1>7 DEF ShownOnce
<1>18. NothingSwallowed'
  <2> SUFFICES ASSUME faults' = 0, NEW o \in published'
               PROVE  \/ o \in shown
                      \/ \E s \in wire'["proxy"] \cup wire'["gcs"] : o = s.origin
    BY <1>7 DEF NothingSwallowed
  <2>1. o = n \/ o \in published
    BY <1>7
  <2>2. CASE o = n
    BY <1>3, <1>9, <1>10, <2>2
  <2>3. CASE o \in published
    BY <1>0, <1>9, <1>10, <2>3 DEF NothingSwallowed
  <2> QED
    BY <2>1, <2>2, <2>3
<1> QED
  BY <1>11, <1>13, <1>14, <1>15, <1>16, <1>17, <1>18 DEF PipeInv

\* A datagram that a process refuses was repeated or damaged; no other ends one.
LEMMA RefuseStep ==
  ASSUME PipeInv, NEW p \in Receivers, Refuse(p)
  PROVE  PipeInv'
<1>0. PipeTypes /\ Counted /\ OnceEach /\ FreshUnderWay /\ Endings
      /\ ShownOnce /\ NothingSwallowed
  BY DEF PipeInv
<1>1. PICK r \in wire[p], fate \in Fates :
        /\ Arrives(p, r, fate)
        /\ open_error(p, r, fate) # "None"
        /\ wire' = [wire EXCEPT ![p] = Left(p, r, fate)]
        /\ End(p, open_error(p, r, fate))
        /\ faults' = IF fate = "whole" THEN faults ELSE faults + 1
        /\ UNCHANGED <<publisher, duration, clocks, vehicle, high, replay, proxy,
                       shown, history>>
  BY DEF Refuse
<1>2. /\ status' = [status EXCEPT ![p] = open_error(p, r, fate)]
      /\ duration' = duration /\ age' = age /\ elapsed' = elapsed /\ vehicle' = vehicle
      /\ high' = high /\ replay' = replay /\ proxy' = proxy /\ shown' = shown
      /\ published' = published /\ again' = again
      /\ \A x : NextSequence(x)' = NextSequence(x)
  BY <1>1 DEF End, clocks, history, NextSequence
<1>3. "proxy" \in Receivers /\ "gcs" \in Receivers /\ p \in Processes /\ p # "vehicle"
      /\ "proxy" \in Processes /\ "vehicle" \in Processes
  BY DEF Receivers, Processes
<1>4. /\ wire' = [x \in Receivers |-> wire'[x]]
      /\ \A x \in Receivers : wire'[x] \subseteq wire[x]
  BY <1>0, <1>1 DEF PipeTypes, Left
<1>5. faults' # 0
  <2> SUFFICES ASSUME faults' = 0 PROVE FALSE
    OBVIOUS
  <2>1. fate = "whole" /\ faults = 0
    BY <1>0, <1>1 DEF PipeTypes
  <2>2. ~accepted(replay[p], r.sequence)
    BY <1>1, <2>1 DEF open_error
  <2>3. replay[p].initialized /\ replay[p].high_water - r.sequence >= Window
    BY <1>0, <2>1, <2>2 DEF FreshUnderWay
  <2>4. r.sequence + MaxOvertake >= replay[p].high_water
    BY <1>1 DEF Arrives
  <2>5. /\ r.sequence \in Nat /\ replay[p].high_water \in Nat
        /\ Window \in Nat /\ MaxOvertake \in Nat /\ MaxOvertake < Window
    BY <1>0, PipelineAssumption, WindowAssumption DEF PipeTypes, Windows
  <2> QED
    BY <2>3, <2>4, <2>5
<1>6. faults' \in Nat
  BY <1>0, <1>1 DEF PipeTypes
<1>7. status' = [x \in Processes |-> status'[x]]
  BY <1>0, <1>2 DEF PipeTypes
<1>8. PipeTypes'
  BY <1>0, <1>2, <1>4, <1>6, <1>7 DEF PipeTypes
<1>9. Counted'
  BY <1>0, <1>2, <1>4 DEF Counted
<1>10. OnceEach'
  BY <1>0, <1>2, <1>3, <1>4 DEF OnceEach
<1>11. FreshUnderWay' /\ NothingSwallowed'
  BY <1>5 DEF FreshUnderWay, NothingSwallowed
<1>12. Endings'
  <2>1. open_error(p, r, fate) \notin {"up", "Timeout"}
    BY DEF open_error
  <2>2. \/ status'["proxy"] = status["proxy"]
        \/ status'["proxy"] \notin {"up", "Timeout"}
    BY <1>0, <1>2, <1>3, <2>1 DEF PipeTypes
  <2> QED
    BY <1>0, <1>2, <1>3, <1>4, <1>5, <2>2 DEF Endings
<1>13. ShownOnce'
  BY <1>0, <1>2 DEF ShownOnce
<1> QED
  BY <1>8, <1>9, <1>10, <1>11, <1>12, <1>13 DEF PipeInv

\* What a process knows once it has committed a record that it got.
LEMMA Committed ==
  ASSUME PipeInv, NEW p \in Receivers, NEW r \in wire[p],
         accepted(replay[p], r.sequence), NEW w, w = endpoint_commit(replay[p], r)
  PROVE  /\ w \in Windows(Nat) /\ w.initialized /\ w.high_water < NextSequence(p)
         /\ ~accepted(w, r.sequence)
         /\ \A t \in Nat : ~accepted(replay[p], t) => ~accepted(w, t)
         /\ faults = 0 => \A u \in wire[p] : u # r =>
              accepted(w, u.sequence) \/ w.high_water - u.sequence >= Window
<1> DEFINE v == replay[p]
           s == r.sequence
<1>0. PipeTypes /\ Counted /\ FreshUnderWay
  BY DEF PipeInv
<1>1. /\ v \in Windows(Nat) /\ s \in Nat /\ Window \in Nat
      /\ \A u \in wire[p] : u.sequence \in Nat
  BY <1>0, WindowAssumption DEF PipeTypes
<1>2. w = commit(v, s) /\ accepted(v, s)
  BY DEF endpoint_commit
<1> HIDE DEF v, s
<1>3. /\ w \in Windows(Nat) /\ w.initialized /\ w.high_water >= s
      /\ w.high_water = s \/ (v.initialized /\ w.high_water = v.high_water)
      /\ v.initialized => w.high_water >= v.high_water
      /\ ~accepted(w, s)
      /\ \A t \in Nat : t # s => (accepted(w, t) <=> accepted(v, t) /\ s - t < Window)
  BY <1>1, <1>2, CommitThen
<1>4. w.high_water \in Nat /\ v.high_water \in Nat
  BY <1>1, <1>3 DEF Windows
<1>5. w.high_water < NextSequence(p)
  BY <1>0, <1>3 DEF Counted, v, s
<1>6. \A t \in Nat : ~accepted(v, t) => ~accepted(w, t)
  BY <1>3
<1>7. ASSUME faults = 0, NEW u \in wire[p], u # r
      PROVE  accepted(w, u.sequence) \/ w.high_water - u.sequence >= Window
  <2> DEFINE t == u.sequence
  <2>1. t \in Nat /\ t # s
    BY <1>0, <1>1, <1>7 DEF Counted, s
  <2>2. accepted(v, t) \/ (v.initialized /\ v.high_water - t >= Window)
    BY <1>0, <1>7 DEF FreshUnderWay, v
  <2>3. CASE accepted(v, t)
    BY <1>1, <1>3, <1>4, <2>1, <2>3
  <2>4. CASE v.initialized /\ v.high_water - t >= Window
    BY <1>1, <1>3, <1>4, <2>1, <2>4
  <2> QED
    BY <2>2, <2>3, <2>4
<1> QED
  BY <1>3, <1>5, <1>6, <1>7 DEF v, s

\* The ground station shows a record.
LEMMA ShowStep ==
  ASSUME PipeInv, Show
  PROVE  PipeInv'
<1>0. PipeTypes /\ Counted /\ OnceEach /\ FreshUnderWay /\ Endings
      /\ ShownOnce /\ NothingSwallowed
  BY DEF PipeInv
<1>1. PICK r \in wire["gcs"], fate \in Fates \ {"damaged"} :
        /\ open_error("gcs", r, fate) = "None"
        /\ replay' = [replay EXCEPT !["gcs"] = endpoint_commit(@, r)]
        /\ shown' = shown \cup {r.origin}
        /\ again' = IF r.origin \in shown THEN again \cup {r.origin} ELSE again
        /\ wire' = [wire EXCEPT !["gcs"] = Left("gcs", r, fate)]
        /\ faults' = IF fate = "whole" THEN faults ELSE faults + 1
        /\ IF over("gcs") THEN End("gcs", "done") /\ UNCHANGED <<elapsed, waited>>
           ELSE Iterate("gcs") /\ UNCHANGED status
        /\ UNCHANGED <<publisher, duration, age, vehicle, high, proxy,
                       published, sealed>>
  BY DEF Show
<1> DEFINE w == endpoint_commit(replay["gcs"], r)
<1>2. "proxy" \in Receivers /\ "gcs" \in Receivers /\ "gcs" \in Processes
      /\ "proxy" \in Processes /\ "vehicle" \in Processes
  BY DEF Receivers, Processes
<1>3. /\ duration' = duration /\ age' = age /\ vehicle' = vehicle /\ high' = high
      /\ proxy' = proxy /\ published' = published
      /\ \A x : NextSequence(x)' = NextSequence(x)
  BY <1>1 DEF NextSequence
<1>4. /\ elapsed' = elapsed \/ elapsed' = [elapsed EXCEPT !["gcs"] = age["gcs"]]
      /\ status' = status \/ status' = [status EXCEPT !["gcs"] = "done"]
  BY <1>1 DEF End, Iterate
<1>5. accepted(replay["gcs"], r.sequence)
  BY <1>1 DEF open_error
<1>6. /\ w \in Windows(Nat) /\ w.initialized /\ w.high_water < NextSequence("gcs")
      /\ ~accepted(w, r.sequence)
      /\ \A t \in Nat : ~accepted(replay["gcs"], t) => ~accepted(w, t)
      /\ faults = 0 => \A u \in wire["gcs"] : u # r =>
           accepted(w, u.sequence) \/ w.high_water - u.sequence >= Window
  BY <1>2, <1>5, Committed
<1>7. replay' = [replay EXCEPT !["gcs"] = w]
  BY <1>1
<1> HIDE DEF w
<1>8. /\ replay'["gcs"] = w /\ replay'["proxy"] = replay["proxy"]
      /\ replay' \in [Receivers -> Windows(Nat)]
  BY <1>0, <1>2, <1>6, <1>7 DEF PipeTypes
<1>9. /\ wire'["proxy"] = wire["proxy"] /\ wire'["gcs"] = Left("gcs", r, fate)
      /\ wire' = [p \in Receivers |-> wire'[p]]
  BY <1>0, <1>1, <1>2 DEF PipeTypes
<1>10. /\ \A p \in Receivers : wire'[p] \subseteq wire[p]
       /\ faults' = 0 => wire'["gcs"] = wire["gcs"] \ {r}
       /\ faults' \in Nat /\ (faults' = 0 => faults = 0)
  BY <1>0, <1>1, <1>9 DEF PipeTypes, Left, Receivers
<1>11. /\ elapsed' \in [Processes -> Nat] /\ status' = [p \in Processes |-> status'[p]]
       /\ \A p \in Processes : p # "gcs" => status'[p] = status[p]
       /\ status'["gcs"] \in {status["gcs"], "done"}
  BY <1>0, <1>2, <1>4 DEF PipeTypes
<1>12. r.origin \notin shown
  BY <1>0, <1>5 DEF OnceEach
<1>13. PipeTypes'
  BY <1>0, <1>3, <1>8, <1>9, <1>10, <1>11 DEF PipeTypes
<1>14. Counted'
  <2>1. \A p \in Receivers : p = "gcs" \/ replay'[p] = replay[p]
    BY <1>8 DEF Receivers
  <2> QED
    BY <1>0, <1>3, <1>6, <1>8, <1>10, <2>1 DEF Counted
<1>15. OnceEach'
  <2>1. \A u \in wire["gcs"] : u.sequence \in Nat /\ u.origin \in Nat
    BY <1>0, <1>2 DEF PipeTypes
  <2>2. \A u \in wire'["gcs"] : u.origin \in shown' => ~accepted(w, u.sequence)
    <3> SUFFICES ASSUME NEW u \in wire["gcs"], u.origin \in shown \cup {r.origin}
                 PROVE  ~accepted(w, u.sequence)
      BY <1>1, <1>2, <1>10
    <3>1. CASE u.origin = r.origin
      BY <1>0, <1>6, <3>1 DEF OnceEach
    <3>2. CASE u.origin \in shown
      BY <1>0, <1>6, <2>1, <3>2 DEF OnceEach
    <3> QED
      BY <3>1, <3>2
  <2>3. \A o \in shown' : o \in Nat /\ ~accepted(replay'["proxy"], o)
    BY <1>0, <1>1, <1>8, <2>1 DEF OnceEach
  <2> QED
    BY <1>0, <1>2, <1>3, <1>8, <1>10, <2>2, <2>3 DEF OnceEach
<1>16. FreshUnderWay'
  <2> SUFFICES ASSUME faults' = 0, NEW p \in Receivers, NEW u \in wire'[p]
               PROVE  \/ accepted(replay'[p], u.sequence)
                      \/ /\ replay'[p].initialized
                         /\ replay'[p].high_water - u.sequence >= Window
    BY DEF FreshUnderWay
  <2>1. CASE p = "gcs"
    BY <1>6, <1>8, <1>10, <2>1
  <2>2. CASE p # "gcs"
    BY <1>0, <1>8, <1>10, <2>2 DEF FreshUnderWay, Receivers
  <2> QED
    BY <2>1, <2>2
<1>17. Endings'
  <2>1. wire["gcs"] # {}
    OBVIOUS
  <2> QED
    BY <1>0, <1>2, <1>3, <1>10, <1>11, <2>1 DEF Endings, Receivers, Processes
<1>18. ShownOnce'
  BY <1>0, <1>1, <1>2, <1>3, <1>12 DEF ShownOnce, OnceEach
<1>19. NothingSwallowed'
  <2> SUFFICES ASSUME faults' = 0, NEW o \in published
               PROVE  \/ o \in shown \cup {r.origin}
                      \/ \E u \in wire'["proxy"] \cup wire'["gcs"] : o = u.origin
    BY <1>1, <1>3 DEF NothingSwallowed
  <2>1. o \in shown \/ \E u \in wire["proxy"] \cup wire["gcs"] : o = u.origin
    BY <1>0, <1>10 DEF NothingSwallowed
  <2> QED
    BY <1>9, <1>10, <2>1
<1> QED
  BY <1>13, <1>14, <1>15, <1>16, <1>17, <1>18, <1>19 DEF PipeInv

\* The proxy seals a record again: under a new sequence of its own, and for an
\* origin that it has not sealed before.
LEMMA ForwardStep ==
  ASSUME PipeInv, Forward
  PROVE  PipeInv'
<1>0. PipeTypes /\ Counted /\ OnceEach /\ FreshUnderWay /\ Endings
      /\ ShownOnce /\ NothingSwallowed
  BY DEF PipeInv
<1>1. PICK r \in wire["proxy"], fate \in Fates \ {"damaged"}, sent_to \in BOOLEAN :
        LET out    == egress_record(r)
            result == send_result("gcs", out, sent_to)
        IN
        /\ Arrives("proxy", r, fate)
        /\ open_error("proxy", r, fate) = "None"
        /\ replay' = [replay EXCEPT !["proxy"] = endpoint_commit(@, r)]
        /\ proxy' = [egress_sequence |-> proxy.egress_sequence + 1, received_any |-> TRUE]
        /\ Send("gcs", out, sent_to)
        /\ wire' = [wire EXCEPT !["proxy"] = Left("proxy", r, fate),
                                !["gcs"] = @ \cup Datagrams("gcs", out, sent_to)]
        /\ faults' = faults + (IF fate = "whole" THEN 0 ELSE 1) + (IF sent_to THEN 0 ELSE 1)
        /\ IF result # "up" THEN End("proxy", result) /\ UNCHANGED <<elapsed, waited>>
           ELSE IF over("proxy") THEN End("proxy", "done") /\ UNCHANGED <<elapsed, waited>>
           ELSE Iterate("proxy") /\ UNCHANGED status
        /\ UNCHANGED <<publisher, duration, age, vehicle, shown, published, again>>
  BY DEF Forward
<1> DEFINE n == proxy.egress_sequence
           out == egress_record(r)
           w == endpoint_commit(replay["proxy"], r)
<1>2. "proxy" \in Receivers /\ "gcs" \in Receivers /\ "gcs" \in Processes
      /\ "proxy" \in Processes /\ "vehicle" \in Processes
  BY DEF Receivers, Processes
<1>3. /\ r = [sequence |-> r.sequence, message |-> r.message, origin |-> r.origin]
      /\ r.sequence \in Nat /\ r.origin \in Nat /\ r.origin = r.sequence
  BY <1>0, <1>2 DEF PipeTypes, OnceEach
<1>4. out = [sequence |-> n, message |-> r.message, origin |-> r.origin]
  BY <1>3 DEF egress_record
<1>5. /\ n \in Nat /\ n > high["gcs"] /\ NextSequence("gcs") = n
  BY <1>0, <1>2 DEF PipeTypes, Counted, NextSequence
<1> HIDE DEF out
<1>6. /\ out.sequence = n /\ out.origin = r.origin
      /\ out = [sequence |-> out.sequence, message |-> out.message, origin |-> out.origin]
  BY <1>4
<1>7. seal_accepts("gcs", out.sequence)
  BY <1>5, <1>6 DEF seal_accepts
<1>8. send_result("gcs", out, sent_to) = IF sent_to THEN "up" ELSE "unsent"
  BY <1>7 DEF send_result
<1>9. Datagrams("gcs", out, sent_to) = IF sent_to THEN {out} ELSE {}
  BY <1>8 DEF Datagrams
<1>10. /\ high' = [high EXCEPT !["gcs"] = n]
       /\ proxy' = [egress_sequence |-> n + 1, received_any |-> TRUE]
       /\ duration' = duration /\ age' = age /\ vehicle' = vehicle
       /\ shown' = shown /\ published' = published /\ again' = again
       /\ faults' = faults + (IF fate = "whole" THEN 0 ELSE 1) + (IF sent_to THEN 0 ELSE 1)
       /\ replay' = [replay EXCEPT !["proxy"] = w]
  BY <1>1, <1>6, <1>7 DEF Send, out
<1>11. \/ /\ status' = [status EXCEPT !["proxy"] = "unsent"] /\ ~sent_to
          /\ elapsed' = elapsed
       \/ status' = [status EXCEPT !["proxy"] = "done"] /\ elapsed' = elapsed
       \/ /\ status' = status /\ ~over("proxy")
          /\ elapsed' = [elapsed EXCEPT !["proxy"] = age["proxy"]]
  BY <1>1, <1>8 DEF End, Iterate, out
<1>12. accepted(replay["proxy"], r.sequence)
  BY <1>1 DEF open_error
<1>13. /\ w \in Windows(Nat) /\ w.initialized /\ w.high_water < NextSequence("proxy")
       /\ ~accepted(w, r.sequence)
       /\ \A t \in Nat : ~accepted(replay["proxy"], t) => ~accepted(w, t)
       /\ faults = 0 => \A u \in wire["proxy"] : u # r =>
            accepted(w, u.sequence) \/ w.high_water - u.sequence >= Window
  BY <1>2, <1>12, Committed
<1> HIDE DEF w, n
<1>14. /\ replay'["proxy"] = w /\ replay'["gcs"] = replay["gcs"]
       /\ replay' \in [Receivers -> Windows(Nat)]
  BY <1>0, <1>2, <1>10, <1>13 DEF PipeTypes
<1>15. /\ wire'["proxy"] = Left("proxy", r, fate)
       /\ wire'["gcs"] = wire["gcs"] \cup (IF sent_to THEN {out} ELSE {})
       /\ wire' = [p \in Receivers |-> wire'[p]]
  BY <1>0, <1>1, <1>2, <1>9 DEF PipeTypes, out
<1>16. /\ wire'["proxy"] \subseteq wire["proxy"]
       /\ \A u \in wire'["gcs"] : u \in wire["gcs"] \/ u = out
       /\ faults' \in Nat
       /\ faults' = 0 => /\ faults = 0 /\ sent_to
                         /\ wire'["proxy"] = wire["proxy"] \ {r}
                         /\ wire'["gcs"] = wire["gcs"] \cup {out}
  <2>1. faults' \in Nat /\ (faults' = 0 => faults = 0 /\ sent_to /\ fate = "whole")
    BY <1>0, <1>10 DEF PipeTypes
  <2> QED
    BY <1>15, <2>1 DEF Left
<1>17. /\ elapsed' \in [Processes -> Nat] /\ status' = [p \in Processes |-> status'[p]]
       /\ \A p \in Processes : p # "proxy" => status'[p] = status[p]
       /\ \/ status'["proxy"] = "unsent" /\ ~sent_to
          \/ status'["proxy"] = "done"
          \/ status'["proxy"] = status["proxy"] /\ ~over("proxy")
  BY <1>0, <1>2, <1>11 DEF PipeTypes
<1>18. PipeTypes'
  <2>1. \A p \in Receivers : \A u \in wire'[p] :
          /\ u = [sequence |-> u.sequence, message |-> u.message, origin |-> u.origin]
          /\ u.sequence \in Nat /\ u.origin \in Nat
    BY <1>0, <1>3, <1>5, <1>6, <1>16 DEF PipeTypes, Receivers
  <2>2. high' \in [Receivers -> Int]
    <3>1. high \in [Receivers -> Int] /\ n \in Int
      BY <1>0, <1>5 DEF PipeTypes
    <3> QED
      BY <1>10, <3>1
  <2>3. proxy' \in [egress_sequence : Nat, received_any : BOOLEAN]
    BY <1>5, <1>10
  <2> QED
    BY <1>0, <1>10, <1>14, <1>15, <1>16, <1>17, <2>1, <2>2, <2>3 DEF PipeTypes
<1>19. /\ NextSequence("gcs")' = n + 1 /\ NextSequence("proxy")' = NextSequence("proxy")
  BY <1>10 DEF NextSequence
<1>20. Counted'
  <2>1. high'["gcs"] = n /\ high'["proxy"] = high["proxy"]
    BY <1>0, <1>2, <1>10 DEF PipeTypes
  <2>2. /\ high'["gcs"] < n + 1
        /\ replay'["gcs"].initialized => replay'["gcs"].high_water < n + 1
        /\ \A s \in wire'["gcs"] : s.sequence < n + 1
        /\ \A s, u \in wire'["gcs"] : s.sequence = u.sequence => s = u
    <3>1. replay["gcs"].initialized => replay["gcs"].high_water < n
      BY <1>0, <1>2, <1>5 DEF Counted
    <3>2. /\ \A s \in wire["gcs"] : s.sequence < n /\ s.sequence \in Nat
          /\ \A s, u \in wire["gcs"] : s.sequence = u.sequence => s = u
      BY <1>0, <1>2, <1>5 DEF Counted, PipeTypes
    <3>3. replay["gcs"].high_water \in Nat
      BY <1>0, <1>2 DEF PipeTypes, Windows
    <3> QED
      BY <1>5, <1>6, <1>14, <1>16, <2>1, <3>1, <3>2, <3>3
  <2>3. /\ high'["proxy"] < NextSequence("proxy")'
        /\ replay'["proxy"].initialized =>
             replay'["proxy"].high_water < NextSequence("proxy")'
        /\ \A s \in wire'["proxy"] : s.sequence < NextSequence("proxy")'
        /\ \A s, u \in wire'["proxy"] : s.sequence = u.sequence => s = u
    BY <1>0, <1>2, <1>13, <1>14, <1>16, <1>19, <2>1 DEF Counted
  <2> QED
    BY <1>19, <2>2, <2>3 DEF Counted, Receivers
<1>21. /\ r.origin \notin shown
       /\ \A u \in wire["gcs"] : u.origin # r.origin
  BY <1>0, <1>3, <1>12 DEF OnceEach
<1>22. OnceEach'
  <2>1. \A u \in wire["gcs"] : u.origin \in Nat
    BY <1>0, <1>2 DEF PipeTypes
  <2>2. \A p \in Receivers : \A u \in wire'[p] : u.origin \in published
    BY <1>0, <1>2, <1>6, <1>16 DEF OnceEach, Receivers
  <2>3. \A u \in wire'["gcs"] : ~accepted(w, u.origin)
    BY <1>0, <1>3, <1>6, <1>13, <1>16, <2>1 DEF OnceEach
  <2>4. \A o \in shown : o \in Nat /\ ~accepted(w, o)
    BY <1>0, <1>13 DEF OnceEach
  <2>5. \A u \in wire'["gcs"] : u.origin \in shown => ~accepted(replay["gcs"], u.sequence)
    BY <1>0, <1>6, <1>16, <1>21 DEF OnceEach
  <2>6. \A s, u \in wire'["gcs"] : s.origin = u.origin => s = u
    BY <1>0, <1>6, <1>16, <1>21 DEF OnceEach
  <2>7. \A u \in wire'["proxy"] : u.origin = u.sequence
    BY <1>0, <1>16 DEF OnceEach
  <2> QED
    BY <1>10, <1>14, <2>2, <2>3, <2>4, <2>5, <2>6, <2>7 DEF OnceEach
<1>23. FreshUnderWay'
  <2> SUFFICES ASSUME faults' = 0, NEW p \in Receivers, NEW u \in wire'[p]
               PROVE  \/ accepted(replay'[p], u.sequence)
                      \/ /\ replay'[p].initialized
                         /\ replay'[p].high_water - u.sequence >= Window
    BY DEF FreshUnderWay
  <2>1. CASE p = "proxy"
    BY <1>13, <1>14, <1>16, <2>1
  <2>2. CASE p = "gcs" /\ u \in wire["gcs"]
    BY <1>0, <1>2, <1>14, <1>16, <2>2 DEF FreshUnderWay
  <2>3. CASE p = "gcs" /\ u = out
    <3>1. replay["gcs"].initialized => n > replay["gcs"].high_water
      BY <1>0, <1>2, <1>5 DEF Counted
    <3>2. accepted(replay["gcs"], n)
      BY <3>1 DEF accepted
    <3> QED
      BY <1>6, <1>14, <2>3, <3>2
  <2> QED
    BY <1>16, <2>1, <2>2, <2>3 DEF Receivers
<1>24. Endings'
  <2>1. ~over("proxy") => duration["proxy"] # 0
    BY <1>0, <1>2 DEF over, PipeTypes
  <2>2. proxy'.received_any
    BY <1>10
  <2>3. status["proxy"] = "up"
    BY <1>1 DEF Arrives
  <2> QED
    BY <1>0, <1>2, <1>10, <1>16, <1>17, <2>1, <2>2, <2>3 DEF Endings, Receivers, Processes
<1>25. ShownOnce'
  BY <1>0, <1>10 DEF ShownOnce
<1>26. NothingSwallowed'
  <2> SUFFICES ASSUME faults' = 0, NEW o \in published
               PROVE  \/ o \in shown
                      \/ \E u \in wire'["proxy"] \cup wire'["gcs"] : o = u.origin
    BY <1>10 DEF NothingSwallowed
  <2>1. o \in shown \/ \E u \in wire["proxy"] \cup wire["gcs"] : o = u.origin
    BY <1>0, <1>16 DEF NothingSwallowed
  <2> QED
    BY <1>6, <1>16, <2>1
<1> QED
  BY <1>18, <1>20, <1>22, <1>23, <1>24, <1>25, <1>26 DEF PipeInv

\* Every step of the three processes.
LEMMA PipeStep == PipeInv /\ [Next]_vars => PipeInv'
<1> SUFFICES ASSUME PipeInv, [Next]_vars PROVE PipeInv'
  OBVIOUS
<1>1. CASE Tick
  BY <1>1, TickStep
<1>2. CASE VehicleNext
  BY <1>2, VehicleQuietStep, VehicleSendStep DEF VehicleNext
<1>3. ASSUME NEW p \in Receivers, Refuse(p) \/ Timeout(p) \/ ReceiveFails(p)
      PROVE  PipeInv'
  BY <1>3, RefuseStep, NothingReceivedStep
<1>4. CASE Forward \/ Show
  BY <1>4, ForwardStep, ShowStep
<1>5. CASE UNCHANGED vars
  <2>1. /\ Quiet /\ status' = status /\ age' = age /\ elapsed' = elapsed
        /\ faults' = faults /\ vehicle' = vehicle
    BY <1>5 DEF vars, clocks, history, Quiet
  <2>2. PipeTypes' /\ Endings'
    BY <2>1 DEF PipeInv, PipeTypes, Endings, Quiet
  <2> QED
    BY <2>1, <2>2, QuietPipe
<1>6. "proxy" \in Receivers /\ "gcs" \in Receivers
  BY DEF Receivers
<1> QED
  BY <1>1, <1>2, <1>3, <1>4, <1>5, <1>6 DEF Next, ProxyNext, GcsNext

\* The invariant holds in every run.
LEMMA PipeInvariant == Spec => []PipeInv
BY InitPipe, PipeStep, PTL DEF Spec

-----------------------------------------------------------------------------
\* The ground station shows nothing twice and nothing that was not sent, whatever
\* the two links repeat, damage, lose and reorder, for any window.
THEOREM NothingShownTwice == Spec => []ShownOnce
<1>1. PipeInv => ShownOnce
  BY DEF PipeInv
<1> QED
  BY <1>1, PipeInvariant, PTL

\* Overtaking within the window, and loss, end no process.
THEOREM ReorderingHarmless == Spec => []ReorderHarmless
<1>1. PipeInv => ReorderHarmless
  BY DEF PipeInv, Endings, ReorderHarmless, Processes, Receivers
<1> QED
  BY <1>1, PipeInvariant, PTL

\* Without faults nothing that was sent is taken off a link but to be sent on or
\* to be shown.
THEOREM NothingIsSwallowed == Spec => []NothingSwallowed
<1>1. PipeInv => NothingSwallowed
  BY DEF PipeInv
<1> QED
  BY <1>1, PipeInvariant, PTL

\* Without faults a success of the ground station is a success of all: a proxy
\* that has passed something on does not report a timeout.
THEOREM CodesAlwaysAgree == Spec => []CodesAgree
<1>1. PipeInv => CodesAgree
  <2> SUFFICES ASSUME PipeInv, faults = 0, status["gcs"] # "up", exit_code("gcs") = 0,
                      NEW p \in Processes, status[p] # "up"
               PROVE  exit_code(p) = 0
    BY DEF CodesAgree
  <2>1. /\ status["vehicle"] \in {"up", "done"}
        /\ status["proxy"] \in {"up", "done", "Timeout"}
        /\ status["gcs"] \in {"up", "done", "Timeout"}
    BY DEF PipeInv, Endings, Receivers
  <2>2. shown # {}
    BY <2>1 DEF exit_code
  <2>3. proxy.received_any /\ status["proxy"] # "Timeout"
    BY <2>2 DEF PipeInv, Endings
  <2> QED
    BY <2>1, <2>2, <2>3 DEF exit_code, Processes
<1> QED
  BY <1>1, PipeInvariant, PTL
=============================================================================
