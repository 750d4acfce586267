---------------------------- MODULE CodecProofs ----------------------------
(***************************************************************************)
(* Theorems about Codec, for all values of the fields and any change of a  *)
(* byte, and about Px4Probe, for any datagrams, any deadline and any       *)
(* commands that others have sent.                                         *)
(***************************************************************************)
EXTENDS Codec, Px4Probe, SequenceTheorems, WellFoundedInduction, TLAPS

\* The fields of a struct of n bytes are within it, and do not overlap.
Apart(L, n) ==
  /\ \A f \in DOMAIN L :
       L[f][1] \in Nat /\ L[f][2] \in {1, 2, 4, 8} /\ L[f][1] + L[f][2] <= n
  /\ \A f, g \in DOMAIN L :
       f # g => L[f][1] + L[f][2] <= L[g][1] \/ L[g][1] + L[g][2] <= L[f][1]

-----------------------------------------------------------------------------
(***************************************************************************)
(* The layouts.                                                            *)
(***************************************************************************)
LEMMA CommandApart == Apart(CommandLayout, 44)
BY DEF Apart, CommandLayout

LEMMA AckApart == Apart(AckLayout, 16)
BY DEF Apart, AckLayout

LEMMA SubscriptionApart == Apart(SubscriptionLayout, 10)
BY DEF Apart, SubscriptionLayout

LEMMA ResyncApart == Apart(ResyncLayout, 8)
BY DEF Apart, ResyncLayout

LEMMA StateMetaApart == Apart(Meta, 16)
BY DEF Apart, Meta

LEMMA PositionApart == Apart(PositionLayout, 28)
BY DEF Apart, PositionLayout, Both, Meta

LEMMA AttitudeApart == Apart(AttitudeLayout, 28)
BY DEF Apart, AttitudeLayout, Both, Meta

LEMMA BatteryApart == Apart(BatteryLayout, 24)
BY DEF Apart, BatteryLayout, Both, Meta

LEMMA HeartbeatApart == Apart(HeartbeatLayout, 16)
BY DEF Apart, HeartbeatLayout

LEMMA HeaderApart == Apart(HeaderLayout, 40)
BY DEF Apart, HeaderLayout

LEMMA LayoutApart ==
  ASSUME NEW k \in Kinds
  PROVE  Apart(Layout[k], Size[k]) /\ Size[k] \in Nat \ {0}
BY CommandApart, AckApart, SubscriptionApart, ResyncApart, StateMetaApart, PositionApart,
   AttitudeApart, BatteryApart, HeartbeatApart, HeaderApart DEF Kinds, Layout, Size

\* The bytes of an int32.
LEMMA DigitsAre ==
  ASSUME NEW v \in Int
  PROVE  /\ digit(v, 0) = v % 256
         /\ digit(v, 1) = (v \div 256) % 256
         /\ digit(v, 2) = (v \div 65536) % 256
         /\ digit(v, 3) = (v \div 16777216) % 256
BY SMT DEF digit

LEMMA DigitBytes ==
  ASSUME NEW v \in Int, NEW i \in 0 .. 3
  PROVE  digit(v, i) \in Byte
<1>1. digit(v, 0) \in Byte
  BY SMT DEF digit, Byte
<1>2. digit(v, 1) \in Byte
  BY SMT DEF digit, Byte
<1>3. digit(v, 2) \in Byte
  BY SMT DEF digit, Byte
<1>4. digit(v, 3) \in Byte
  BY SMT DEF digit, Byte
<1> QED
  BY <1>1, <1>2, <1>3, <1>4

\* The number whose byte, taken as signed, is x.
signed(x) == IF x < 128 THEN x ELSE x - 256

\* Four bytes of an int32 stand for it.
LEMMA Digits32 ==
  ASSUME NEW v \in Int32
  PROVE  v = digit(v, 0) + 256 * digit(v, 1) + 65536 * digit(v, 2)
               + 16777216 * signed(digit(v, 3))
<1>1. v \in Int /\ -2147483648 <= v /\ v <= 2147483647
  BY SMT DEF Int32
<1>2. PICK y \in Int : y = v \div 16777216 /\ -128 <= y /\ y <= 127
  BY <1>1, SMT
<1>3. signed(y % 256) = y
  BY <1>2, SMT DEF signed
<1>4. digit(v, 3) = y % 256
  BY <1>1, <1>2, SMT DEF digit
<1>5. v = digit(v, 0) + 256 * digit(v, 1) + 65536 * digit(v, 2) + 16777216 * y
  BY <1>1, <1>2, SMT DEF digit
<1> QED
  BY <1>3, <1>4, <1>5, SMT

\* Four bytes are the bytes of the int32 that they stand for.
LEMMA Bytes32 ==
  ASSUME NEW x0 \in Byte, NEW x1 \in Byte, NEW x2 \in Byte, NEW x3 \in Byte,
         NEW v, v = x0 + 256 * x1 + 65536 * x2 + 16777216 * signed(x3)
  PROVE  /\ v \in Int32
         /\ digit(v, 0) = x0 /\ digit(v, 1) = x1
         /\ digit(v, 2) = x2 /\ digit(v, 3) = x3
<1>1. signed(x3) \in Int /\ -128 <= signed(x3) /\ signed(x3) <= 127 /\ signed(x3) % 256 = x3
  BY DEF signed, Byte
<1>2. PICK y \in Int : y = signed(x3) /\ -128 <= y /\ y <= 127
  BY <1>1
<1>3. v \in Int32 /\ v \in Int
  BY <1>2, SMT DEF Int32, Byte
<1>4. PICK q2 \in Int : q2 = x2 + 256 * y
  BY DEF Byte
<1>5. PICK q1 \in Int : q1 = x1 + 256 * q2
  BY <1>4 DEF Byte
<1>6. digit(v, 0) = x0
  <2>1. v = x0 + 256 * q1
    BY <1>2, <1>4, <1>5, SMT DEF Byte
  <2> QED
    BY <2>1, <1>3, SMT DEF digit, Byte
<1>7. digit(v, 1) = x1
  <2>1. v = x0 + 256 * q1
    BY <1>2, <1>4, <1>5, SMT DEF Byte
  <2>2. v \div 256 = q1
    BY <2>1, <1>3, SMT DEF Byte
  <2>3. q1 % 256 = x1
    BY <1>5, SMT DEF Byte
  <2> QED
    BY <2>2, <2>3, <1>3, SMT DEF digit
<1>8. digit(v, 2) = x2
  <2>0. PICK r \in Nat : r = x0 + 256 * x1 /\ r < 65536
    BY SMT DEF Byte
  <2>1. v = r + 65536 * q2
    BY <1>2, <1>4, <2>0, SMT DEF Byte
  <2>2. v \div 65536 = q2
    BY <2>0, <2>1, <1>3, <1>4, SMT
  <2>3. q2 % 256 = x2
    BY <1>4, SMT DEF Byte
  <2> QED
    BY <2>2, <2>3, <1>3, SMT DEF digit
<1>9. digit(v, 3) = x3
  <2>1. v \div 16777216 = y
    BY <1>2, <1>3, SMT DEF Byte
  <2> QED
    BY <1>1, <1>2, <1>3, <2>1, SMT DEF digit
<1> QED
  BY <1>3, <1>6, <1>7, <1>8, <1>9, SMT

\* The numbers of one and two bytes.
LEMMA Digits16 ==
  ASSUME NEW v \in UInt16
  PROVE  digit(v, 0) + 256 * digit(v, 1) = v
BY SMT DEF digit, UInt16

LEMMA Digits8 ==
  ASSUME NEW v \in Byte
  PROVE  digit(v, 0) = v
BY SMT DEF digit, Byte

LEMMA Bytes16 ==
  ASSUME NEW x0 \in Byte, NEW x1 \in Byte, NEW v, v = x0 + 256 * x1
  PROVE  v \in UInt16 /\ digit(v, 0) = x0 /\ digit(v, 1) = x1
<1>1. v \in UInt16 /\ v \in Nat
  BY SMT DEF Byte, UInt16
<1>2. digit(v, 0) = x0
  BY SMT DEF Byte, digit
<1>3. digit(v, 1) = x1
  BY SMT DEF Byte, digit
<1> QED
  BY <1>1, <1>2, <1>3, SMT

\* The int32 at a place of some bytes.
LEMMA Get32 ==
  ASSUME NEW b, NEW p \in Nat
  PROVE  get32(b, p) = b[p + 1] + 256 * b[p + 2] + 65536 * b[p + 3]
                         + 16777216 * signed(b[p + 4])
BY SMT DEF get32, signed

LEMMA Get32Put ==
  ASSUME NEW b, NEW p \in Nat, NEW v \in Int32,
         b[p + 1] = digit(v, 0), b[p + 2] = digit(v, 1),
         b[p + 3] = digit(v, 2), b[p + 4] = digit(v, 3)
  PROVE  get32(b, p) = v
BY Get32, Digits32, SMT

LEMMA Put32Get ==
  ASSUME NEW b, NEW p \in Nat,
         b[p + 1] \in Byte, b[p + 2] \in Byte, b[p + 3] \in Byte, b[p + 4] \in Byte
  PROVE  /\ get32(b, p) \in Int32
         /\ digit(get32(b, p), 0) = b[p + 1] /\ digit(get32(b, p), 1) = b[p + 2]
         /\ digit(get32(b, p), 2) = b[p + 3] /\ digit(get32(b, p), 3) = b[p + 4]
BY Get32, Bytes32, SMT

\* What the four widths mean.
LEMMA Width1 == Word(1) = Byte /\ \A b, p : get(b, p, 1) = b[p + 1]
BY SMT DEF Word, get

LEMMA Width2 == Word(2) = UInt16 /\ \A b, p : get(b, p, 2) = b[p + 1] + 256 * b[p + 2]
BY SMT DEF Word, get

LEMMA Width4 == Word(4) = Int32 /\ \A b, p : get(b, p, 4) = get32(b, p)
BY SMT DEF Word, get

LEMMA Width8 ==
  /\ Word(8) = Int32 \X Int32
  /\ \A b, p : get(b, p, 8) = <<get32(b, p), get32(b, p + 4)>>
BY SMT DEF Word, get

\* The bytes of a field, one by one.
LEMMA PutNarrow ==
  ASSUME NEW v, NEW w \in {1, 2, 4}, NEW i \in Int
  PROVE  put(v, w, i) = digit(v, i)
BY SMT DEF put

\* get gets what put has put there.
LEMMA GetPut ==
  ASSUME NEW w \in {1, 2, 4, 8}, NEW v \in Word(w), NEW b, NEW p \in Nat,
         \A i \in 0 .. w - 1 : b[p + i + 1] = put(v, w, i)
  PROVE  get(b, p, w) = v
<1>1. CASE w = 1
  <2>1. b[p + 1] = put(v, 1, 0)
    BY <1>1, SMT
  <2>2. b[p + 1] = digit(v, 0)
    BY <2>1, PutNarrow, SMT
  <2>3. v \in Byte
    BY <1>1, Width1, SMT
  <2> QED
    BY <1>1, <2>2, <2>3, Digits8, Width1, SMT
<1>2. CASE w = 2
  <2>1. b[p + 1] = put(v, 2, 0) /\ b[p + 2] = put(v, 2, 1)
    BY <1>2, SMT
  <2>2. b[p + 1] = digit(v, 0) /\ b[p + 2] = digit(v, 1)
    BY <2>1, PutNarrow, SMT
  <2>3. v \in UInt16
    BY <1>2, Width2, SMT
  <2> QED
    BY <1>2, <2>2, <2>3, Digits16, Width2, SMT
<1>3. CASE w = 4
  <2>1. /\ b[p + 1] = put(v, 4, 0) /\ b[p + 2] = put(v, 4, 1)
        /\ b[p + 3] = put(v, 4, 2) /\ b[p + 4] = put(v, 4, 3)
    BY <1>3, SMT
  <2>2. /\ b[p + 1] = digit(v, 0) /\ b[p + 2] = digit(v, 1)
        /\ b[p + 3] = digit(v, 2) /\ b[p + 4] = digit(v, 3)
    BY <2>1, PutNarrow, SMT
  <2>3. v \in Int32
    BY <1>3, Width4, SMT
  <2> QED
    BY <1>3, <2>2, <2>3, Get32Put, Width4, SMT
<1>4. CASE w = 8
  <2>1. /\ b[p + 1] = put(v, 8, 0) /\ b[p + 2] = put(v, 8, 1)
        /\ b[p + 3] = put(v, 8, 2) /\ b[p + 4] = put(v, 8, 3)
        /\ b[(p + 4) + 1] = put(v, 8, 4) /\ b[(p + 4) + 2] = put(v, 8, 5)
        /\ b[(p + 4) + 3] = put(v, 8, 6) /\ b[(p + 4) + 4] = put(v, 8, 7)
    BY <1>4, SMT
  <2>2. /\ put(v, 8, 0) = digit(v[1], 0) /\ put(v, 8, 1) = digit(v[1], 1)
        /\ put(v, 8, 2) = digit(v[1], 2) /\ put(v, 8, 3) = digit(v[1], 3)
        /\ put(v, 8, 4) = digit(v[2], 0) /\ put(v, 8, 5) = digit(v[2], 1)
        /\ put(v, 8, 6) = digit(v[2], 2) /\ put(v, 8, 7) = digit(v[2], 3)
    BY SMT DEF put
  <2>3. v[1] \in Int32 /\ v[2] \in Int32 /\ v = <<v[1], v[2]>>
    BY <1>4, Width8, SMT
  <2>4. get32(b, p) = v[1]
    BY <2>1, <2>2, <2>3, Get32Put, SMT
  <2>5. get32(b, p + 4) = v[2] /\ p + 4 \in Nat
    BY <2>1, <2>2, <2>3, Get32Put, SMT
  <2> QED
    BY <1>4, <2>3, <2>4, <2>5, Width8, SMT
<1> QED
  BY <1>1, <1>2, <1>3, <1>4

\* And put puts there what get has got.
LEMMA PutGet ==
  ASSUME NEW w \in {1, 2, 4, 8}, NEW b, NEW p \in Nat,
         \A i \in 0 .. w - 1 : b[p + i + 1] \in Byte
  PROVE  /\ get(b, p, w) \in Word(w)
         /\ \A i \in 0 .. w - 1 : put(get(b, p, w), w, i) = b[p + i + 1]
<1>1. CASE w = 1
  <2>1. b[p + 1] \in Byte
    BY <1>1, SMT
  <2>2. get(b, p, w) = b[p + 1] /\ Word(w) = Byte
    BY <1>1, Width1, SMT
  <2>3. put(b[p + 1], 1, 0) = b[p + 1]
    BY <2>1, Digits8, PutNarrow, SMT
  <2> QED
    BY <1>1, <2>1, <2>2, <2>3, SMT
<1>2. CASE w = 2
  <2>1. b[p + 1] \in Byte /\ b[p + 2] \in Byte
    BY <1>2, SMT
  <2>2. PICK v : v = b[p + 1] + 256 * b[p + 2]
    OBVIOUS
  <2>3. get(b, p, w) = v /\ Word(w) = UInt16
    BY <1>2, <2>2, Width2, SMT
  <2>4. v \in UInt16 /\ digit(v, 0) = b[p + 1] /\ digit(v, 1) = b[p + 2]
    BY <2>1, <2>2, Bytes16, SMT
  <2>5. put(v, 2, 0) = b[p + 1] /\ put(v, 2, 1) = b[p + 2]
    BY <2>4, PutNarrow, SMT
  <2> QED
    BY <1>2, <2>3, <2>4, <2>5, SMT
<1>3. CASE w = 4
  <2>1. b[p + 1] \in Byte /\ b[p + 2] \in Byte /\ b[p + 3] \in Byte /\ b[p + 4] \in Byte
    BY <1>3, SMT
  <2>2. PICK v : v = get32(b, p)
    OBVIOUS
  <2>3. get(b, p, w) = v /\ Word(w) = Int32
    BY <1>3, <2>2, Width4, SMT
  <2>4. /\ v \in Int32 /\ digit(v, 0) = b[p + 1] /\ digit(v, 1) = b[p + 2]
        /\ digit(v, 2) = b[p + 3] /\ digit(v, 3) = b[p + 4]
    BY <2>1, <2>2, Put32Get, SMT
  <2>5. /\ put(v, 4, 0) = b[p + 1] /\ put(v, 4, 1) = b[p + 2]
        /\ put(v, 4, 2) = b[p + 3] /\ put(v, 4, 3) = b[p + 4]
    BY <2>4, PutNarrow, SMT
  <2> QED
    BY <1>3, <2>3, <2>4, <2>5, SMT
<1>4. CASE w = 8
  <2>1. /\ b[p + 1] \in Byte /\ b[p + 2] \in Byte /\ b[p + 3] \in Byte /\ b[p + 4] \in Byte
        /\ b[(p + 4) + 1] \in Byte /\ b[(p + 4) + 2] \in Byte
        /\ b[(p + 4) + 3] \in Byte /\ b[(p + 4) + 4] \in Byte /\ p + 4 \in Nat
    BY <1>4, SMT
  <2>2. PICK v1, v2 : v1 = get32(b, p) /\ v2 = get32(b, p + 4)
    OBVIOUS
  <2>3. get(b, p, w) = <<v1, v2>> /\ Word(w) = Int32 \X Int32
    BY <1>4, <2>2, Width8, SMT
  <2>4. /\ v1 \in Int32 /\ digit(v1, 0) = b[p + 1] /\ digit(v1, 1) = b[p + 2]
        /\ digit(v1, 2) = b[p + 3] /\ digit(v1, 3) = b[p + 4]
    BY <2>1, <2>2, Put32Get, SMT
  <2>5. /\ v2 \in Int32 /\ digit(v2, 0) = b[(p + 4) + 1] /\ digit(v2, 1) = b[(p + 4) + 2]
        /\ digit(v2, 2) = b[(p + 4) + 3] /\ digit(v2, 3) = b[(p + 4) + 4]
    BY <2>1, <2>2, Put32Get, SMT
  <2>6. PICK v : v = <<v1, v2>>
    OBVIOUS
  <2>7. /\ put(v, 8, 0) = b[p + 1] /\ put(v, 8, 1) = b[p + 2]
        /\ put(v, 8, 2) = b[p + 3] /\ put(v, 8, 3) = b[p + 4]
        /\ put(v, 8, 4) = b[p + 5] /\ put(v, 8, 5) = b[p + 6]
        /\ put(v, 8, 6) = b[p + 7] /\ put(v, 8, 7) = b[p + 8]
    <3>1. /\ put(v, 8, 0) = digit(v[1], 0) /\ put(v, 8, 1) = digit(v[1], 1)
          /\ put(v, 8, 2) = digit(v[1], 2) /\ put(v, 8, 3) = digit(v[1], 3)
          /\ put(v, 8, 4) = digit(v[2], 0) /\ put(v, 8, 5) = digit(v[2], 1)
          /\ put(v, 8, 6) = digit(v[2], 2) /\ put(v, 8, 7) = digit(v[2], 3)
      BY SMT DEF put
    <3> QED
      BY <2>4, <2>5, <2>6, <3>1, SMT
  <2>8. v \in Int32 \X Int32
    BY <2>4, <2>5, <2>6, SMT
  <2>9. \A i \in 0 .. 7 : put(v, 8, i) = b[p + i + 1]
    BY <2>7, SMT
  <2> QED
    BY <1>4, <2>3, <2>6, <2>8, <2>9, SMT
<1> QED
  BY <1>1, <1>2, <1>3, <1>4

\* A byte of a field is a byte.
LEMMA PutByte ==
  ASSUME NEW w \in {1, 2, 4, 8}, NEW v \in Word(w), NEW i \in 0 .. w - 1
  PROVE  put(v, w, i) \in Byte
<1>1. CASE w \in {1, 2, 4}
  <2>1. put(v, w, i) = digit(v, i) /\ i \in 0 .. 3
    BY <1>1, PutNarrow, SMT
  <2>2. v \in Int
    BY <1>1, Width1, Width2, Width4, SMT DEF Byte, UInt16, Int32
  <2> QED
    BY <2>1, <2>2, DigitBytes, SMT
<1>2. CASE w = 8
  <2>1. v[1] \in Int /\ v[2] \in Int
    BY <1>2, Width8, SMT DEF Int32
  <2>2. i \div 4 \in {0, 1} /\ i % 4 \in 0 .. 3
    BY <1>2, SMT
  <2>3. put(v, 8, i) = digit(v[1], i % 4) \/ put(v, 8, i) = digit(v[2], i % 4)
    BY <2>2, SMT DEF put
  <2> QED
    BY <1>2, <2>1, <2>2, <2>3, DigitBytes, SMT
<1> QED
  BY <1>1, <1>2

-----------------------------------------------------------------------------
(***************************************************************************)
(* The bytes of a struct.                                                  *)
(***************************************************************************)

\* The values of the fields fit their widths.
IsStruct(k, v) ==
  /\ v = [f \in DOMAIN Layout[k] |-> v[f]]
  /\ \A f \in DOMAIN Layout[k] : v[f] \in Word(width(k, f))

LEMMA FieldPlace ==
  ASSUME NEW k \in Kinds, NEW f \in DOMAIN Layout[k]
  PROVE  /\ offset(k, f) \in Nat /\ width(k, f) \in {1, 2, 4, 8} /\ Size[k] \in Nat
         /\ offset(k, f) + width(k, f) <= Size[k]
BY LayoutApart DEF Apart, offset, width

\* A byte of a field is no other field's.
LEMMA FieldUnique ==
  ASSUME NEW k \in Kinds, NEW f \in DOMAIN Layout[k], NEW i \in 0 .. width(k, f) - 1
  PROVE  FieldsAt(k, offset(k, f) + i) = {f}
<1>1. f \in FieldsAt(k, offset(k, f) + i)
  BY FieldPlace DEF FieldsAt
<1>2. ASSUME NEW g \in FieldsAt(k, offset(k, f) + i)
      PROVE  g = f
  <2>1. /\ g \in DOMAIN Layout[k]
        /\ offset(k, f) + i \in offset(k, g) .. offset(k, g) + width(k, g) - 1
    BY DEF FieldsAt
  <2>2. /\ offset(k, f) \in Nat /\ width(k, f) \in Nat
        /\ offset(k, g) \in Nat /\ width(k, g) \in Nat
    BY <2>1, FieldPlace
  <2>3. g # f => \/ offset(k, f) + width(k, f) <= offset(k, g)
                 \/ offset(k, g) + width(k, g) <= offset(k, f)
    BY <2>1, LayoutApart DEF Apart, offset, width
  <2> QED
    BY <2>1, <2>2, <2>3
<1> QED
  BY <1>1, <1>2

LEMMA WrittenField ==
  ASSUME NEW k \in Kinds, NEW v, NEW f \in DOMAIN Layout[k], NEW i \in 0 .. width(k, f) - 1
  PROVE  /\ offset(k, f) + i + 1 \in 1 .. Size[k]
         /\ written(k, v)[offset(k, f) + i + 1] = put(v[f], width(k, f), i)
<1> DEFINE p == offset(k, f) + i + 1
<1>1. p \in 1 .. Size[k] /\ p - 1 = offset(k, f) + i /\ p - 1 - offset(k, f) = i
  BY FieldPlace
<1>2. FieldsAt(k, p - 1) = {f}
  BY <1>1, FieldUnique
<1>3. (CHOOSE g \in FieldsAt(k, p - 1) : TRUE) = f
  BY <1>2
<1>4. FieldsAt(k, p - 1) # {}
  BY <1>2
<1> HIDE DEF p
<1>5. written(k, v)[p] = put(v[f], width(k, f), p - 1 - offset(k, f))
  BY <1>1, <1>3, <1>4 DEF written
<1> QED
  BY <1>1, <1>5 DEF p

LEMMA WrittenGap ==
  ASSUME NEW k \in Kinds, NEW v, NEW i \in 1 .. Size[k], FieldsAt(k, i - 1) = {}
  PROVE  written(k, v)[i] = 0
BY DEF written

\* A byte is in a gap, or is one of a field.
LEMMA InField ==
  ASSUME NEW k \in Kinds, NEW i \in 1 .. Size[k], FieldsAt(k, i - 1) # {}
  PROVE  \E f \in DOMAIN Layout[k] : \E j \in 0 .. width(k, f) - 1 : i = offset(k, f) + j + 1
<1>1. PICK f \in DOMAIN Layout[k] : i - 1 \in offset(k, f) .. offset(k, f) + width(k, f) - 1
  BY DEF FieldsAt
<1>2. /\ offset(k, f) \in Nat /\ width(k, f) \in Nat /\ i \in Int
  BY FieldPlace
<1>3. i - 1 - offset(k, f) \in 0 .. width(k, f) - 1
      /\ i = offset(k, f) + (i - 1 - offset(k, f)) + 1
  BY <1>1, <1>2
<1> QED
  BY <1>3

\* What is written is bytes.
LEMMA WrittenBytes ==
  ASSUME NEW k \in Kinds, NEW v, IsStruct(k, v)
  PROVE  written(k, v) \in [1 .. Size[k] -> Byte]
<1> SUFFICES ASSUME NEW i \in 1 .. Size[k] PROVE written(k, v)[i] \in Byte
  BY DEF written
<1>1. CASE FieldsAt(k, i - 1) = {}
  BY <1>1, WrittenGap, SMT DEF Byte
<1>2. CASE FieldsAt(k, i - 1) # {}
  <2>1. PICK f \in DOMAIN Layout[k] : \E j \in 0 .. width(k, f) - 1 : i = offset(k, f) + j + 1
    BY <1>2, InField
  <2>2. PICK j \in 0 .. width(k, f) - 1 : i = offset(k, f) + j + 1
    BY <2>1
  <2>3. written(k, v)[i] = put(v[f], width(k, f), j)
    BY <2>2, WrittenField
  <2>4. v[f] \in Word(width(k, f)) /\ width(k, f) \in {1, 2, 4, 8}
    BY FieldPlace DEF IsStruct
  <2> QED
    BY <2>3, <2>4, PutByte
<1> QED
  BY <1>1, <1>2

\* What is written is read again.
LEMMA ReadWritten ==
  ASSUME NEW k \in Kinds, NEW v, IsStruct(k, v)
  PROVE  read(k, written(k, v)) = v
<1>1. ASSUME NEW f \in DOMAIN Layout[k]
      PROVE  get(written(k, v), offset(k, f), width(k, f)) = v[f]
  <2>1. /\ offset(k, f) \in Nat /\ width(k, f) \in {1, 2, 4, 8}
        /\ v[f] \in Word(width(k, f))
    BY FieldPlace DEF IsStruct
  <2>2. \A i \in 0 .. width(k, f) - 1 :
          written(k, v)[offset(k, f) + i + 1] = put(v[f], width(k, f), i)
    BY WrittenField
  <2> QED
    BY <2>1, <2>2, GetPut
<1> QED
  BY <1>1 DEF read, IsStruct

\* What is read is a struct.
LEMMA ReadStruct ==
  ASSUME NEW k \in Kinds, NEW b \in [1 .. Size[k] -> Byte]
  PROVE  /\ IsStruct(k, read(k, b))
         /\ \A f \in DOMAIN Layout[k] : \A i \in 0 .. width(k, f) - 1 :
              put(read(k, b)[f], width(k, f), i) = b[offset(k, f) + i + 1]
<1>1. ASSUME NEW f \in DOMAIN Layout[k]
      PROVE  /\ read(k, b)[f] \in Word(width(k, f))
             /\ \A i \in 0 .. width(k, f) - 1 :
                  put(read(k, b)[f], width(k, f), i) = b[offset(k, f) + i + 1]
  <2>1. offset(k, f) \in Nat /\ width(k, f) \in {1, 2, 4, 8}
    BY FieldPlace
  <2>2. \A i \in 0 .. width(k, f) - 1 : b[offset(k, f) + i + 1] \in Byte
    BY <2>1, FieldPlace
  <2>3. read(k, b)[f] = get(b, offset(k, f), width(k, f))
    BY DEF read
  <2>4. ASSUME NEW p \in Nat, NEW w \in {1, 2, 4, 8},
               \A i \in 0 .. w - 1 : b[p + i + 1] \in Byte
        PROVE  /\ get(b, p, w) \in Word(w)
               /\ \A i \in 0 .. w - 1 : put(get(b, p, w), w, i) = b[p + i + 1]
    BY <2>4, PutGet
  <2> QED
    BY <2>1, <2>2, <2>3, <2>4
<1>2. read(k, b) = [f \in DOMAIN Layout[k] |-> read(k, b)[f]]
  BY DEF read
<1> QED
  BY <1>1, <1>2 DEF IsStruct

\* And is written again, if there are zeros between the fields.
LEMMA WrittenRead ==
  ASSUME NEW k \in Kinds, NEW b \in [1 .. Size[k] -> Byte],
         \A i \in 1 .. Size[k] : FieldsAt(k, i - 1) = {} => b[i] = 0
  PROVE  written(k, read(k, b)) = b
<1>1. ASSUME NEW i \in 1 .. Size[k]
      PROVE  written(k, read(k, b))[i] = b[i]
  <2>1. CASE FieldsAt(k, i - 1) = {}
    BY <2>1, WrittenGap
  <2>2. CASE FieldsAt(k, i - 1) # {}
    <3>1. PICK f \in DOMAIN Layout[k] : \E j \in 0 .. width(k, f) - 1 : i = offset(k, f) + j + 1
      BY <2>2, InField
    <3>2. PICK j \in 0 .. width(k, f) - 1 : i = offset(k, f) + j + 1
      BY <3>1
    <3>3. written(k, read(k, b))[i] = put(read(k, b)[f], width(k, f), j)
      BY <3>2, WrittenField
    <3> QED
      BY <3>2, <3>3, ReadStruct
  <2> QED
    BY <2>1, <2>2
<1>2. IsStruct(k, read(k, b))
  BY ReadStruct
<1>3. written(k, read(k, b)) \in [1 .. Size[k] -> Byte]
  BY <1>2, WrittenBytes
<1>4. /\ written(k, read(k, b)) = [i \in 1 .. Size[k] |-> written(k, read(k, b))[i]]
      /\ b = [i \in 1 .. Size[k] |-> b[i]]
  BY <1>3
<1> QED
  BY <1>1, <1>4

-----------------------------------------------------------------------------
(***************************************************************************)
(* The CRC.                                                                *)
(***************************************************************************)
Bits == 0 .. 15

LEMMA XorKept ==
  ASSUME NEW A \in SUBSET Bits, NEW B \in SUBSET Bits
  PROVE  xor(A, B) \in SUBSET Bits
BY DEF xor

LEMMA XorInjective ==
  ASSUME NEW A, NEW B, NEW C, xor(A, C) = xor(B, C) \/ xor(C, A) = xor(C, B)
  PROVE  A = B
<1> SUFFICES ASSUME NEW x PROVE x \in A <=> x \in B
  OBVIOUS
<1>1. \A X, Y : x \in xor(X, Y) <=> ((x \in X) # (x \in Y))
  BY DEF xor
<1> QED
  BY <1>1

\* The place that falls off comes back at place 0: nothing is lost in a shift.
LEMMA ShiftKept ==
  ASSUME NEW c \in SUBSET Bits
  PROVE  crc_shift(c) \in SUBSET Bits
<1>1. {i + 1 : i \in c \ {15}} \in SUBSET Bits
  BY DEF Bits
<1>2. (IF 15 \in c THEN {0, 5, 12} ELSE {}) \in SUBSET Bits
  BY DEF Bits
<1> QED
  BY <1>1, <1>2, XorKept DEF crc_shift

LEMMA ShiftInjective ==
  ASSUME NEW c \in SUBSET Bits, NEW d \in SUBSET Bits, crc_shift(c) = crc_shift(d)
  PROVE  c = d
<1> DEFINE Up(e) == {i + 1 : i \in e \ {15}}
           Mask(e) == IF 15 \in e THEN {0, 5, 12} ELSE {}
<1>1. ASSUME NEW e \in SUBSET Bits PROVE 0 \in crc_shift(e) <=> 15 \in e
  <2>1. 0 \notin Up(e)
    BY DEF Bits
  <2>2. 0 \in Mask(e) <=> 15 \in e
    OBVIOUS
  <2>3. crc_shift(e) = xor(Up(e), Mask(e))
    BY DEF crc_shift
  <2> HIDE DEF Up, Mask
  <2> QED
    BY <2>1, <2>2, <2>3 DEF xor
<1>2. 15 \in c <=> 15 \in d
  BY <1>1
<1>3. Mask(c) = Mask(d)
  BY <1>2
<1>4. crc_shift(c) = xor(Up(c), Mask(c)) /\ crc_shift(d) = xor(Up(d), Mask(d))
  BY DEF crc_shift
<1>5. Up(c) = Up(d)
  <2> HIDE DEF Up, Mask
  <2>1. xor(Up(c), Mask(c)) = xor(Up(d), Mask(c))
    BY <1>3, <1>4
  <2> QED
    BY <2>1, XorInjective
<1>6. \A e \in SUBSET Bits : \A i \in Bits \ {15} : i \in e <=> i + 1 \in Up(e)
  BY DEF Bits
<1>7. \A i \in Bits \ {15} : i \in c <=> i \in d
  <2> HIDE DEF Up
  <2> QED
    BY <1>5, <1>6
<1>8. \A i \in Bits : i \in c <=> i \in d
  BY <1>2, <1>7
<1> QED
  BY <1>8

\* Nor in the eight of a byte.
LEMMA EightShifts ==
  ASSUME NEW c \in SUBSET Bits, NEW d \in SUBSET Bits
  PROVE  /\ crc_bits[c] \in SUBSET Bits
         /\ crc_bits[c] = crc_bits[d] => c = d
<1> DEFINE two(e) == crc_shift(crc_shift(e))
           four(e) == two(two(e))
<1>1. \A e \in SUBSET Bits : two(e) \in SUBSET Bits
  BY ShiftKept
<1>2. \A e, g \in SUBSET Bits : two(e) = two(g) => e = g
  BY ShiftKept, ShiftInjective
<1>3. \A e \in SUBSET Bits : crc_bits[e] = four(four(e))
  BY DEF crc_bits, Bits
<1> HIDE DEF two
<1>4. \A e \in SUBSET Bits : four(e) \in SUBSET Bits
  BY <1>1
<1>5. \A e, g \in SUBSET Bits : four(e) = four(g) => e = g
  BY <1>1, <1>2
<1> HIDE DEF four
<1> QED
  BY <1>3, <1>4, <1>5

\* The bits of a byte tell it from others.
LEMMA BitsTell ==
  ASSUME NEW x \in Byte, NEW y \in Byte, \A i \in 0 .. 7 : bit(x, i) <=> bit(y, i)
  PROVE  x = y
<1>1. ASSUME NEW z \in Byte
      PROVE  z = (z % 2) + 2 * ((z \div 2) % 2) + 4 * ((z \div 4) % 2) + 8 * ((z \div 8) % 2)
                   + 16 * ((z \div 16) % 2) + 32 * ((z \div 32) % 2)
                   + 64 * ((z \div 64) % 2) + 128 * ((z \div 128) % 2)
  BY SMT DEF Byte
<1>2. /\ x % 2 = y % 2 /\ (x \div 2) % 2 = (y \div 2) % 2
      /\ (x \div 4) % 2 = (y \div 4) % 2 /\ (x \div 8) % 2 = (y \div 8) % 2
  <2>1. /\ (bit(x, 0) <=> bit(y, 0)) /\ (bit(x, 1) <=> bit(y, 1))
        /\ (bit(x, 2) <=> bit(y, 2)) /\ (bit(x, 3) <=> bit(y, 3))
    OBVIOUS
  <2> QED
    BY <2>1, SMT DEF bit, Byte
<1>3. /\ (x \div 16) % 2 = (y \div 16) % 2 /\ (x \div 32) % 2 = (y \div 32) % 2
      /\ (x \div 64) % 2 = (y \div 64) % 2 /\ (x \div 128) % 2 = (y \div 128) % 2
  <2>1. /\ (bit(x, 4) <=> bit(y, 4)) /\ (bit(x, 5) <=> bit(y, 5))
        /\ (bit(x, 6) <=> bit(y, 6)) /\ (bit(x, 7) <=> bit(y, 7))
    OBVIOUS
  <2> QED
    BY <2>1, SMT DEF bit, Byte
<1> QED
  BY <1>1, <1>2, <1>3, SMT

\* A byte changes the CRC to another one for every byte, and for every CRC.
LEMMA ByteKept ==
  ASSUME NEW c \in SUBSET Bits, NEW x
  PROVE  crc_byte(c, x) \in SUBSET Bits
<1>1. {i \in 8 .. 15 : bit(x, i - 8)} \in SUBSET Bits
  BY DEF Bits
<1> QED
  BY <1>1, XorKept, EightShifts DEF crc_byte

LEMMA ByteInjective ==
  ASSUME NEW c \in SUBSET Bits, NEW d \in SUBSET Bits, NEW x, crc_byte(c, x) = crc_byte(d, x)
  PROVE  c = d
<1> DEFINE up == {i \in 8 .. 15 : bit(x, i - 8)}
<1>1. up \in SUBSET Bits
  BY DEF Bits
<1>2. crc_bits[xor(c, up)] = crc_bits[xor(d, up)]
  BY DEF crc_byte
<1> HIDE DEF up
<1>3. xor(c, up) \in SUBSET Bits /\ xor(d, up) \in SUBSET Bits
  BY <1>1, XorKept
<1>4. xor(c, up) = xor(d, up)
  BY <1>2, <1>3, EightShifts
<1> QED
  BY <1>4, XorInjective

LEMMA ByteTells ==
  ASSUME NEW c \in SUBSET Bits, NEW x \in Byte, NEW y \in Byte, crc_byte(c, x) = crc_byte(c, y)
  PROVE  x = y
<1> DEFINE up(z) == {i \in 8 .. 15 : bit(z, i - 8)}
<1>1. up(x) \in SUBSET Bits /\ up(y) \in SUBSET Bits
  BY DEF Bits
<1>2. crc_bits[xor(c, up(x))] = crc_bits[xor(c, up(y))]
  BY DEF crc_byte
<1>3. up(x) = up(y)
  <2> HIDE DEF up
  <2>1. xor(c, up(x)) \in SUBSET Bits /\ xor(c, up(y)) \in SUBSET Bits
    BY <1>1, XorKept
  <2>2. xor(c, up(x)) = xor(c, up(y))
    BY <1>2, <2>1, EightShifts
  <2> QED
    BY <2>2, XorInjective
<1>4. ASSUME NEW i \in 0 .. 7 PROVE bit(x, i) <=> bit(y, i)
  <2>1. i + 8 \in 8 .. 15 /\ (i + 8) - 8 = i
    OBVIOUS
  <2>2. i + 8 \in up(x) <=> bit(x, i)
    BY <2>1
  <2>3. i + 8 \in up(y) <=> bit(y, i)
    BY <2>1
  <2> QED
    BY <1>3, <2>2, <2>3
<1> QED
  BY <1>4, BitsTell

\* The word of a CRC is one of 16 bits, and tells it from others.
LEMMA ByteOf ==
  ASSUME NEW c, NEW p \in Nat
  PROVE  byte_of(c, p) \in Byte
BY SMT DEF byte_of, Byte

LEMMA ByteOfTells ==
  ASSUME NEW c, NEW d, NEW p \in Nat, byte_of(c, p) = byte_of(d, p), NEW i \in 0 .. 7
  PROVE  p + i \in c <=> p + i \in d
<1> DEFINE at(e, j) == IF p + j \in e THEN 1 ELSE 0
<1>1. \A e : byte_of(e, p) = at(e, 0) + 2 * at(e, 1) + 4 * at(e, 2) + 8 * at(e, 3)
               + 16 * at(e, 4) + 32 * at(e, 5) + 64 * at(e, 6) + 128 * at(e, 7)
  BY DEF byte_of
<1>2. \A e, j : at(e, j) \in {0, 1} /\ (at(e, j) = 1 <=> p + j \in e)
  OBVIOUS
<1> HIDE DEF at
<1>3. /\ at(c, 0) = at(d, 0) /\ at(c, 1) = at(d, 1) /\ at(c, 2) = at(d, 2)
      /\ at(c, 3) = at(d, 3) /\ at(c, 4) = at(d, 4) /\ at(c, 5) = at(d, 5)
      /\ at(c, 6) = at(d, 6) /\ at(c, 7) = at(d, 7)
  BY <1>1, <1>2, SMT
<1>4. at(c, i) = at(d, i)
  BY <1>3
<1> QED
  BY <1>2, <1>4

LEMMA WordOf ==
  ASSUME NEW c
  PROVE  word_of(c) \in UInt16
<1>1. byte_of(c, 0) \in Byte /\ byte_of(c, 8) \in Byte
  BY ByteOf
<1> QED
  BY <1>1, SMT DEF word_of, Byte, UInt16

LEMMA WordTells ==
  ASSUME NEW c \in SUBSET Bits, NEW d \in SUBSET Bits, word_of(c) = word_of(d)
  PROVE  c = d
<1>1. /\ byte_of(c, 0) \in Byte /\ byte_of(c, 8) \in Byte
      /\ byte_of(d, 0) \in Byte /\ byte_of(d, 8) \in Byte
  BY ByteOf
<1>2. byte_of(c, 0) = byte_of(d, 0) /\ byte_of(c, 8) = byte_of(d, 8)
  BY <1>1, SMT DEF word_of, Byte
<1>3. \A i \in 0 .. 7 : (0 + i \in c <=> 0 + i \in d) /\ (8 + i \in c <=> 8 + i \in d)
  BY <1>2, ByteOfTells
<1>4. ASSUME NEW i \in Bits PROVE i \in c <=> i \in d
  <2>1. CASE i \in 0 .. 7
    <3>1. 0 + i = i
      BY <2>1
    <3> QED
      BY <1>3, <2>1, <3>1
  <2>2. CASE i \in 8 .. 15
    <3>1. i - 8 \in 0 .. 7 /\ 8 + (i - 8) = i
      BY <2>2
    <3> QED
      BY <1>3, <3>1
  <2> QED
    BY <2>1, <2>2 DEF Bits
<1> QED
  BY <1>4

Less == {p \in Nat \X Nat : p[1] < p[2]}

\* There is no endless descent in the numbers.
LEMMA LessWellFounded == IsWellFoundedOn(Less, Nat)
BY NatLessThanWellFounded DEF Less, OpToRel

\* A set of numbers that is not empty has a least element.
LEMMA Least ==
  ASSUME NEW T, T \subseteq Nat, T # {}
  PROVE  \E i \in T : \A j \in T : i <= j
<1>1. PICK i \in T : \A j \in T : <<j, i>> \notin Less
  BY LessWellFounded, WFMin, Zenon
<1>2. ASSUME NEW j \in T
      PROVE  i <= j
  <2>1. i \in Nat /\ j \in Nat
    OBVIOUS
  <2>2. <<j, i>> \in Nat \X Nat /\ <<j, i>>[1] = j /\ <<j, i>>[2] = i
    BY <2>1
  <2>3. ~(j < i)
    BY <1>1, <2>2 DEF Less
  <2> QED
    BY <2>1, <2>3
<1> QED
  BY <1>2

\* The function that crc16_ccitt looks up, on 0 .. n.
IsCrc(b, f, n) ==
  f = [i \in 0 .. n |-> IF i = 0 THEN 0 .. 15 ELSE crc_byte(f[i - 1], b[i])]

\* There is such a function.
LEMMA CrcExists ==
  ASSUME NEW b, NEW n \in Nat
  PROVE  \E f : IsCrc(b, f, n)
<1> DEFINE Missing == {i \in Nat : ~ \E f : IsCrc(b, f, i)}
<1> SUFFICES ASSUME Missing # {} PROVE FALSE
  OBVIOUS
<1>1. PICK i \in Missing : \A j \in Missing : i <= j
  <2>1. Missing \subseteq Nat
    OBVIOUS
  <2> HIDE DEF Missing
  <2> QED
    BY <2>1, Least
<1>2. CASE i = 0
  <2> DEFINE f == [j \in 0 .. 0 |-> 0 .. 15]
  <2>1. IsCrc(b, f, 0)
    BY DEF IsCrc
  <2> QED
    BY <1>1, <1>2, <2>1
<1>3. CASE i # 0
  <2>1. i \in Nat /\ i - 1 \in Nat /\ i - 1 \notin Missing
    BY <1>1, <1>3
  <2>2. PICK g : IsCrc(b, g, i - 1)
    BY <2>1
  <2> DEFINE f == [j \in 0 .. i |-> IF j = i THEN crc_byte(g[i - 1], b[i]) ELSE g[j]]
  <2>3. ASSUME NEW j \in 0 .. i
        PROVE  f[j] = IF j = 0 THEN 0 .. 15 ELSE crc_byte(f[j - 1], b[j])
    <3>1. CASE j = i
      <4>1. f[i - 1] = g[i - 1] /\ f[i] = crc_byte(g[i - 1], b[i])
        BY <1>3, <2>1
      <4> QED
        BY <1>3, <3>1, <4>1
    <3>2. CASE j # i /\ j = 0
      <4>1. f[j] = g[j] /\ j \in 0 .. i - 1
        BY <2>1, <2>3, <3>2
      <4> QED
        BY <2>2, <3>2, <4>1 DEF IsCrc
    <3>3. CASE j # i /\ j # 0
      <4>1. f[j] = g[j] /\ f[j - 1] = g[j - 1] /\ j \in 0 .. i - 1
        BY <2>1, <2>3, <3>3
      <4>2. g[j] = crc_byte(g[j - 1], b[j])
        BY <2>2, <3>3, <4>1 DEF IsCrc
      <4> QED
        BY <3>3, <4>1, <4>2
    <3> QED
      BY <3>1, <3>2, <3>3
  <2>4. f = [j \in 0 .. i |-> f[j]]
    OBVIOUS
  <2> HIDE DEF f
  <2>5. IsCrc(b, f, i)
    BY <2>3, <2>4 DEF IsCrc
  <2> QED
    BY <1>1, <2>5
<1> QED
  BY <1>2, <1>3

\* So crc16_ccitt is the word of its last value.
LEMMA CrcIs ==
  ASSUME NEW b, NEW n \in Nat
  PROVE  \E f : IsCrc(b, f, n) /\ crc16_ccitt(b, n) = word_of(f[n])
<1> DEFINE crc == CHOOSE f : f = [i \in 0 .. n |->
                                   IF i = 0 THEN 0 .. 15 ELSE crc_byte(f[i - 1], b[i])]
<1>1. IsCrc(b, crc, n)
  BY CrcExists DEF IsCrc
<1>2. crc16_ccitt(b, n) = word_of(crc[n])
  BY DEF crc16_ccitt
<1> QED
  BY <1>1, <1>2

\* The steps of the CRC.
LEMMA CrcSteps ==
  ASSUME NEW b, NEW n \in Nat, NEW f, IsCrc(b, f, n)
  PROVE  /\ f[0] = Bits
         /\ \A i \in 1 .. n : f[i] = crc_byte(f[i - 1], b[i])
         /\ \A i \in 0 .. n : f[i] \in SUBSET Bits
<1>0. \A i \in 0 .. n : f[i] = IF i = 0 THEN 0 .. 15 ELSE crc_byte(f[i - 1], b[i])
  BY DEF IsCrc
<1>1. f[0] = Bits
  BY <1>0 DEF Bits
<1>2. ASSUME NEW i \in 1 .. n PROVE f[i] = crc_byte(f[i - 1], b[i])
  <2>1. i \in 0 .. n /\ i # 0
    OBVIOUS
  <2> QED
    BY <1>0, <2>1
<1> DEFINE Bad == {i \in 0 .. n : f[i] \notin SUBSET Bits}
<1>3. ASSUME Bad # {} PROVE FALSE
  <2>1. Bad \subseteq Nat
    OBVIOUS
  <2>2. PICK i \in Bad : \A j \in Bad : i <= j
    <3> HIDE DEF Bad
    <3> QED
      BY <1>3, <2>1, Least
  <2>3. i # 0
    BY <1>1
  <2>4. i \in 1 .. n /\ i - 1 \in 0 .. n /\ i - 1 \notin Bad
    BY <2>2, <2>3
  <2>5. f[i - 1] \in SUBSET Bits
    BY <2>4
  <2>6. f[i] \in SUBSET Bits
    BY <1>2, <2>4, <2>5, ByteKept
  <2> QED
    BY <2>6
<1> QED
  BY <1>1, <1>2, <1>3

\* The CRC depends on the bytes alone that it is of.
LEMMA CrcAgrees ==
  ASSUME NEW b, NEW c, NEW n \in Nat, \A i \in 1 .. n : b[i] = c[i]
  PROVE  crc16_ccitt(b, n) = crc16_ccitt(c, n)
<1>1. PICK f : IsCrc(b, f, n) /\ crc16_ccitt(b, n) = word_of(f[n])
  BY CrcIs
<1>2. PICK g : IsCrc(c, g, n) /\ crc16_ccitt(c, n) = word_of(g[n])
  BY CrcIs
<1>3. f[0] = g[0] /\ \A i \in 1 .. n : /\ f[i] = crc_byte(f[i - 1], b[i])
                                       /\ g[i] = crc_byte(g[i - 1], c[i])
  BY <1>1, <1>2, CrcSteps
<1> DEFINE Bad == {i \in 0 .. n : f[i] # g[i]}
<1>4. ASSUME Bad # {} PROVE FALSE
  <2>1. Bad \subseteq Nat
    OBVIOUS
  <2>2. PICK i \in Bad : \A j \in Bad : i <= j
    <3> HIDE DEF Bad
    <3> QED
      BY <1>4, <2>1, Least
  <2>3. i \in 1 .. n /\ i - 1 \in 0 .. n /\ i - 1 \notin Bad
    BY <1>3, <2>2
  <2> QED
    BY <1>3, <2>3
<1>5. f[n] = g[n]
  BY <1>4
<1> QED
  BY <1>1, <1>2, <1>5

\* And tells every change of one of them.
LEMMA CrcTells ==
  ASSUME NEW b, NEW c, NEW n \in Nat, NEW j \in 1 .. n,
         b[j] \in Byte, c[j] \in Byte, b[j] # c[j],
         \A i \in 1 .. n : i # j => b[i] = c[i]
  PROVE  crc16_ccitt(b, n) # crc16_ccitt(c, n)
<1>1. PICK f : IsCrc(b, f, n) /\ crc16_ccitt(b, n) = word_of(f[n])
  BY CrcIs
<1>2. PICK g : IsCrc(c, g, n) /\ crc16_ccitt(c, n) = word_of(g[n])
  BY CrcIs
<1>3. f[0] = g[0] /\ \A i \in 1 .. n : /\ f[i] = crc_byte(f[i - 1], b[i])
                                       /\ g[i] = crc_byte(g[i - 1], c[i])
  BY <1>1, <1>2, CrcSteps
<1>4. \A i \in 0 .. n : f[i] \in SUBSET Bits /\ g[i] \in SUBSET Bits
  BY <1>1, <1>2, CrcSteps
<1> DEFINE Bad == {i \in 0 .. n : ~(f[i] = g[i] <=> i < j)}
<1>5. ASSUME Bad # {} PROVE FALSE
  <2>1. Bad \subseteq Nat
    OBVIOUS
  <2>2. PICK i \in Bad : \A k \in Bad : i <= k
    <3> HIDE DEF Bad
    <3> QED
      BY <1>5, <2>1, Least
  <2>3. i \in 1 .. n /\ i - 1 \in 0 .. n /\ i - 1 \notin Bad
    BY <1>3, <2>2
  <2>4. f[i - 1] = g[i - 1] <=> i - 1 < j
    BY <2>3
  <2>5. /\ f[i] = crc_byte(f[i - 1], b[i]) /\ g[i] = crc_byte(g[i - 1], c[i])
        /\ f[i - 1] \in SUBSET Bits /\ g[i - 1] \in SUBSET Bits
    BY <1>3, <1>4, <2>3
  <2>6. CASE i < j
    <3>1. f[i - 1] = g[i - 1] /\ b[i] = c[i]
      BY <2>3, <2>4, <2>6
    <3> QED
      BY <2>2, <2>5, <2>6, <3>1
  <2>7. CASE i = j
    <3>1. f[i - 1] = g[i - 1]
      BY <2>3, <2>4, <2>7
    <3>2. f[i] # g[i]
      BY <2>5, <2>7, <3>1, ByteTells
    <3> QED
      BY <2>2, <2>7, <3>2
  <2>8. CASE i > j
    <3>1. f[i - 1] # g[i - 1] /\ b[i] = c[i]
      BY <2>3, <2>4, <2>8
    <3>2. f[i] # g[i]
      BY <2>5, <3>1, ByteInjective
    <3> QED
      BY <2>2, <2>8, <3>2
  <2> QED
    BY <2>3, <2>6, <2>7, <2>8
<1>6. f[n] # g[n]
  BY <1>5
<1> QED
  BY <1>1, <1>2, <1>4, <1>6, WordTells

-----------------------------------------------------------------------------
(***************************************************************************)
(* Encoding and decoding.                                                  *)
(***************************************************************************)

\* The CRC of a header is of all that comes before it, and zeros come after it.
LEMMA HeaderPlaces ==
  /\ "Header" \in Kinds /\ Size["Header"] = 40 /\ Layout["Header"] = HeaderLayout
  /\ "header_crc16" \in DOMAIN HeaderLayout
  /\ offset("Header", "header_crc16") = 36 /\ width("Header", "header_crc16") = 2
  /\ FieldsAt("Header", 38) = {} /\ FieldsAt("Header", 39) = {}
<1>1. "Header" \in Kinds /\ Size["Header"] = 40 /\ Layout["Header"] = HeaderLayout
  BY DEF Kinds, Layout, Size
<1>2. /\ "header_crc16" \in DOMAIN HeaderLayout
      /\ HeaderLayout["header_crc16"][1] = 36 /\ HeaderLayout["header_crc16"][2] = 2
      /\ \A f \in DOMAIN HeaderLayout : HeaderLayout[f][1] + HeaderLayout[f][2] <= 38
  BY DEF HeaderLayout
<1>3. \A f \in DOMAIN HeaderLayout : HeaderLayout[f][1] \in Nat /\ HeaderLayout[f][2] \in Nat
  BY HeaderApart DEF Apart
<1> QED
  BY <1>1, <1>2, <1>3 DEF offset, width, FieldsAt

\* The header that is written the second time.
WithCrc(v) == [v EXCEPT !.header_crc16 = crc16_ccitt(written("Header", v), 36)]

LEMMA WithCrcStruct ==
  ASSUME NEW v, IsStruct("Header", v)
  PROVE  /\ IsStruct("Header", WithCrc(v))
         /\ WithCrc(v).header_crc16 = crc16_ccitt(written("Header", v), 36)
         /\ \A f \in DOMAIN HeaderLayout \ {"header_crc16"} : WithCrc(v)[f] = v[f]
<1>1. crc16_ccitt(written("Header", v), 36) \in UInt16
  BY CrcIs, WordOf
<1>2. crc16_ccitt(written("Header", v), 36) \in Word(2)
  BY <1>1, Width2, SMT
<1>3. DOMAIN v = DOMAIN HeaderLayout
  BY HeaderPlaces DEF IsStruct
<1>4. /\ DOMAIN WithCrc(v) = DOMAIN HeaderLayout
      /\ WithCrc(v) = [f \in DOMAIN HeaderLayout |-> WithCrc(v)[f]]
      /\ WithCrc(v).header_crc16 = crc16_ccitt(written("Header", v), 36)
      /\ \A f \in DOMAIN HeaderLayout \ {"header_crc16"} : WithCrc(v)[f] = v[f]
  BY <1>3, HeaderPlaces DEF WithCrc
<1>5. ASSUME NEW f \in DOMAIN HeaderLayout PROVE WithCrc(v)[f] \in Word(width("Header", f))
  <2>1. CASE f = "header_crc16"
    BY <1>2, <1>4, <2>1, HeaderPlaces
  <2>2. CASE f # "header_crc16"
    BY <1>4, <2>2, HeaderPlaces DEF IsStruct
  <2> QED
    BY <2>1, <2>2
<1> QED
  BY <1>4, <1>5, HeaderPlaces DEF IsStruct

\* Writing the CRC leaves the bytes that it is of.
LEMMA CrcApart ==
  ASSUME NEW v, IsStruct("Header", v), NEW i \in 1 .. 36
  PROVE  written("Header", WithCrc(v))[i] = written("Header", v)[i]
<1>1. "Header" \in Kinds /\ i \in 1 .. Size["Header"]
  BY HeaderPlaces
<1>2. CASE FieldsAt("Header", i - 1) = {}
  BY <1>1, <1>2, WrittenGap
<1>3. CASE FieldsAt("Header", i - 1) # {}
  <2>1. PICK f \in DOMAIN HeaderLayout :
          \E j \in 0 .. width("Header", f) - 1 : i = offset("Header", f) + j + 1
    BY <1>1, <1>3, InField, HeaderPlaces
  <2>2. PICK j \in 0 .. width("Header", f) - 1 : i = offset("Header", f) + j + 1
    BY <2>1
  <2>3. f # "header_crc16"
    BY <2>2, HeaderPlaces
  <2>4. WithCrc(v)[f] = v[f]
    BY <2>3, WithCrcStruct
  <2>5. \A u : written("Header", u)[i] = put(u[f], width("Header", f), j)
    BY <1>1, <2>2, HeaderPlaces, WrittenField
  <2> QED
    BY <2>4, <2>5
<1> QED
  BY <1>2, <1>3

\* An encoding is the bytes of one struct.
LEMMA EncodeIs ==
  ASSUME NEW k \in Kinds, NEW v, IsStruct(k, v)
  PROVE  LET u == IF k = "Header" THEN WithCrc(v) ELSE v IN
         encode(k, v) = written(k, u) /\ IsStruct(k, u)
BY WithCrcStruct DEF encode, WithCrc

LEMMA EncodeBytes ==
  ASSUME NEW k \in Kinds, NEW v, IsStruct(k, v)
  PROVE  encode(k, v) \in [1 .. Size[k] -> Byte]
BY EncodeIs, WrittenBytes

\* Bytes make a sequence.
LEMMA BytesSeq ==
  ASSUME NEW n \in Nat, NEW b \in [1 .. n -> Byte]
  PROVE  b \in Seq(Byte) /\ Len(b) = n /\ DOMAIN b = 1 .. n
OBVIOUS

\* A struct is not the empty sequence.
LEMMA ReadNotRefused ==
  ASSUME NEW k \in Kinds, NEW b
  PROVE  read(k, b) # Refused
<1>1. DOMAIN Layout[k] # {}
  <2>1. /\ "arg1" \in DOMAIN CommandLayout /\ "status" \in DOMAIN AckLayout
        /\ "type" \in DOMAIN SubscriptionLayout /\ "type" \in DOMAIN ResyncLayout
        /\ "state" \in DOMAIN HeartbeatLayout /\ "type" \in DOMAIN HeaderLayout
    BY DEF CommandLayout, AckLayout, SubscriptionLayout, ResyncLayout, HeartbeatLayout,
           HeaderLayout
  <2>2. /\ "snapshot" \in DOMAIN PositionLayout /\ "snapshot" \in DOMAIN AttitudeLayout
        /\ "snapshot" \in DOMAIN BatteryLayout /\ "snapshot" \in DOMAIN Meta
    BY DEF PositionLayout, AttitudeLayout, BatteryLayout, Both, Meta
  <2> QED
    BY <2>1, <2>2 DEF Kinds, Layout
<1>2. DOMAIN read(k, b) = DOMAIN Layout[k] /\ DOMAIN Refused = {}
  BY DEF read, Refused
<1> QED
  BY <1>1, <1>2

\* What an encoder takes is read back from its bytes, and is refused if the
\* decoder asks more.
LEMMA DecodeAsks ==
  ASSUME NEW k \in Kinds, NEW v, IsStruct(k, v), ~decoder_asks(k, v)
  PROVE  decode(k, encode(k, v)) = Refused
<1>1. k # "Header"
  BY DEF decoder_asks
<1>2. read(k, encode(k, v)) = v
  BY <1>1, EncodeIs, ReadWritten
<1> QED
  BY <1>2 DEF decode

\* What an encoder takes comes back from the decoder that asks no more.
LEMMA DecodeEncode ==
  ASSUME NEW k \in Kinds, NEW v, IsStruct(k, v), valid(k, v), decoder_asks(k, v)
  PROVE  /\ decode(k, encode(k, v)) # Refused
         /\ \A f \in DOMAIN v \ {"header_crc16"} : decode(k, encode(k, v))[f] = v[f]
<1> DEFINE u == IF k = "Header" THEN WithCrc(v) ELSE v
           b == encode(k, v)
<1>1. b = written(k, u) /\ IsStruct(k, u)
  BY EncodeIs
<1>2. b \in [1 .. Size[k] -> Byte] /\ Size[k] \in Nat
  BY EncodeBytes, LayoutApart
<1>3. Len(b) = Size[k]
  BY <1>2, BytesSeq
<1> HIDE DEF b
<1>4. read(k, b) = u
  BY <1>1, ReadWritten
<1>5. \A i \in 1 .. Size[k] : FieldsAt(k, i - 1) = {} => b[i] = 0
  BY <1>1, WrittenGap
<1>6. valid(k, u)
  <2>1. CASE k = "Header"
    BY <2>1 DEF valid
  <2>2. CASE k # "Header"
    BY <2>2
  <2> QED
    BY <2>1, <2>2
<1>7. decoder_asks(k, u)
  BY DEF decoder_asks
<1>8. k = "Header" => crc16_ccitt(b, 36) = read(k, b).header_crc16
  <2> SUFFICES ASSUME k = "Header"
               PROVE  crc16_ccitt(b, 36) = u.header_crc16
    BY <1>4
  <2>1. crc16_ccitt(written("Header", v), 36) = crc16_ccitt(b, 36)
    BY <1>1, CrcApart, CrcAgrees
  <2> QED
    BY <2>1, WithCrcStruct
<1>9. decode(k, b) = u
  BY <1>3, <1>4, <1>5, <1>6, <1>7, <1>8 DEF decode
<1>10. decode(k, b) # Refused
  BY <1>4, <1>9, ReadNotRefused
<1>11. \A f \in DOMAIN v \ {"header_crc16"} : u[f] = v[f]
  <2>1. CASE k = "Header"
    BY <2>1, WithCrcStruct, HeaderPlaces DEF IsStruct
  <2>2. CASE k # "Header"
    BY <2>2
  <2> QED
    BY <2>1, <2>2
<1> QED
  BY <1>9, <1>10, <1>11 DEF b

\* What a decoder takes is the encoding of what it returns.
LEMMA EncodeDecode ==
  ASSUME NEW k \in Kinds, NEW b \in Seq(Byte), decode(k, b) # Refused
  PROVE  valid(k, decode(k, b)) /\ encode(k, decode(k, b)) = b
<1>1. /\ Len(b) = Size[k] /\ decode(k, b) = read(k, b) /\ valid(k, read(k, b))
      /\ \A i \in 1 .. Size[k] : FieldsAt(k, i - 1) = {} => b[i] = 0
      /\ k = "Header" => crc16_ccitt(b, 36) = read(k, b).header_crc16
  BY DEF decode
<1>2. b \in [1 .. Size[k] -> Byte]
  BY <1>1
<1>3. written(k, read(k, b)) = b
  BY <1>1, <1>2, WrittenRead
<1>4. CASE k # "Header"
  BY <1>1, <1>3, <1>4 DEF encode
<1>5. CASE k = "Header"
  <2>1. WithCrc(read(k, b)) = read(k, b)
    <3>1. DOMAIN read(k, b) = DOMAIN HeaderLayout
      BY <1>5, HeaderPlaces DEF read
    <3>2. [read(k, b) EXCEPT !.header_crc16 = read(k, b).header_crc16] = read(k, b)
      BY <3>1 DEF read
    <3> QED
      BY <1>1, <1>3, <1>5, <3>2 DEF WithCrc
  <2> QED
    BY <1>1, <1>3, <1>5, <2>1 DEF encode, WithCrc
<1> QED
  BY <1>1, <1>4, <1>5

\* The CRC of a header is at its place.
LEMMA HeaderCrc ==
  ASSUME NEW c
  PROVE  read("Header", c).header_crc16 = c[37] + 256 * c[38]
<1>1. read("Header", c).header_crc16 = get(c, 36, 2)
  BY HeaderPlaces DEF read
<1> QED
  BY <1>1, Width2

\* The CRC of a header tells a change of a byte that it is of, and no other.
LEMMA HeaderCrcTells ==
  ASSUME NEW b, NEW c, NEW i \in 1 .. 36, b[i] \in Byte, c[i] \in Byte, b[i] # c[i],
         \A j \in 1 .. 36 : j # i => b[j] = c[j]
  PROVE  crc16_ccitt(b, 36) # crc16_ccitt(c, 36)
<1>1. 36 \in Nat
  OBVIOUS
<1> QED
  BY <1>1, CrcTells, Zenon

LEMMA HeaderCrcAgrees ==
  ASSUME NEW b, NEW c, \A i \in 1 .. 36 : b[i] = c[i]
  PROVE  crc16_ccitt(b, 36) = crc16_ccitt(c, 36)
<1>1. 36 \in Nat
  OBVIOUS
<1> QED
  BY <1>1, CrcAgrees, Zenon

\* A change of one byte of a header is told by its CRC, or by the zeros.
LEMMA HeaderChange ==
  ASSUME NEW e \in [1 .. 40 -> Byte], NEW b \in [1 .. 40 -> Byte], NEW i \in 1 .. 40,
         b[i] # e[i], \A j \in 1 .. 40 : j # i => b[j] = e[j],
         crc16_ccitt(e, 36) = read("Header", e).header_crc16, e[39] = 0, e[40] = 0
  PROVE  decode("Header", b) = Refused
<1>1. b[i] \in Byte /\ e[i] \in Byte
  OBVIOUS
<1>2. CASE i \in 1 .. 36
  <2>1. \A j \in 1 .. 36 : j # i => b[j] = e[j]
    OBVIOUS
  <2>2. crc16_ccitt(b, 36) # crc16_ccitt(e, 36)
    BY <1>1, <1>2, <2>1, HeaderCrcTells, Zenon
  <2>3. b[37] = e[37] /\ b[38] = e[38]
    BY <1>2
  <2>4. /\ read("Header", b).header_crc16 = b[37] + 256 * b[38]
        /\ read("Header", e).header_crc16 = e[37] + 256 * e[38]
    BY HeaderCrc
  <2>5. crc16_ccitt(b, 36) # read("Header", b).header_crc16
    BY <2>2, <2>3, <2>4
  <2> QED
    BY <2>5 DEF decode
<1>3. CASE i \in {37, 38}
  <2>1. \A j \in 1 .. 36 : b[j] = e[j]
    BY <1>3
  <2>2. crc16_ccitt(b, 36) = crc16_ccitt(e, 36)
    BY <2>1, HeaderCrcAgrees
  <2>3. b[37] + 256 * b[38] # e[37] + 256 * e[38]
    <3>1. b[37] \in Byte /\ b[38] \in Byte /\ e[37] \in Byte /\ e[38] \in Byte
      OBVIOUS
    <3>2. (b[37] # e[37] /\ b[38] = e[38]) \/ (b[37] = e[37] /\ b[38] # e[38])
      BY <1>3
    <3> QED
      BY <3>1, <3>2, SMT DEF Byte
  <2>4. /\ read("Header", b).header_crc16 = b[37] + 256 * b[38]
        /\ read("Header", e).header_crc16 = e[37] + 256 * e[38]
    BY HeaderCrc
  <2>5. crc16_ccitt(b, 36) # read("Header", b).header_crc16
    BY <2>2, <2>3, <2>4
  <2> QED
    BY <2>5 DEF decode
<1>4. CASE i \in {39, 40}
  <2>1. i \in 1 .. Size["Header"] /\ FieldsAt("Header", i - 1) = {}
    BY <1>4, HeaderPlaces
  <2>2. b[i] # 0
    BY <1>4
  <2> QED
    BY <2>1, <2>2 DEF decode
<1> QED
  BY <1>2, <1>3, <1>4

\* The encoding of a header has its CRC and its zeros.
LEMMA HeaderEncoded ==
  ASSUME NEW v, IsStruct("Header", v), NEW e, e = encode("Header", v)
  PROVE  /\ e \in [1 .. 40 -> Byte]
         /\ crc16_ccitt(e, 36) = read("Header", e).header_crc16 /\ e[39] = 0 /\ e[40] = 0
<1>1. e = written("Header", WithCrc(v)) /\ IsStruct("Header", WithCrc(v))
  BY EncodeIs, HeaderPlaces
<1>2. e \in [1 .. 40 -> Byte]
  BY EncodeBytes, HeaderPlaces
<1>3. \A i \in 1 .. 36 : e[i] = written("Header", v)[i]
  BY <1>1, CrcApart
<1>4. crc16_ccitt(e, 36) = crc16_ccitt(written("Header", v), 36)
  BY <1>3, HeaderCrcAgrees
<1>5. read("Header", e) = WithCrc(v)
  BY <1>1, ReadWritten, HeaderPlaces
<1>6. e[39] = 0 /\ e[40] = 0
  <2>1. 39 \in 1 .. Size["Header"] /\ 40 \in 1 .. Size["Header"]
    BY HeaderPlaces
  <2>2. FieldsAt("Header", 39 - 1) = {} /\ FieldsAt("Header", 40 - 1) = {}
    BY HeaderPlaces
  <2> QED
    BY <1>1, <2>1, <2>2, HeaderPlaces, WrittenGap
<1> QED
  BY <1>2, <1>4, <1>5, <1>6, WithCrcStruct
-----------------------------------------------------------------------------
(***************************************************************************)
(* The invariant of the codec.                                             *)
(***************************************************************************)

\* The struct is one that a caller can have filled in.
StructInv ==
  /\ kind \in Kinds /\ IsStruct(kind, value)
  /\ phase \in {"filling", "refused", "sent", "decoded"}
  /\ phase = "filling" /\ changes = 0 /\ ~adapted => value = Plain(kind)

\* The adapter fills in what is left of a plain struct, and no caller after it.
AdaptedInv ==
  /\ phase = "refused" => ~valid(kind, value)
  /\ adapted => /\ changes >= MaxChanges
                /\ kind \in {"Battery", "Attitude", "Position"} /\ valid_meta(value)
                /\ kind = "Battery" => value.remaining_permille <= 1000 /\ value.reserved2 = 0

\* What arrives is what was sent, or it without its last byte, or with another one.
Arrives(b, e, n) ==
  \/ b = e
  \/ b \in Seq(Byte) /\ Len(b) # n
  \/ /\ b \in [1 .. n -> Byte]
     /\ \E i \in 1 .. n : b[i] # e[i] /\ \A j \in 1 .. n : j # i => b[j] = e[j]

SentInv ==
  phase \in {"sent", "decoded"} =>
    /\ valid(kind, value)
    /\ encoded = encode(kind, value)
    /\ Arrives(bytes, encoded, Size[kind])
    /\ phase = "decoded" => result = decode(kind, bytes)

CodecInv == StructInv /\ changes \in Nat /\ AdaptedInv /\ SentInv

\* What starts as 0 or as a type is narrow.
LEMMA NarrowFields ==
  ASSUME NEW k \in Kinds, NEW f \in DOMAIN Layout[k],
         f \in {"snapshot", "reserved", "reserved2", "arg_count", "type"}
  PROVE  width(k, f) # 8
<1> DEFINE Narrow(L) ==
      \A g \in DOMAIN L :
        g \in {"snapshot", "reserved", "reserved2", "arg_count", "type"} => L[g][2] # 8
<1>1. Narrow(CommandLayout) /\ Narrow(AckLayout) /\ Narrow(SubscriptionLayout)
  BY DEF CommandLayout, AckLayout, SubscriptionLayout
<1>2. Narrow(ResyncLayout) /\ Narrow(HeartbeatLayout) /\ Narrow(HeaderLayout)
  BY DEF ResyncLayout, HeartbeatLayout, HeaderLayout
<1>3. Narrow(PositionLayout) /\ Narrow(AttitudeLayout) /\ Narrow(BatteryLayout) /\ Narrow(Meta)
  BY DEF PositionLayout, AttitudeLayout, BatteryLayout, Both, Meta
<1> HIDE DEF Narrow
<1>4. Narrow(Layout[k])
  BY <1>1, <1>2, <1>3 DEF Kinds, Layout
<1> QED
  BY <1>4 DEF width, Narrow

LEMMA SmallWords ==
  /\ \A w \in {1, 2, 4} : {0, 1, 20} \subseteq Word(w)
  /\ <<1, 0>> \in Word(8)
BY Width1, Width2, Width4, Width8, SMT DEF Byte, UInt16, Int32

LEMMA OneWord ==
  ASSUME NEW w \in {1, 2, 4, 8}
  PROVE  One(w) \in Word(w)
<1>1. CASE w = 8
  <2>1. One(8) = <<1, 0>>
    BY DEF One
  <2> QED
    BY <1>1, <2>1, SmallWords, Zenon
<1>2. CASE w \in {1, 2, 4}
  <2>1. One(w) = 1
    BY <1>2 DEF One
  <2> QED
    BY <1>2, <2>1, SmallWords, Zenon
<1> QED
  BY <1>1, <1>2

\* The struct that a caller starts from is one.
LEMMA PlainStruct ==
  ASSUME NEW k \in Kinds
  PROVE  IsStruct(k, Plain(k))
<1>1. ASSUME NEW f \in DOMAIN Layout[k] PROVE PlainField(k, f) \in Word(width(k, f))
  <2>1. width(k, f) \in {1, 2, 4, 8}
    BY FieldPlace
  <2>2. CASE f \in {"snapshot", "reserved", "reserved2", "arg_count"}
    <3>1. PlainField(k, f) = 0 /\ width(k, f) \in {1, 2, 4}
      BY <2>1, <2>2, NarrowFields DEF PlainField
    <3> QED
      BY <3>1, SmallWords, Zenon
  <2>3. CASE f = "type"
    <3>1. PlainField(k, f) = 20 /\ width(k, f) \in {1, 2, 4}
      BY <2>1, <2>3, NarrowFields DEF PlainField, TypeCode
    <3> QED
      BY <3>1, SmallWords, Zenon
  <2>4. CASE f \notin {"snapshot", "reserved", "reserved2", "arg_count", "type"}
    <3>1. PlainField(k, f) = One(width(k, f))
      BY <2>4 DEF PlainField
    <3> QED
      BY <2>1, <3>1, OneWord
  <2> QED
    BY <2>2, <2>3, <2>4
<1> QED
  BY <1>1 DEF IsStruct, Plain

\* A field may be set to any value of its width.
LEMMA SetField ==
  ASSUME NEW k \in Kinds, NEW v, IsStruct(k, v),
         NEW f \in DOMAIN Layout[k], NEW x \in Word(width(k, f))
  PROVE  /\ IsStruct(k, [v EXCEPT ![f] = x])
         /\ \A g \in DOMAIN Layout[k] :
              [v EXCEPT ![f] = x][g] = IF g = f THEN x ELSE v[g]
<1>1. DOMAIN v = DOMAIN Layout[k]
  BY DEF IsStruct
<1> QED
  BY <1>1 DEF IsStruct

\* The fields of the kinds that the adapter fills in.
LEMMA MetaFields ==
  ASSUME NEW k \in {"Battery", "Attitude", "Position"}
  PROVE  /\ k \in Kinds /\ DOMAIN Meta \subseteq DOMAIN Layout[k]
         /\ width(k, "resource_id") = 4 /\ width(k, "generation") = 4
         /\ width(k, "source_id") = 2
<1>1. CASE k = "Battery"
  BY <1>1 DEF Kinds, Layout, BatteryLayout, Both, Meta, width
<1>2. CASE k = "Attitude"
  BY <1>2 DEF Kinds, Layout, AttitudeLayout, Both, Meta, width
<1>3. CASE k = "Position"
  BY <1>3 DEF Kinds, Layout, PositionLayout, Both, Meta, width
<1> QED
  BY <1>1, <1>2, <1>3

\* Setting what is not of the meta leaves it valid.
LEMMA MetaKept ==
  ASSUME NEW v, NEW u, valid_meta(v), \A f \in DOMAIN Meta : u[f] = v[f]
  PROVE  valid_meta(u)
BY DEF valid_meta, identified, flags_plain, Meta

LEMMA PlainMeta ==
  ASSUME NEW k \in {"Battery", "Attitude", "Position"}
  PROVE  valid_meta(Plain(k))
<1>1. /\ "resource_id" \in DOMAIN Layout[k] /\ "generation" \in DOMAIN Layout[k]
      /\ "source_id" \in DOMAIN Layout[k] /\ "snapshot" \in DOMAIN Layout[k]
      /\ "reserved" \in DOMAIN Layout[k]
  BY MetaFields DEF Meta
<1>2. /\ PlainField(k, "resource_id") = One(4) /\ PlainField(k, "generation") = One(4)
      /\ PlainField(k, "source_id") = One(2)
      /\ PlainField(k, "snapshot") = 0 /\ PlainField(k, "reserved") = 0
  BY MetaFields DEF PlainField
<1>3. One(4) = 1 /\ One(2) = 1
  BY DEF One
<1> QED
  BY <1>1, <1>2, <1>3 DEF valid_meta, identified, flags_plain, Plain

\* A struct with another body is a struct, with the same meta.
LEMMA BodySet ==
  ASSUME NEW k \in {"Battery", "Attitude", "Position"}, NEW v, IsStruct(k, v), valid_meta(v),
         NEW body, DOMAIN body \subseteq DOMAIN Layout[k] \ DOMAIN Meta,
         \A f \in DOMAIN body : body[f] \in Word(width(k, f))
  PROVE  /\ IsStruct(k, Both(body, v)) /\ valid_meta(Both(body, v))
         /\ \A f \in DOMAIN Layout[k] :
              Both(body, v)[f] = IF f \in DOMAIN body THEN body[f] ELSE v[f]
<1>1. DOMAIN v = DOMAIN Layout[k] /\ DOMAIN body \cup DOMAIN v = DOMAIN Layout[k]
  BY DEF IsStruct
<1>2. /\ Both(body, v) = [f \in DOMAIN Layout[k] |-> Both(body, v)[f]]
      /\ \A f \in DOMAIN Layout[k] :
           Both(body, v)[f] = IF f \in DOMAIN body THEN body[f] ELSE v[f]
  BY <1>1 DEF Both
<1>3. IsStruct(k, Both(body, v))
  BY <1>2 DEF IsStruct
<1>4. \A f \in DOMAIN Meta : Both(body, v)[f] = v[f]
  BY <1>2, MetaFields
<1> QED
  BY <1>2, <1>3, <1>4, MetaKept

LEMMA Permille ==
  ASSUME NEW remaining \in INT8_MIN .. INT8_MAX
  PROVE  permille(remaining) \in Nat /\ permille(remaining) <= 1000
BY SMT DEF permille, INT8_MIN, INT8_MAX

\* What the adapter makes of a struct.
LEMMA BatteryAdapted ==
  ASSUME NEW v, IsStruct("Battery", v), valid_meta(v), v.reserved2 = 0,
         NEW mv \in Word(2), NEW remaining \in INT8_MIN .. INT8_MAX
  PROVE  LET u == Both(battery_status(mv, remaining), v)
         IN  /\ IsStruct("Battery", u) /\ valid_meta(u)
             /\ u.remaining_permille <= 1000 /\ u.reserved2 = 0
<1> DEFINE F == {"voltage_mv", "current_ma", "remaining_permille"}
           body == battery_status(mv, remaining)
<1>1. /\ F \subseteq DOMAIN BatteryLayout \ DOMAIN Meta /\ \A f \in F : BatteryLayout[f][2] = 2
      /\ "reserved2" \in DOMAIN BatteryLayout
  BY DEF BatteryLayout, Both, Meta
<1>2. Layout["Battery"] = BatteryLayout
  BY DEF Layout
<1>3. permille(remaining) \in Word(2) /\ permille(remaining) <= 1000
  BY Permille, Width2, SMT DEF UInt16
<1>4. 0 \in Word(2)
  BY SmallWords, Zenon
<1>5. /\ DOMAIN body = F
      /\ body["voltage_mv"] = mv /\ body["current_ma"] = 0
      /\ body["remaining_permille"] = permille(remaining)
  BY DEF battery_status
<1> HIDE DEF body
<1>6. \A f \in F : body[f] \in Word(2)
  BY <1>3, <1>4, <1>5, SMT
<1>7. /\ IsStruct("Battery", Both(body, v)) /\ valid_meta(Both(body, v))
      /\ Both(body, v)["remaining_permille"] = body["remaining_permille"]
      /\ Both(body, v)["reserved2"] = v["reserved2"]
  BY <1>1, <1>2, <1>5, <1>6, BodySet DEF width
<1> QED
  BY <1>3, <1>5, <1>7, SMT DEF body

LEMMA AttitudeAdapted ==
  ASSUME NEW v, IsStruct("Attitude", v), valid_meta(v),
         NEW roll \in Word(4), NEW pitch \in Word(4), NEW yaw \in Word(4)
  PROVE  LET u == Both(attitude(roll, pitch, yaw), v)
         IN  IsStruct("Attitude", u) /\ valid_meta(u)
<1> DEFINE F == {"roll_urad", "pitch_urad", "yaw_urad"}
           body == attitude(roll, pitch, yaw)
<1>1. F \subseteq DOMAIN AttitudeLayout \ DOMAIN Meta /\ \A f \in F : AttitudeLayout[f][2] = 4
  BY DEF AttitudeLayout, Both, Meta
<1>2. Layout["Attitude"] = AttitudeLayout
  BY DEF Layout
<1>3. DOMAIN body = F /\ \A f \in F : body[f] \in Word(4)
  BY DEF attitude
<1> HIDE DEF body
<1>4. IsStruct("Attitude", Both(body, v)) /\ valid_meta(Both(body, v))
  BY <1>1, <1>2, <1>3, BodySet DEF width
<1> QED
  BY <1>4 DEF body

LEMMA PositionAdapted ==
  ASSUME NEW v, IsStruct("Position", v), valid_meta(v),
         NEW lat \in Word(4), NEW lon \in Word(4), NEW alt \in Word(4)
  PROVE  LET u == Both(global_position(lat, lon, alt), v)
         IN  IsStruct("Position", u) /\ valid_meta(u)
<1> DEFINE F == {"latitude_e7", "longitude_e7", "altitude_mm"}
           body == global_position(lat, lon, alt)
<1>1. F \subseteq DOMAIN PositionLayout \ DOMAIN Meta /\ \A f \in F : PositionLayout[f][2] = 4
  BY DEF PositionLayout, Both, Meta
<1>2. Layout["Position"] = PositionLayout
  BY DEF Layout
<1>3. DOMAIN body = F /\ \A f \in F : body[f] \in Word(4)
  BY DEF global_position
<1> HIDE DEF body
<1>4. IsStruct("Position", Both(body, v)) /\ valid_meta(Both(body, v))
  BY <1>1, <1>2, <1>3, BodySet DEF width
<1> QED
  BY <1>4 DEF body

LEMMA CodecStart == CodecInit => CodecInv
<1> SUFFICES ASSUME CodecInit PROVE CodecInv
  OBVIOUS
<1> USE DEF CodecInit
<1>1. kind \in Kinds /\ IsStruct(kind, value)
  BY PlainStruct
<1> QED
  BY <1>1 DEF CodecInv, StructInv, AdaptedInv, SentInv

LEMMA SetStep ==
  ASSUME CodecInv, Set
  PROVE  CodecInv'
<1> USE DEF CodecInv
<1>1. PICK f \in DOMAIN value : \E x \in Edges[width(kind, f)] :
        value' = [value EXCEPT ![f] = x]
  BY DEF Set
<1>2. PICK x \in Edges[width(kind, f)] :
        value' = [value EXCEPT ![f] = x]
  BY <1>1
<1>3. /\ phase = "filling" /\ changes < MaxChanges /\ changes' = changes + 1
      /\ UNCHANGED <<kind, bytes, encoded, result, phase, adapted>>
  BY DEF Set
<1>4. kind \in Kinds /\ IsStruct(kind, value) /\ DOMAIN value = DOMAIN Layout[kind]
  BY DEF StructInv, IsStruct
<1>5. x \in Word(width(kind, f))
  BY <1>4, FieldPlace, CodecAssumption
<1>6. IsStruct(kind, value')
  BY <1>2, <1>4, <1>5, SetField
<1>8. changes' \in Nat /\ changes' # 0
  BY <1>3
<1>9. ~adapted
  BY <1>3, CodecAssumption DEF AdaptedInv
<1>10. StructInv'
  BY <1>3, <1>4, <1>6, <1>8 DEF StructInv
<1> QED
  BY <1>3, <1>8, <1>9, <1>10 DEF AdaptedInv, SentInv

\* The adapter starts from a plain struct.
LEMMA Adapted ==
  ASSUME CodecInv, Adapt
  PROVE  /\ kind \in {"Battery", "Attitude", "Position"} /\ IsStruct(kind, value')
         /\ valid_meta(value')
         /\ kind = "Battery" => value'.remaining_permille <= 1000 /\ value'.reserved2 = 0
<1>1. /\ kind \in {"Battery", "Attitude", "Position"}
      /\ phase = "filling" /\ changes = 0 /\ ~adapted
  BY DEF Adapt
<1>2. IsStruct(kind, value) /\ valid_meta(value) /\ value = Plain(kind)
  BY <1>1, PlainMeta DEF CodecInv, StructInv
<1>3. Edges[2] \subseteq Word(2) /\ Edges[4] \subseteq Word(4)
  BY CodecAssumption
<1>4. CASE kind = "Battery"
  <2>1. PICK mv \in Edges[2], remaining \in INT8_MIN .. INT8_MAX :
          value' = Both(battery_status(mv, remaining), value)
    BY <1>4 DEF Adapt
  <2>2. value.reserved2 = 0
    <3>1. "reserved2" \in DOMAIN BatteryLayout /\ Layout["Battery"] = BatteryLayout
      BY DEF Layout, BatteryLayout, Both
    <3>2. PlainField("Battery", "reserved2") = 0
      BY DEF PlainField
    <3> QED
      BY <1>2, <1>4, <3>1, <3>2 DEF Plain
  <2> QED
    BY <1>2, <1>3, <1>4, <2>1, <2>2, BatteryAdapted
<1>5. CASE kind = "Attitude"
  <2>1. PICK roll, pitch, yaw \in Edges[4] : value' = Both(attitude(roll, pitch, yaw), value)
    BY <1>5 DEF Adapt
  <2> QED
    BY <1>2, <1>3, <1>5, <2>1, AttitudeAdapted
<1>6. CASE kind = "Position"
  <2>1. PICK lat, lon, alt \in Edges[4] : value' = Both(global_position(lat, lon, alt), value)
    BY <1>6 DEF Adapt
  <2> QED
    BY <1>2, <1>3, <1>6, <2>1, PositionAdapted
<1> QED
  BY <1>1, <1>4, <1>5, <1>6

LEMMA AdaptStep ==
  ASSUME CodecInv, Adapt
  PROVE  CodecInv'
<1>1. /\ phase = "filling" /\ adapted' = TRUE /\ changes' = MaxChanges
      /\ UNCHANGED <<kind, bytes, encoded, result, phase>>
  BY DEF Adapt
<1>2. MaxChanges \in Nat
  BY CodecAssumption
<1>3. kind \in Kinds
  BY DEF CodecInv, StructInv
<1>4. StructInv'
  BY <1>1, <1>3, Adapted DEF StructInv
<1>5. AdaptedInv'
  BY <1>1, <1>2, Adapted DEF AdaptedInv
<1> QED
  BY <1>1, <1>2, <1>4, <1>5 DEF CodecInv, SentInv

LEMMA EncodeStep ==
  ASSUME CodecInv, Encode \/ EncodeRefused
  PROVE  CodecInv'
<1> USE DEF CodecInv
<1>1. phase = "filling" /\ phase' \in {"sent", "refused"} /\ UNCHANGED <<kind, value, adapted, changes>>
  BY DEF Encode, EncodeRefused
<1>2. StructInv'
  BY <1>1 DEF StructInv
<1>3. CASE Encode
  <2>1. /\ valid(kind, value) /\ phase' = "sent"
        /\ bytes' = encode(kind, value) /\ encoded' = encode(kind, value)
    BY <1>3 DEF Encode
  <2> QED
    BY <1>1, <1>2, <2>1 DEF AdaptedInv, SentInv, Arrives
<1>4. CASE EncodeRefused
  <2>1. ~valid(kind, value) /\ phase' = "refused"
    BY <1>4 DEF EncodeRefused
  <2> QED
    BY <1>1, <1>2, <2>1 DEF AdaptedInv, SentInv
<1> QED
  BY <1>3, <1>4

\* What damage makes of an encoding of n bytes.
LEMMA DamageArrives ==
  ASSUME NEW n \in Nat \ {0}, NEW e \in [1 .. n -> Byte], NEW b,
         \/ \E i \in DOMAIN e, x \in Nat : b = [e EXCEPT ![i] = (e[i] + x) % 256]
         \/ b = SubSeq(e, 1, Len(e) - 1)
  PROVE  Arrives(b, e, n)
<1>1. e \in Seq(Byte) /\ Len(e) = n /\ DOMAIN e = 1 .. n
  BY BytesSeq
<1>2. ASSUME NEW i \in DOMAIN e, NEW x \in Nat, b = [e EXCEPT ![i] = (e[i] + x) % 256]
      PROVE  Arrives(b, e, n)
  <2>1. e[i] \in Nat
    BY <1>1 DEF Byte
  <2>2. (e[i] + x) % 256 \in Byte
    BY <2>1, SMT DEF Byte
  <2>3. /\ b \in [1 .. n -> Byte] /\ b[i] = (e[i] + x) % 256
        /\ \A j \in 1 .. n : j # i => b[j] = e[j]
    BY <1>1, <1>2, <2>2
  <2>4. CASE b[i] = e[i]
    <3>1. b = e
      BY <1>1, <2>3, <2>4
    <3> QED
      BY <3>1 DEF Arrives
  <2>5. CASE b[i] # e[i]
    BY <1>1, <2>3, <2>5 DEF Arrives
  <2> QED
    BY <2>4, <2>5
<1>3. CASE b = SubSeq(e, 1, Len(e) - 1)
  <2>1. b \in Seq(Byte) /\ Len(b) = n - 1
    BY <1>1, <1>3
  <2> QED
    BY <2>1 DEF Arrives
<1> QED
  BY <1>2, <1>3

LEMMA DamageStep ==
  ASSUME CodecInv, Damage
  PROVE  CodecInv'
<1> USE DEF CodecInv
<1>1. /\ phase = "sent" /\ bytes = encoded /\ changes < MaxChanges
      /\ changes' = changes + 1
      /\ UNCHANGED <<kind, value, encoded, result, phase, adapted>>
  BY DEF Damage
<1>2. \/ \E i \in DOMAIN encoded, x \in Nat :
           bytes' = [encoded EXCEPT ![i] = (encoded[i] + x) % 256]
      \/ bytes' = SubSeq(encoded, 1, Len(encoded) - 1)
  BY <1>1, CodecAssumption DEF Damage
<1>3. /\ kind \in Kinds /\ IsStruct(kind, value) /\ valid(kind, value)
      /\ encoded = encode(kind, value)
  BY <1>1 DEF StructInv, SentInv
<1>4. Size[kind] \in Nat \ {0} /\ encoded \in [1 .. Size[kind] -> Byte]
  BY <1>3, LayoutApart, EncodeBytes
<1>5. Arrives(bytes', encoded, Size[kind])
  BY <1>2, <1>4, DamageArrives
<1>6. ~adapted
  BY <1>1, CodecAssumption DEF AdaptedInv
<1>7. StructInv' /\ AdaptedInv' /\ changes' \in Nat
  BY <1>1, <1>6 DEF StructInv, AdaptedInv
<1>8. SentInv'
  BY <1>1, <1>3, <1>5 DEF SentInv
<1> QED
  BY <1>7, <1>8

LEMMA DecodeStep ==
  ASSUME CodecInv, Decode
  PROVE  CodecInv'
<1> USE DEF CodecInv
<1>1. /\ phase = "sent" /\ phase' = "decoded" /\ result' = decode(kind, bytes)
      /\ UNCHANGED <<kind, value, bytes, encoded, adapted, changes>>
  BY DEF Decode
<1>2. StructInv' /\ AdaptedInv' /\ changes' \in Nat
  BY <1>1 DEF StructInv, AdaptedInv
<1>3. SentInv'
  BY <1>1 DEF SentInv
<1> QED
  BY <1>2, <1>3

LEMMA CodecStep == CodecInv /\ [CodecNext]_codec_vars => CodecInv'
<1>1. CASE UNCHANGED codec_vars
  BY <1>1 DEF codec_vars, CodecInv, StructInv, AdaptedInv, SentInv
<1> QED
  BY <1>1, SetStep, AdaptStep, EncodeStep, DamageStep, DecodeStep DEF CodecNext

LEMMA CodecAlways == CodecSpec => []CodecInv
BY CodecStart, CodecStep, PTL DEF CodecSpec
-----------------------------------------------------------------------------
(***************************************************************************)
(* The theorems about the codec.                                           *)
(***************************************************************************)

\* Whatever struct a caller or the adapter fills in, within the widths of its
\* fields, and whatever its qos: its decoder returns what its encoder was given
\* (messages.cpp, and encode_header and decode_header of record.cpp), but for a
\* subscription of an unknown qos and a StateMeta with flags of its own, which
\* their encoders take and their decoders refuse.
THEOREM RoundTripAlways == CodecSpec => []RoundTrip
<1>1. CodecInv => RoundTrip
  <2> SUFFICES ASSUME CodecInv, phase = "decoded", bytes = encoded
               PROVE  IF OneSided THEN result = Refused
                      ELSE /\ result # Refused
                           /\ \A f \in DOMAIN value \ {"header_crc16"} : result[f] = value[f]
    BY DEF RoundTrip
  <2>1. /\ kind \in Kinds /\ IsStruct(kind, value) /\ valid(kind, value)
        /\ result = decode(kind, encode(kind, value))
    BY DEF CodecInv, StructInv, SentInv
  <2>2. decoder_asks(kind, value) <=> ~OneSided
    <3>1. CASE kind = "Subscription"
      <4>1. value.qos \in Nat
        <5>1. "qos" \in DOMAIN Layout[kind] /\ width(kind, "qos") = 1
          BY <3>1 DEF Layout, SubscriptionLayout, width
        <5> QED
          BY <2>1, <5>1, Width1 DEF IsStruct, Byte
      <4> QED
        BY <3>1, <4>1 DEF decoder_asks, OneSided
    <3>2. CASE kind = "StateMeta"
      <4>1. value.snapshot \in Nat
        <5>1. "snapshot" \in DOMAIN Layout[kind] /\ width(kind, "snapshot") = 1
          BY <3>2 DEF Layout, Meta, width
        <5> QED
          BY <2>1, <5>1, Width1 DEF IsStruct, Byte
      <4> QED
        BY <3>2, <4>1 DEF decoder_asks, OneSided, flags_plain
    <3> QED
      BY <3>1, <3>2 DEF decoder_asks, OneSided
  <2> QED
    BY <2>1, <2>2, DecodeEncode, DecodeAsks
<1> QED
  BY <1>1, CodecAlways, PTL

\* Whatever arrives in place of an encoding, with a byte changed or lost: what a
\* decoder accepts is the one encoding of what it returns.
THEOREM CanonicalAlways == CodecSpec => []Canonical
<1>1. CodecInv => Canonical
  <2> SUFFICES ASSUME CodecInv, phase = "decoded", result # Refused
               PROVE  valid(kind, result) /\ encode(kind, result) = bytes
    BY DEF Canonical
  <2>1. /\ kind \in Kinds /\ IsStruct(kind, value) /\ encoded = encode(kind, value)
        /\ result = decode(kind, bytes) /\ Arrives(bytes, encoded, Size[kind])
    BY DEF CodecInv, StructInv, SentInv
  <2>2. Size[kind] \in Nat /\ encoded \in [1 .. Size[kind] -> Byte]
    BY <2>1, LayoutApart, EncodeBytes
  <2>3. bytes \in Seq(Byte)
    BY <2>1, <2>2, BytesSeq DEF Arrives
  <2> QED
    BY <2>1, <2>3, EncodeDecode
<1> QED
  BY <1>1, CodecAlways, PTL

\* The CRC of crc16.cpp is injective in every byte of a header, and decode_header
\* looks at every other one: a header of which one byte has changed, by any
\* amount, or the last one is lost, is refused.
THEOREM HeaderDamageAlwaysNoticed == CodecSpec => []HeaderDamageNoticed
<1>1. CodecInv => HeaderDamageNoticed
  <2> SUFFICES ASSUME CodecInv, phase = "decoded", kind = "Header", bytes # encoded
               PROVE  result = Refused
    BY DEF HeaderDamageNoticed
  <2>1. /\ IsStruct("Header", value) /\ encoded = encode("Header", value)
        /\ result = decode("Header", bytes) /\ Arrives(bytes, encoded, Size["Header"])
    BY DEF CodecInv, StructInv, SentInv
  <2>2. /\ encoded \in [1 .. 40 -> Byte]
        /\ crc16_ccitt(encoded, 36) = read("Header", encoded).header_crc16
        /\ encoded[39] = 0 /\ encoded[40] = 0
    BY <2>1, HeaderEncoded
  <2>3. Arrives(bytes, encoded, 40) /\ Size["Header"] = 40
    BY <2>1, HeaderPlaces, Zenon
  <2>4. CASE Len(bytes) # 40
    BY <2>1, <2>3, <2>4 DEF decode
  <2>5. CASE /\ bytes \in [1 .. 40 -> Byte]
             /\ \E i \in 1 .. 40 : /\ bytes[i] # encoded[i]
                                   /\ \A j \in 1 .. 40 : j # i => bytes[j] = encoded[j]
    <3>1. PICK i \in 1 .. 40 : /\ bytes[i] # encoded[i]
                               /\ \A j \in 1 .. 40 : j # i => bytes[j] = encoded[j]
      BY <2>5, Zenon
    <3>2. decode("Header", bytes) = Refused
      BY <2>2, <2>5, <3>1, HeaderChange, Zenon
    <3> QED
      BY <2>1, <3>2, Zenon
  <2> QED
    BY <2>3, <2>4, <2>5, Zenon DEF Arrives
<1> QED
  BY <1>1, CodecAlways, PTL

\* Whatever PX4 reports, encode_battery and encode_attitude take what
\* decode_battery_status and decode_attitude of the adapter make of it, and
\* encode_position all but what is out of its range.
THEOREM AdaptedAlwaysEncodes == CodecSpec => []AdaptedEncodes
<1>1. CodecInv => AdaptedEncodes
  <2> SUFFICES ASSUME CodecInv, phase = "refused", adapted
               PROVE  kind = "Position" /\ ~on_earth(value)
    BY DEF AdaptedEncodes
  <2>1. /\ kind \in {"Battery", "Attitude", "Position"} /\ valid_meta(value)
        /\ kind = "Battery" => value.remaining_permille <= 1000 /\ value.reserved2 = 0
        /\ ~valid(kind, value)
    BY DEF CodecInv, AdaptedInv
  <2> QED
    BY <2>1 DEF valid
<1> QED
  BY <1>1, CodecAlways, PTL
-----------------------------------------------------------------------------
(***************************************************************************)
(* A theorem about Px4Probe, for any datagrams, any deadline and any       *)
(* commands that others have sent.                                         *)
(***************************************************************************)

\* What waits at the socket is datagrams, whose ACKs are for commands that PX4
\* has got.
InboxHonest ==
  /\ inbox \in Seq(Datagrams)
  /\ \A n \in DOMAIN inbox : \A i \in DOMAIN inbox[n].frames :
       inbox[n].frames[i] \in executed \cup {0}

ProbeInv == command \in Commands /\ InboxHonest /\ NoFalsePass

\* Wherever the parser starts, it gets frames of the datagram and no others.
LEMMA ParsedFromDatagram ==
  ASSUME NEW d \in Datagrams, NEW frames \in Parsed(d), NEW i \in DOMAIN frames
  PROVE  \E j \in DOMAIN d.frames : frames[i] = d.frames[j]
<1>1. d.frames \in Seq(Nat) /\ Len(d.frames) \in Nat
  BY ProbeAssumption
<1>2. CASE frames = d.frames
  BY <1>2
<1>3. ASSUME NEW n \in 1 .. Len(d.frames) + 1, frames = SubSeq(d.frames, n, Len(d.frames))
      PROVE  \E j \in DOMAIN d.frames : frames[i] = d.frames[j]
  <2>1. /\ DOMAIN d.frames = 1 .. Len(d.frames)
        /\ DOMAIN frames = 1 .. Len(d.frames) - n + 1
        /\ frames[i] = d.frames[n + i - 1]
    BY <1>1, <1>3
  <2>2. n + i - 1 \in DOMAIN d.frames
    BY <1>1, <2>1
  <2> QED
    BY <2>1, <2>2
<1> QED
  BY <1>2, <1>3 DEF Parsed

\* A datagram is taken: an ACK that passes is one for a command PX4 has got.
LEMMA ReceiveStep ==
  ASSUME ProbeInv, Receive
  PROVE  ProbeInv'
<1> DEFINE d == Head(inbox)
<1> USE DEF ProbeInv
<1>1. PICK frames \in Parsed(d) :
        /\ inbox' = Tail(inbox)
        /\ IF acknowledges(frames) THEN End(0)
           ELSE IF elapsed >= Deadline \/ (d.frames = <<>> /\ ~d.cut) THEN End(6)
           ELSE UNCHANGED <<pc, code>>
  BY DEF Receive
<1>2. /\ inbox # <<>> /\ pc = "waiting"
      /\ UNCHANGED <<command, under_way, executed, earlier>>
  BY DEF Receive
<1>3. /\ d = inbox[1] /\ 1 \in DOMAIN inbox /\ d \in Datagrams
      /\ Tail(inbox) \in Seq(Datagrams)
      /\ \A n \in DOMAIN Tail(inbox) :
           n + 1 \in DOMAIN inbox /\ Tail(inbox)[n] = inbox[n + 1]
  BY <1>2 DEF InboxHonest
<1> HIDE DEF d
<1>4. InboxHonest'
  BY <1>1, <1>2, <1>3 DEF InboxHonest
<1>5. acknowledges(frames) => command \in executed
  <2> SUFFICES ASSUME NEW i \in DOMAIN frames, FirstAck(frames, i), frames[i] = command
               PROVE  command \in executed
    BY DEF acknowledges
  <2>1. PICK j \in DOMAIN d.frames : frames[i] = d.frames[j]
    BY <1>3, ParsedFromDatagram
  <2> QED
    BY <1>3, <2>1 DEF InboxHonest, FirstAck
<1>6. NoFalsePass'
  BY <1>1, <1>2, <1>5 DEF NoFalsePass, End
<1> QED
  BY <1>2, <1>4, <1>6

\* Every step of the probe, of PX4 and of the clock keeps the invariant.
LEMMA ProbeStep == ProbeInv /\ [Next]_vars => ProbeInv'
<1> SUFFICES ASSUME ProbeInv, [Next]_vars PROVE ProbeInv'
  OBVIOUS
<1> USE DEF ProbeInv
<1>1. CASE Start
  BY <1>1 DEF Start, End, InboxHonest, NoFalsePass
<1>2. CASE SendCommand
  BY <1>2 DEF SendCommand, End, InboxHonest, NoFalsePass
<1>3. CASE Receive
  BY <1>3, ReceiveStep
<1>4. CASE Expire \/ SelectFails
  BY <1>4 DEF Expire, SelectFails, End, InboxHonest, NoFalsePass
<1>5. CASE Tick
  BY <1>5 DEF Tick, InboxHonest, NoFalsePass
<1>6. CASE Execute
  BY <1>6 DEF Execute, InboxHonest, NoFalsePass
<1>7. CASE Px4Sends
  <2>1. PICK d \in Datagrams :
          /\ \A i \in DOMAIN d.frames : d.frames[i] \in executed \cup {0}
          /\ inbox' = Append(inbox, d)
    BY <1>7 DEF Px4Sends
  <2>2. UNCHANGED <<command, pc, code, executed>>
    BY <1>7 DEF Px4Sends
  <2>3. /\ inbox' \in Seq(Datagrams)
        /\ \A n \in DOMAIN inbox' :
             \/ n \in DOMAIN inbox /\ inbox'[n] = inbox[n]
             \/ inbox'[n] = d
    BY <2>1 DEF InboxHonest
  <2> QED
    BY <2>1, <2>2, <2>3 DEF InboxHonest, NoFalsePass
<1>8. CASE UNCHANGED vars
  BY <1>8 DEF vars, InboxHonest, NoFalsePass
<1> QED
  BY <1>1, <1>2, <1>3, <1>4, <1>5, <1>6, <1>7, <1>8 DEF Next

\* The probe reports an ACK only for a command that PX4 has got
\* (px4_adapter_probe.cpp), whatever else arrives, however the datagrams are
\* cut, and wherever the parser that decode_command_ack shares takes up.
THEOREM NeverFalsePass == Spec => []NoFalsePass
<1>1. Init => ProbeInv
  BY DEF Init, ProbeInv, InboxHonest, NoFalsePass
<1> QED
  BY <1>1, ProbeStep, PTL DEF Spec, ProbeInv
=============================================================================
