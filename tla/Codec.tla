------------------------------- MODULE Codec -------------------------------
(***************************************************************************)
(* The bytes of the payloads, src/messages.cpp, and of the record header,  *)
(* encode_header and decode_header of src/record.cpp with the CRC of       *)
(* src/crc16.cpp: a caller fills in a struct, encodes it, and its peer     *)
(* decodes the bytes, some of which have changed on the way.  Telemetry of *)
(* PX4 gets into the structs through src/mavlink2_adapter.cpp.             *)
(*                                                                         *)
(* A struct is the function of its fields.  A field of 32 bits has the     *)
(* int32 of these bits as its value, one of 64 bits the pair of its lower  *)
(* and upper half, and a float the int32 that memcpy makes of it.          *)
(***************************************************************************)
EXTENDS Wire, Integers, Sequences

CONSTANTS
  Edges,      \* Edges[w]: the values that callers give to a field of w bytes
  Changes,    \* the amounts, modulo 256, by which bytes change on the way
  MaxChanges  \* bound: fields that a caller sets and bytes that change, in all

\* The values of a field of w bytes.
Byte == {x \in Nat : x <= 255}
UInt16 == {x \in Nat : x <= 65535}
Int32 == {x \in Int : -2147483647 - 1 <= x /\ x <= 2147483647}

Word(w) ==
  CASE w = 1 -> Byte
    [] w = 2 -> UInt16
    [] w = 4 -> Int32
    [] w = 8 -> Int32 \X Int32

ASSUME CodecAssumption ==
  /\ \A w \in {1, 2, 4, 8} : Edges[w] \subseteq Word(w)
  /\ Changes \subseteq Nat
  /\ MaxChanges \in Nat

VARIABLES
  kind,     \* the struct
  value,    \* its fields
  bytes,    \* its encoding, as it arrives
  encoded,  \* and as it was sent
  result,   \* what the decoder returns: the fields, or Refused
  phase,
  adapted,  \* whether the adapter has filled in the struct
  changes   \* how many fields and bytes were changed

codec_vars == <<kind, value, bytes, encoded, result, phase, adapted, changes>>

Refused == <<>>
-----------------------------------------------------------------------------
\* Where the fields are: an offset and a width in bytes.
Meta ==
  [resource_id |-> <<0, 4>>, generation |-> <<4, 4>>, base_generation |-> <<8, 4>>,
   source_id |-> <<12, 2>>, snapshot |-> <<14, 1>>, reserved |-> <<15, 1>>]

Both(f, g) == [x \in DOMAIN f \cup DOMAIN g |-> IF x \in DOMAIN f THEN f[x] ELSE g[x]]

CommandLayout ==
  [request_id |-> <<0, 8>>, command_id |-> <<8, 2>>, deadline_ms |-> <<10, 2>>,
   arg_count |-> <<12, 1>>, arg1 |-> <<16, 4>>, arg2 |-> <<20, 4>>,
   arg3 |-> <<24, 4>>, arg4 |-> <<28, 4>>, arg5 |-> <<32, 4>>,
   arg6 |-> <<36, 4>>, arg7 |-> <<40, 4>>]

AckLayout ==
  [request_id |-> <<0, 8>>, status |-> <<8, 1>>, detail |-> <<9, 1>>,
   reserved |-> <<10, 2>>, result_code |-> <<12, 4>>]

SubscriptionLayout ==
  [type |-> <<0, 1>>, qos |-> <<1, 1>>, source_id |-> <<2, 2>>,
   interval_ms |-> <<4, 2>>, flags |-> <<6, 4>>]

ResyncLayout == [type |-> <<0, 1>>, source_id |-> <<2, 2>>, resource_id |-> <<4, 4>>]

PositionLayout ==
  Both(Meta, [latitude_e7 |-> <<16, 4>>, longitude_e7 |-> <<20, 4>>,
              altitude_mm |-> <<24, 4>>])

AttitudeLayout ==
  Both(Meta, [roll_urad |-> <<16, 4>>, pitch_urad |-> <<20, 4>>,
              yaw_urad |-> <<24, 4>>])

BatteryLayout ==
  Both(Meta, [voltage_mv |-> <<16, 2>>, current_ma |-> <<18, 2>>,
              remaining_permille |-> <<20, 2>>, reserved2 |-> <<22, 2>>])

HeartbeatLayout == [uptime_ms |-> <<0, 8>>, capabilities |-> <<8, 4>>, state |-> <<12, 4>>]

HeaderLayout ==
  [version |-> <<0, 1>>, flags |-> <<1, 1>>, type |-> <<2, 1>>, qos |-> <<3, 1>>,
   source_id |-> <<4, 2>>, destination_id |-> <<6, 2>>, session_id |-> <<8, 8>>,
   epoch |-> <<16, 8>>, sequence |-> <<24, 8>>, payload_len |-> <<32, 2>>,
   deadline_ms |-> <<34, 2>>, header_crc16 |-> <<36, 2>>]

Layout ==
  [Command |-> CommandLayout, Ack |-> AckLayout, Subscription |-> SubscriptionLayout,
   Resync |-> ResyncLayout, StateMeta |-> Meta, Position |-> PositionLayout,
   Attitude |-> AttitudeLayout, Battery |-> BatteryLayout, Heartbeat |-> HeartbeatLayout,
   Header |-> HeaderLayout]

\* kCommandBytes, ...
Size ==
  [Command |-> 44, Ack |-> 16, Subscription |-> 10, Resync |-> 8, StateMeta |-> 16,
   Position |-> 28, Attitude |-> 28, Battery |-> 24, Heartbeat |-> 16, Header |-> 40]

Kinds == DOMAIN Layout

offset(k, f) == Layout[k][f][1]
width(k, f) == Layout[k][f][2]

\* The fields that byte i, counted from 0, belongs to: one, or none.
FieldsAt(k, i) ==
  {f \in DOMAIN Layout[k] : i \in offset(k, f) .. offset(k, f) + width(k, f) - 1}

-----------------------------------------------------------------------------
\* Byte i of an int32, whose bits are those of the unsigned value.
digit(v, i) == (v \div <<1, 256, 65536, 16777216>>[i + 1]) % 256

\* put16, put32, put64: byte i of v, the lowest first.
put(v, w, i) == IF w < 8 THEN digit(v, i) ELSE digit(v[1 + i \div 4], i % 4)

\* Mutant: the highest byte is taken for its positive value.
get32_positive(b, p) == b[p + 1] + 256 * b[p + 2] + 65536 * b[p + 3] + 16777216 * (b[p + 4] % 128)

\* The int32 at offset p of the bytes b.
get32(b, p) ==
  b[p + 1] + 256 * b[p + 2] + 65536 * b[p + 3]
    + 16777216 * (IF b[p + 4] < 128 THEN b[p + 4] ELSE b[p + 4] - 256)

\* get16, get32, get64
get(b, p, w) ==
  CASE w = 1 -> b[p + 1]
    [] w = 2 -> b[p + 1] + 256 * b[p + 2]
    [] w = 4 -> get32(b, p)
    [] w = 8 -> <<get32(b, p), get32(b, p + 4)>>

Zero(w) == IF w < 8 THEN 0 ELSE <<0, 0>>
One(w) == IF w < 8 THEN 1 ELSE <<1, 0>>

\* isfinite: the exponent is not all ones.
finite(v) == 2 * (digit(v, 3) % 128) + digit(v, 2) \div 128 # 255

known_code(c) == \E t \in MessageType : TypeCode[t] = c
state_code(c) == \E t \in MessageType : TypeCode[t] = c /\ state_type(t)

kMaxArgs == 7

Args(v) == <<v.arg1, v.arg2, v.arg3, v.arg4, v.arg5, v.arg6, v.arg7>>

valid_command(v) ==
  /\ v.request_id # Zero(8) /\ v.command_id # 0 /\ v.deadline_ms # 0
  /\ v.arg_count <= kMaxArgs
  /\ \A i \in 1 .. v.arg_count : finite(Args(v)[i])

\* encode_state_meta looks at the ids and the generation only.
identified(v) == v.resource_id # 0 /\ v.generation # 0 /\ v.source_id # 0

flags_plain(v) == v.snapshot <= 1 /\ v.reserved = 0

\* encode_position, encode_attitude and encode_battery look at the flags too.
valid_meta(v) == identified(v) /\ flags_plain(v)

on_earth(v) ==
  /\ v.latitude_e7 \in -900000000 .. 900000000
  /\ v.longitude_e7 \in -1800000000 .. 1800000000

\* What the encoders ask of the fields; the decoders ask all of it as well.
valid(k, v) ==
  CASE k = "Command" -> valid_command(v)
    [] k = "Ack" -> v.request_id # Zero(8)
    [] k = "Subscription" -> known_code(v.type) /\ v.source_id # 0
    [] k = "Resync" -> state_code(v.type) /\ v.source_id # 0 /\ v.resource_id # 0
    [] k = "StateMeta" -> identified(v)
    [] k = "Position" -> valid_meta(v) /\ on_earth(v)
    [] k = "Attitude" -> valid_meta(v)
    [] k = "Battery" -> valid_meta(v) /\ v.remaining_permille <= 1000 /\ v.reserved2 = 0
    [] OTHER -> TRUE

\* What the decoders ask beyond that: decode_subscription of the qos, and
\* decode_state_meta of the flags.
decoder_asks(k, v) ==
  /\ k = "Subscription" => v.qos <= 5
  /\ k = "StateMeta" => flags_plain(v)

\* The CRC is the set of the places of its bits that are 1.
xor(A, B) == (A \ B) \cup (B \ A)

\* One bit: 0x1021 has its bits at 0, 5 and 12.
crc_shift(crc) ==
  xor({i + 1 : i \in crc \ {15}}, IF 15 \in crc THEN {0, 5, 12} ELSE {})

\* The eight turns of the loop over the bits.
crc_bits ==
  [crc \in SUBSET (0 .. 15) |->
     crc_shift(crc_shift(crc_shift(crc_shift(
     crc_shift(crc_shift(crc_shift(crc_shift(crc))))))))]

\* Bit i of a byte.
bit(x, i) == (x \div <<1, 2, 4, 8, 16, 32, 64, 128>>[i + 1]) % 2 = 1

\* One byte x, which goes into the upper half.
crc_byte(crc, x) == crc_bits[xor(crc, {i \in 8 .. 15 : bit(x, i - 8)})]

\* The byte that the eight bits of a set from place p on make up, and the word.
byte_of(crc, p) ==
  LET at(i) == IF p + i \in crc THEN 1 ELSE 0
  IN  at(0) + 2 * at(1) + 4 * at(2) + 8 * at(3)
        + 16 * at(4) + 32 * at(5) + 64 * at(6) + 128 * at(7)

word_of(crc) == byte_of(crc, 0) + 256 * byte_of(crc, 8)

\* Mutant: the CRC leaves out the last of the bytes.
crc16_ccitt_short(b, n) ==
  LET crc[i \in 0 .. n - 1] == IF i = 0 THEN 0 .. 15 ELSE crc_byte(crc[i - 1], b[i])
  IN  word_of(crc[n - 1])

\* crc16_ccitt of the first n bytes
crc16_ccitt(b, n) ==
  LET crc[i \in 0 .. n] == IF i = 0 THEN 0 .. 15 ELSE crc_byte(crc[i - 1], b[i])
  IN  word_of(crc[n])
-----------------------------------------------------------------------------
\* The bytes of a struct; those that are no field's are written as 0.
written(k, v) ==
  [i \in 1 .. Size[k] |->
     IF FieldsAt(k, i - 1) = {} THEN 0
     ELSE LET f == CHOOSE f \in FieldsAt(k, i - 1) : TRUE
          IN  put(v[f], width(k, f), i - 1 - offset(k, f))]

\* encode_command, ...; for a header, encode_header as seal calls it, twice.
encode(k, v) ==
  IF k # "Header" THEN written(k, v)
  ELSE written(k, [v EXCEPT !.header_crc16 = crc16_ccitt(written(k, v), 36)])

\* The fields that bytes stand for.
read(k, b) ==
  [f \in DOMAIN Layout[k] |-> get(b, offset(k, f), width(k, f))]

\* Mutant: what is between the fields is not looked at.
decode_gaps(k, b) ==
  IF /\ Len(b) = Size[k]
     /\ valid(k, read(k, b))
     /\ decoder_asks(k, read(k, b))
     /\ k = "Header" => crc16_ccitt(b, 36) = read(k, b).header_crc16
  THEN read(k, b) ELSE Refused

\* decode_command, ..., decode_header; a record that is too short for a
\* header does not get there, and is refused like a payload.
decode(k, b) ==
  IF /\ Len(b) = Size[k]
     /\ \A i \in 1 .. Size[k] : FieldsAt(k, i - 1) = {} => b[i] = 0
     /\ valid(k, read(k, b))
     /\ decoder_asks(k, read(k, b))
     /\ k = "Header" => crc16_ccitt(b, 36) = read(k, b).header_crc16
  THEN read(k, b) ELSE Refused
-----------------------------------------------------------------------------
\* A struct that every encoder takes.
PlainField(k, f) ==
  CASE f \in {"snapshot", "reserved", "reserved2", "arg_count"} -> 0
    [] f = "type" -> TypeCode["Battery"]
    [] OTHER -> One(width(k, f))

Plain(k) == [f \in DOMAIN Layout[k] |-> PlainField(k, f)]

CodecInit ==
  /\ kind \in Kinds
  /\ value = Plain(kind)
  /\ bytes = Refused /\ encoded = Refused /\ result = Refused
  /\ phase = "filling"
  /\ adapted = FALSE
  /\ changes = 0

\* The caller sets a field.
Set ==
  /\ phase = "filling"
  /\ changes < MaxChanges
  /\ \E f \in DOMAIN value : \E x \in Edges[width(kind, f)] :
       value' = [value EXCEPT ![f] = x]
  /\ changes' = changes + 1
  /\ UNCHANGED <<kind, bytes, encoded, result, phase, adapted>>

\* Mutant: a charge above 100 percent is not capped.
permille_uncapped(remaining) == IF remaining < 0 THEN 0 ELSE 10 * remaining

INT8_MIN == -128
INT8_MAX == 127
UINT16_MAX == 65535

\* remaining_permille of a BATTERY_STATUS, whose battery_remaining is an int8.
permille(remaining) ==
  IF remaining < 0 THEN 0 ELSE IF remaining >= 100 THEN 1000 ELSE 10 * remaining

\* decode_battery_status, decode_attitude and decode_global_position of the
\* adapter give the body of a struct.  An angle is the int32 of a float, and
\* any int32 when it does not fit; a position is taken as it is.
battery_status(mv, remaining) ==
  [voltage_mv |-> mv, current_ma |-> 0, remaining_permille |-> permille(remaining)]

attitude(roll, pitch, yaw) == [roll_urad |-> roll, pitch_urad |-> pitch, yaw_urad |-> yaw]

global_position(lat, lon, alt) ==
  [latitude_e7 |-> lat, longitude_e7 |-> lon, altitude_mm |-> alt]

Adapt ==
  /\ phase = "filling" /\ changes = 0 /\ ~adapted
  /\ \/ /\ kind = "Battery"
        /\ \E mv \in Edges[2], remaining \in INT8_MIN .. INT8_MAX :
             mv # UINT16_MAX /\ value' = Both(battery_status(mv, remaining), value)
     \/ /\ kind = "Attitude"
        /\ \E roll, pitch, yaw \in Edges[4] : value' = Both(attitude(roll, pitch, yaw), value)
     \/ /\ kind = "Position"
        /\ \E lat, lon, alt \in Edges[4] : value' = Both(global_position(lat, lon, alt), value)
  /\ adapted' = TRUE
  /\ changes' = MaxChanges
  /\ UNCHANGED <<kind, bytes, encoded, result, phase>>

Encode ==
  /\ phase = "filling"
  /\ valid(kind, value)
  /\ bytes' = encode(kind, value)
  /\ encoded' = bytes'
  /\ phase' = "sent"
  /\ UNCHANGED <<kind, value, result, adapted, changes>>

EncodeRefused ==
  /\ phase = "filling"
  /\ ~valid(kind, value)
  /\ phase' = "refused"
  /\ UNCHANGED <<kind, value, bytes, encoded, result, adapted, changes>>

\* A byte changes on the way, or the last one is lost.
Damage ==
  /\ phase = "sent" /\ bytes = encoded
  /\ changes < MaxChanges
  /\ \/ \E i \in DOMAIN bytes, x \in Changes : bytes' = [bytes EXCEPT ![i] = (@ + x) % 256]
     \/ bytes' = SubSeq(bytes, 1, Len(bytes) - 1)
  /\ changes' = changes + 1
  /\ UNCHANGED <<kind, value, encoded, result, phase, adapted>>

Decode ==
  /\ phase = "sent"
  /\ result' = decode(kind, bytes)
  /\ phase' = "decoded"
  /\ UNCHANGED <<kind, value, bytes, encoded, adapted, changes>>

CodecNext == Set \/ Adapt \/ Encode \/ EncodeRefused \/ Damage \/ Decode

CodecSpec == CodecInit /\ [][CodecNext]_codec_vars
-----------------------------------------------------------------------------
\* The structs that an encoder takes and no decoder does: a subscription of a
\* qos beyond the enumerators (messages.cpp:54, :59), and a StateMeta that is
\* encoded by itself with flags that no state has (messages.cpp:82, :88).
OneSided ==
  \/ kind = "Subscription" /\ value.qos > 5
  \/ kind = "StateMeta" /\ (value.snapshot > 1 \/ value.reserved # 0)

\* What arrives unchanged is accepted and has the value that was encoded, for
\* every field and at the edges of its range: the sign and the highest byte of
\* a field survive, and fields do not overlap.  Two decoders are stricter than
\* their encoders, and refuse exactly the structs above.  The CRC is the one
\* field that the encoder fills in itself.
RoundTrip ==
  phase = "decoded" /\ bytes = encoded =>
    IF OneSided THEN result = Refused
    ELSE /\ result # Refused
         /\ \A f \in DOMAIN value \ {"header_crc16"} : result[f] = value[f]

\* No byte is ignored: what a decoder accepts is the one encoding of the value
\* that it returns, and its encoder accepts that value.  So a payload that has
\* changed is refused or has another value.
Canonical ==
  phase = "decoded" /\ result # Refused =>
    valid(kind, result) /\ encode(kind, result) = bytes

\* The encoders take what the adapter makes of a battery or an attitude: no
\* report of PX4 is stuck in the publisher for want of an encoding.  Of a
\* position this is not so, since the adapter does not look at its range.
AdaptedEncodes ==
  phase = "refused" /\ adapted => kind = "Position" /\ ~on_earth(value)

\* The CRC and the two zeros tell every change of one byte of a header, the
\* bytes of the CRC included.
HeaderDamageNoticed ==
  phase = "decoded" /\ kind = "Header" /\ bytes # encoded => result = Refused
=============================================================================
