------------------------------ MODULE Messages ------------------------------
(***************************************************************************)
(* NativeMessage and the payloads that the queue, the proxy and the        *)
(* publisher look into: include/new_mavlink/messages.hpp, src/messages.cpp.*)
(*                                                                         *)
(* A payload is the StateMeta in its first 16 bytes and a body, which is   *)
(* any value; what the decoders refuse in a body is the flag in_range.     *)
(***************************************************************************)
EXTENDS Wire

kMaxPayloadBytes == 768
kMetaBytes == 16

\* The encoded size of a position, an attitude and a battery.
kStateBytes == [Position |-> 28, Attitude |-> 28, Battery |-> 24]

StateMeta(resource, generation, base, source, snapshot) ==
  [resource_id |-> resource, generation |-> generation,
   base_generation |-> base, source_id |-> source, snapshot |-> snapshot]

\* What the first bytes of a payload that carries no StateMeta decode to.
NoMeta == StateMeta(0, 0, 0, 0, 0)

\* Whether encode_state_meta writes the meta.
encode_state_meta(meta) ==
  meta.resource_id # 0 /\ meta.generation # 0 /\ meta.source_id # 0

\* Whether decode_state_meta accepts the bytes; a byte reserved that is not
\* 0 is refused like a snapshot above 1, and stands for it.
decode_state_meta(meta) ==
  encode_state_meta(meta) /\ meta.snapshot <= 1

\* Whether a message starts with a StateMeta, as the queue and the proxy ask.
HasMeta(m) == m.length >= kMetaBytes /\ decode_state_meta(m.meta)

\* encode_position, encode_attitude, encode_battery of a value.
encode_state(meta, in_range) ==
  meta.snapshot <= 1 /\ in_range /\ encode_state_meta(meta)

\* decode_position, decode_attitude, decode_battery of a message.
decode_state(m) ==
  /\ m.length = kStateBytes[m.type]
  /\ decode_state_meta(m.meta)
  /\ m.in_range

\* The stream of a message: 8 bits of type, 16 of source and 32 of resource
\* in one word, here a triple.
stream_key(m) ==
  IF HasMeta(m)
  THEN <<TypeCode[m.type], m.meta.source_id, m.meta.resource_id>>
  ELSE <<TypeCode[m.type], m.source_id, 0>>

\* The order of those words.
KeyBefore(k, l) ==
  \/ k[1] < l[1]
  \/ k[1] = l[1] /\ k[2] < l[2]
  \/ k[1] = l[1] /\ k[2] = l[2] /\ k[3] < l[3]

\* deadline_ms is a time on the receiver's clock, and 0 for none.
expired(m, now) == m.deadline_ms # 0 /\ now > m.deadline_ms
=============================================================================
