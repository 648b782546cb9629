------------------------------ MODULE PbEncode ------------------------------
(***************************************************************************)
(* nanopb's encoder (pb_encode.c).  A stream writes to a buffer of max     *)
(* bytes, or, with sizing, only counts (callback == NULL).  An operation   *)
(* returns the stream after it; a function that returned false leaves ok   *)
(* FALSE, and since every caller returns false at once, operations on such *)
(* a stream change nothing.                                                *)
(***************************************************************************)
EXTENDS PbCommon

(* PB_OSTREAM_SIZING and pb_ostream_from_buffer. *)
Sizing == [ok |-> TRUE, sizing |-> TRUE, out |-> <<>>, written |-> 0, max |-> 0]
OstreamFromBuffer(size) == [Sizing EXCEPT !.sizing = FALSE, !.max = size]

Refuse(s) == [s EXCEPT !.ok = FALSE]
Count(s, n) == [s EXCEPT !.written = @ + n]

(* pb_write. *)
Write(s, bytes) ==
    IF ~s.ok THEN s
    ELSE IF s.sizing THEN Count(s, Len(bytes))
    ELSE IF s.written + Len(bytes) > s.max THEN Refuse(s)
    ELSE [Count(s, Len(bytes)) EXCEPT !.out = @ \o bytes]

----------------------------------------------------------------------------
(* Values                                                                  *)

RECURSIVE VarintBytes(_)
VarintBytes(v) ==
    IF v < 2^GroupBits THEN <<v>>
    ELSE <<2^GroupBits + (v % 2^GroupBits)>> \o VarintBytes(v \div 2^GroupBits)

(* pb_encode_varint: a negative value has been cast to uint64_t. *)
EncodeVarint(s, v) == Write(s, VarintBytes(v % 2^Bits64))

(* pb_encode_svarint: ~(value << 1) for a negative value. *)
Zigzag(v) == IF v < 0 THEN 2^Bits64 - 1 - ((2 * v) % 2^Bits64) ELSE (2 * v) % 2^Bits64
EncodeSvarint(s, v) == EncodeVarint(s, Zigzag(v))

(* pb_encode_fixed32, pb_encode_fixed64: the bytes, low ones first. *)
EncodeFixed(s, v, bits) ==
    Write(s, [i \in 1 .. bits \div ByteBits |-> (v \div 2^(ByteBits * (i - 1))) % 2^ByteBits])

EncodeTag(s, wiretype, tag) == EncodeVarint(s, 8 * tag + wiretype)

(* pb_encode_tag_for_field. *)
WireType(f) ==
    CASE f.ltype \in {"varint", "uvarint", "svarint"} -> PB_WT_VARINT
      [] f.ltype = "fixed32" -> PB_WT_32BIT
      [] f.ltype = "fixed64" -> PB_WT_64BIT
      [] OTHER               -> PB_WT_STRING
EncodeTagForField(s, f) == EncodeTag(s, WireType(f), f.tag)

EncodeString(s, bytes) == Write(EncodeVarint(s, Len(bytes)), bytes)

(* pb_enc_string: up to the terminating zero or the end of the array. *)
CString(bytes, size) ==
    LET ends == {i \in DOMAIN bytes : bytes[i] = 0} \union {Len(bytes) + 1, size + 1}
    IN  SubSeq(bytes, 1, (CHOOSE i \in ends : \A j \in ends : i <= j) - 1)

RECURSIVE EncodeMessage(_, _, _)

(* pb_encode_submessage: size first, then the same fields into a substream *)
(* that may not exceed it, because a callback may write something else the *)
(* second time ("submsg size changed").  head is the stream behind the     *)
(* size, sub the substream.                                                *)
NotLookedAt(head, size) == TRUE                             \* variant of SubmessageFits
SubmessageFits(head, size) == head.written + size <= head.max
BehindSize(head, size, sub) ==
    IF ~head.ok THEN head
    ELSE IF head.sizing THEN Count(head, size)
    ELSE IF ~SubmessageFits(head, size) THEN Refuse(head)
    ELSE [Count(head, sub.written) EXCEPT !.out = @ \o sub.out,
                                          !.ok  = sub.ok /\ sub.written = size]
AfterSizing(s, sized, fields, msg) ==
    IF ~s.ok \/ ~sized.ok THEN Refuse(s)
    ELSE BehindSize(EncodeVarint(s, sized.written), sized.written,
                    EncodeMessage(OstreamFromBuffer(sized.written), fields, msg))
EncodeSubmessage(s, fields, msg) ==
    AfterSizing(s, EncodeMessage(Sizing, fields, msg), fields, msg)

(* PB_ENCODERS: pb_enc_varint to pb_enc_fixed_length_bytes. *)
EncodeValue(s, f, v) ==
    CASE f.ltype \in {"varint", "uvarint"} -> EncodeVarint(s, v)
      [] f.ltype = "svarint"    -> EncodeSvarint(s, v)
      [] f.ltype = "fixed32"    -> EncodeFixed(s, v, Bits32)
      [] f.ltype = "fixed64"    -> EncodeFixed(s, v, Bits64)
      [] f.ltype = "bytes"      -> IF f.atype = "static" /\ Len(v) > f.size
                                   THEN Refuse(s) ELSE EncodeString(s, v)
      [] f.ltype = "string"     -> EncodeString(s, CString(v, IF f.atype = "pointer"
                                                              THEN Len(v) ELSE f.size))
      [] f.ltype = "submessage" -> EncodeSubmessage(s, f.sub, v)
      [] f.ltype = "fixed_length_bytes" -> EncodeString(s, v)

----------------------------------------------------------------------------
(* Fields                                                                  *)

(* encode_array: packed when the type allows it. *)
EncodeItems(s, f, items) == FoldLeft(LAMBDA t, v : EncodeValue(t, f, v), s, items)
EncodePacked(head, f, items, size) ==
    IF head.sizing THEN Count(head, size) ELSE EncodeItems(head, f, items)
EncodeArray(s, f, items) ==
    LET size == EncodeItems(Sizing, f, items).written
        tagged(t, v) == EncodeValue(EncodeTagForField(t, f), f, v)
    IN  IF items = <<>> THEN s
        ELSE IF f.atype /= "pointer" /\ Len(items) > f.max THEN Refuse(s)
        ELSE IF f.ltype \notin Packable THEN FoldLeft(tagged, s, items)
        ELSE EncodePacked(EncodeVarint(EncodeTag(s, PB_WT_STRING, f.tag), size),
                          f, items, size)

(* pb_check_proto3_default_value, which looks at the data of a member and  *)
(* never at its has_, count or which_: of an array it sees the first item  *)
(* only.  Bytes that hold no item, or no oneof, are taken to be zeros.     *)
FieldsSkipped(f, m) ==                                      \* variant of IsZero
    CASE f.ltype = "submessage" -> TRUE
      [] f.ltype \in Packable   -> m = 0
      [] OTHER                  -> m = <<>>
RECURSIVE IsZero(_, _)
IsZero(f, m) ==
    CASE f.ltype = "extension"  -> m = <<>>
      [] f.atype = "callback"   -> ~m.decode /\ m.sized = <<>> /\ m.real = <<>>
      [] f.atype = "pointer"    -> m = <<>>
      [] f.htype = "repeated"   -> m = <<>> \/ IsZero([f EXCEPT !.htype = "required"], m[1])
      [] f.htype = "oneof"      -> m.which /= f.tag
                                      \/ IsZero([f EXCEPT !.htype = "required"], m.value)
      [] f.has                  -> IsZero([f EXCEPT !.has = FALSE], m.value)
      [] f.ltype = "string"     -> m = <<>> \/ m[1] = 0
      [] f.ltype = "bytes"      -> m = <<>>
      [] f.ltype = "fixed_length_bytes" -> f.size = 0
      [] f.ltype = "submessage" -> \A i \in DOMAIN f.sub : IsZero(f.sub[i], m[f.sub[i].name])
      [] OTHER                  -> m = 0

(* encode_basic_field: whether the field is there, and its data. *)
Present(f, m) ==
    CASE f.atype = "pointer"   -> m /= <<>>
      [] f.htype = "required"  -> TRUE
      [] f.htype = "oneof"     -> m.which = f.tag
      [] f.has                 -> m.has
      [] OTHER                 -> ~IsZero(f, m)
Data(f, m) ==
    CASE f.atype = "pointer"          -> m[1]
      [] f.htype = "oneof" \/ f.has   -> m.value
      [] OTHER                        -> m
EncodeBasicField(s, f, m) ==
    IF f.htype = "repeated" THEN EncodeArray(s, f, m)
    ELSE IF Present(f, m) THEN EncodeValue(EncodeTagForField(s, f), f, Data(f, m))
    ELSE IF f.htype = "required" THEN Refuse(s)     \* "missing required field"
    ELSE s

(* encode_callback_field: the user's function writes the tag and a string, *)
(* if it has anything to write.                                            *)
EncodeCallbackField(s, f, m) ==
    LET bytes == IF s.sizing THEN m.sized ELSE m.real
    IN  IF bytes = <<>> THEN s
        ELSE EncodeString(EncodeTag(s, PB_WT_STRING, f.tag), bytes)

EncodeField(s, f, m) ==
    IF f.atype = "callback" THEN EncodeCallbackField(s, f, m) ELSE EncodeBasicField(s, f, m)

(* encode_extension_field, default_extension_encoder. *)
EncodeExtensions(s, f, m) ==
    FoldLeft(LAMBDA t, i : EncodeField(t, f.sub[i], m[i].value), s, [i \in DOMAIN m |-> i])

(* pb_encode. *)
EncodeMessage(s, fields, msg) ==
    FoldLeft(LAMBDA t, f : IF f.ltype = "extension" THEN EncodeExtensions(t, f, msg[f.name])
                           ELSE EncodeField(t, f, msg[f.name]),
             s, fields)

EncodeDelimited(s, fields, msg) == EncodeSubmessage(s, fields, msg)
GetEncodedSize(fields, msg) == EncodeMessage(Sizing, fields, msg)
=============================================================================
