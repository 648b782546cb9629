------------------------------ MODULE PbDecode ------------------------------
(***************************************************************************)
(* nanopb's decoder (pb_decode.c) over a memory buffer.  A stream has the  *)
(* buffer, the position of its read pointer (state), bytes_left, and ok,   *)
(* FALSE once a function has returned false; beyond records a read past    *)
(* the end of the buffer.  wide is what this build yields for a shift of a *)
(* word by its full width, which C leaves undefined: "zero" or "ones".     *)
(*                                                                         *)
(* An operation returns [s, v]: the stream after it and what it read.      *)
(***************************************************************************)
EXTENDS PbCommon

(* pb_istream_from_buffer. *)
IstreamFromBuffer(buf, wide) ==
    [ok |-> TRUE, buf |-> buf, pos |-> 0, left |-> Len(buf), beyond |-> FALSE, wide |-> wide]

Fail(s) == [s EXCEPT !.ok = FALSE]
Result(s, v) == [s |-> s, v |-> v]

(* pb_read and pb_readbyte: advance by n bytes, and the bytes there. *)
Read(s, n) ==
    IF ~s.ok THEN s
    ELSE IF s.left < n THEN Fail(s)
    ELSE [s EXCEPT !.pos = @ + n, !.left = @ - n, !.beyond = @ \/ s.pos + n > Len(s.buf)]
Bytes(s, n) == [i \in 1 .. n |-> IF s.pos + i <= Len(s.buf) THEN s.buf[s.pos + i] ELSE 0]

----------------------------------------------------------------------------
(* Varints, tags and skipping                                              *)

RECURSIVE VarintFrom(_, _, _, _)
VarintFrom(s, bits, bitpos, value) ==
    LET t   == Read(s, 1)
        b   == Bytes(s, 1)[1]
        new == (value + (b % 2^GroupBits) * 2^bitpos) % 2^bits
    IN  IF bitpos >= bits \/ ~t.ok THEN Result(IF t.ok THEN Fail(s) ELSE t, 0)
        ELSE IF b < 2^GroupBits THEN Result(t, new)
        ELSE VarintFrom(t, bits, bitpos + GroupBits, new)

DecodeVarint32(s) == VarintFrom(s, Bits32, 0, 0)
DecodeVarint(s)   == VarintFrom(s, Bits64, 0, 0)

(* pb_decode_tag: a tag of zero ends the message, and so does a tag that   *)
(* cannot be read because the stream ended inside it.                      *)
DecodeTag(s) ==
    LET r == DecodeVarint32(s)
    IN  [s   |-> r.s, tag |-> r.v \div 8, wire |-> r.v % 8,
         eof |-> IF r.s.ok THEN r.v = 0 ELSE r.s.left = 0]

(* pb_skip_varint, also the varint case of read_raw_value, which gives up  *)
(* after max bytes: the stream behind the last byte.                       *)
RECURSIVE PastVarint(_, _)
PastVarint(s, max) ==
    IF max = 0 THEN Fail(s)
    ELSE LET t == Read(s, 1)
         IN  IF t.ok /\ Bytes(s, 1)[1] >= 2^GroupBits THEN PastVarint(t, max - 1) ELSE t

SkipString(s) == LET r == DecodeVarint32(s) IN Read(r.s, r.v)

(* pb_skip_field. *)
SkipField(s, wire) ==
    CASE wire = PB_WT_VARINT -> PastVarint(s, Len(s.buf) + 1)
      [] wire = PB_WT_64BIT  -> Read(s, Bits64 \div ByteBits)
      [] wire = PB_WT_STRING -> SkipString(s)
      [] wire = PB_WT_32BIT  -> Read(s, Bits32 \div ByteBits)
      [] OTHER               -> Fail(s)

(* read_raw_value: the bytes of one scalar, at most as many as a varint of *)
(* 64 bits has.                                                            *)
MaxVarintBytes == (Bits64 + GroupBits - 1) \div GroupBits
ReadRawValue(s, wire) ==
    LET t == IF wire = PB_WT_VARINT THEN PastVarint(s, MaxVarintBytes)
             ELSE IF wire = PB_WT_STRING THEN Fail(s)
             ELSE SkipField(s, wire)
    IN  Result(t, Bytes(s, t.pos - s.pos))

(* pb_make_string_substream: v is the substream.  The bytes are taken from *)
(* the parent at once; its position follows when the substream is closed.  *)
MakeStringSubstream(s) ==
    LET r == DecodeVarint32(s)
    IN  IF ~r.s.ok \/ r.s.left < r.v THEN Result(Fail(r.s), r.s)
        ELSE Result([r.s EXCEPT !.left = @ - r.v], [r.s EXCEPT !.left = r.v])

(* pb_close_string_substream: what the reader left over is skipped.  d is  *)
(* the result of reading the substream of s.                               *)
CloseStringSubstream(s, sub) ==
    [s EXCEPT !.pos    = sub.pos + sub.left,
              !.beyond = @ \/ sub.beyond \/ sub.pos + sub.left > Len(s.buf),
              !.ok     = @ /\ sub.ok]
FromSubstream(s, d) == Result(CloseStringSubstream(s, d.s), d.v)

----------------------------------------------------------------------------
(* Values                                                                  *)

RECURSIVE DecodeMessage(_, _, _)

(* pb_decode_noinit and pb_decode. *)
DecodeNoinit(s, fields, msg) == DecodeMessage(Result(s, msg), fields, {})
Decode(s, fields, msg) == DecodeNoinit(s, fields, SetToDefaults(fields, msg))

(* A value cast to the width of the struct member must be unchanged. *)
Clamped(s, v, cast) == Result(IF v = cast THEN s ELSE Fail(s), cast)

(* pb_dec_varint: fields of 32 bits and less are cast to int32_t first. *)
DecVarint(s, f) ==
    LET r == DecodeVarint(s)
        v == Signed(r.v, IF f.size = Bits64 THEN Bits64 ELSE Bits32)
    IN  Clamped(r.s, v, Signed(v, f.size))
DecUvarint(s, f) == LET r == DecodeVarint(s) IN Clamped(r.s, r.v, r.v % 2^f.size)

(* pb_decode_svarint: ~(value >> 1) when the low bit is set. *)
Unzigzag(u) == IF u % 2 = 1 THEN -(u \div 2) - 1 ELSE u \div 2
DecSvarint(s, f) ==
    LET r == DecodeVarint(s)
        v == Unzigzag(r.v)
    IN  Clamped(r.s, v, Signed(v, f.size))

DecFixed(s, bits) ==
    LET n == bits \div ByteBits
    IN  Result(Read(s, n),
               FoldLeft(LAMBDA acc, i : acc + Bytes(s, n)[i] * 2^(ByteBits * (i - 1)),
                        0, [i \in 1 .. n |-> i]))

(* pb_dec_bytes: size excludes the count in front of the bytes. *)
DecBytes(s, f) ==
    LET r == DecodeVarint32(s)
    IN  IF f.atype = "pointer" \/ r.v > f.size THEN Result(Fail(r.s), <<>>)
        ELSE Result(Read(r.s, r.v), Bytes(r.s, r.v))

(* pb_dec_string: the length with its terminator is computed in 32 bits. *)
StringAllocation(size) == (size + 1) % 2^Bits32
DecString(s, f) ==
    LET r     == DecodeVarint32(s)
        alloc == StringAllocation(r.v)
    IN  IF alloc < r.v \/ f.atype = "pointer" \/ alloc > f.size
        THEN Result(Fail(r.s), <<>>)
        ELSE Result(Read(r.s, r.v), Bytes(r.s, r.v))

(* pb_dec_fixed_length_bytes: an empty string stands for zeros. *)
DecFixedLengthBytes(s, f) ==
    LET r == DecodeVarint32(s)
    IN  IF r.s.ok /\ r.v = 0 THEN Result(r.s, f.zero)
        ELSE IF r.v /= f.size THEN Result(Fail(r.s), f.zero)
        ELSE Result(Read(r.s, r.v), Bytes(r.s, r.v))

(* pb_dec_submessage: an array item is initialised first, any other        *)
(* submessage is merged with what it holds.                                *)
DecSubmessage(s, f, old) ==
    LET r == MakeStringSubstream(s)
    IN  IF ~r.s.ok THEN Result(r.s, old)
        ELSE FromSubstream(r.s, DecodeNoinit(r.v, f.sub,
                 IF f.htype = "repeated" THEN SetToDefaults(f.sub, old) ELSE old))

(* PB_DECODERS. *)
DecodeValue(s, f, old) ==
    CASE f.ltype = "varint"     -> DecVarint(s, f)
      [] f.ltype = "uvarint"    -> DecUvarint(s, f)
      [] f.ltype = "svarint"    -> DecSvarint(s, f)
      [] f.ltype = "fixed32"    -> DecFixed(s, Bits32)
      [] f.ltype = "fixed64"    -> DecFixed(s, Bits64)
      [] f.ltype = "bytes"      -> DecBytes(s, f)
      [] f.ltype = "string"     -> DecString(s, f)
      [] f.ltype = "submessage" -> DecSubmessage(s, f, old)
      [] f.ltype = "fixed_length_bytes" -> DecFixedLengthBytes(s, f)

----------------------------------------------------------------------------
(* Fields                                                                  *)

ZeroItem(f) == IF f.ltype = "submessage" THEN Zero(f.sub) ELSE f.zero

(* decode_static_field, packed array: items until the substream or the     *)
(* array ends; d is the substream and the items so far.                    *)
OneTooMany(f, items) == Len(items) <= f.max                 \* variant of HasRoom
HasRoom(f, items) == Len(items) < f.max
PackedItem(r, items) == Result(r.s, IF r.s.ok THEN Append(items, r.v) ELSE items)
RECURSIVE DecodePacked(_, _)
DecodePacked(d, f) ==
    IF ~d.s.ok \/ d.s.left = 0 \/ ~HasRoom(f, d.v) THEN d
    ELSE DecodePacked(PackedItem(DecodeValue(d.s, f, f.zero), d.v), f)

AllUsed(d) == IF d.s.left = 0 THEN d ELSE [d EXCEPT !.s = Fail(@)]
DecodePackedField(s, f, items) ==
    LET r == MakeStringSubstream(s)
    IN  IF ~r.s.ok THEN Result(r.s, items)
        ELSE FromSubstream(r.s, AllUsed(DecodePacked(Result(r.v, items), f)))

(* decode_static_field, otherwise: the value is decoded into what the      *)
(* member holds, or into a new item, and a oneof submessage starts from    *)
(* defaults; then the count, which_ or has_ is set.                        *)
Into(f, m) ==
    CASE f.htype = "repeated"           -> ZeroItem(f)
      [] f.htype = "oneof"              -> IF f.ltype = "submessage"
                                           THEN SetToDefaults(f.sub, Zero(f.sub)) ELSE f.zero
      [] f.htype = "optional" /\ f.has  -> m.value
      [] OTHER                          -> m
Assigned(r, f, m) ==
    Result(r.s, CASE f.htype = "repeated"          -> Append(m, r.v)
                  [] f.htype = "oneof"             -> [which |-> f.tag, value |-> r.v]
                  [] f.htype = "optional" /\ f.has -> [has |-> TRUE, value |-> r.v]
                  [] OTHER                         -> r.v)
DecodeStaticField(s, wire, f, m) ==
    IF f.htype = "repeated" /\ wire = PB_WT_STRING /\ f.ltype \in Packable
    THEN DecodePackedField(s, f, m)
    ELSE IF f.htype = "repeated" /\ ~HasRoom(f, m) THEN Result(Fail(s), m)
    ELSE Assigned(DecodeValue(s, f, Into(f, m)), f, m)

(* decode_callback_field.  The user's function takes all it is given; a    *)
(* string field calls it again until nothing is left.                      *)
DecodeCallbackField(s, wire, m) ==
    LET r   == MakeStringSubstream(s)
        raw == ReadRawValue(s, wire)
    IN  IF ~m.decode THEN Result(SkipField(s, wire), m)
        ELSE IF wire /= PB_WT_STRING
        THEN Result(raw.s, [m EXCEPT !.got = Append(@, raw.v)])
        ELSE IF ~r.s.ok THEN Result(r.s, m)
        ELSE Result(CloseStringSubstream(r.s, Read(r.v, r.v.left)),
                    [m EXCEPT !.got = Append(@, Bytes(r.v, r.v.left))])

(* decode_field; pointers need PB_ENABLE_MALLOC, which this build lacks. *)
DecodeField(s, wire, f, m) ==
    CASE f.atype = "static"   -> DecodeStaticField(s, wire, f, m)
      [] f.atype = "pointer"  -> Result(Fail(s), m)
      [] f.atype = "callback" -> DecodeCallbackField(s, wire, m)

(* decode_extension, default_extension_decoder: the extension with the     *)
(* tag, if one is registered; otherwise the field is skipped.              *)
ExtensionFound(r, m, i) == Result(r.s, [m EXCEPT ![i] = [found |-> TRUE, value |-> r.v]])
DecodeExtension(s, wire, f, m, tag) ==
    LET hits == {i \in DOMAIN m : f.sub[i].tag = tag}
        i    == CHOOSE i \in hits : TRUE
    IN  IF hits = {} THEN Result(SkipField(s, wire), m)
        ELSE ExtensionFound(DecodeField(s, wire, f.sub[i], m[i].value), m, i)

----------------------------------------------------------------------------
(* Messages                                                                *)

(* pb_decode_noinit, "Check that all required fields were present": whole  *)
(* words of fields_seen must be full; of the next one exactly the          *)
(* remaining bits, through a mask shifted by 32 minus their number.        *)
Word(seen, w) == {i \in seen : i \div SeenBits = w}
WholeWord(w)  == {i \in 0 .. MaxRequired - 1 : i \div SeenBits = w}
RemainingBits(s, count) ==
    IF count % SeenBits = 0 /\ s.wide = "ones" THEN WholeWord(count \div SeenBits)
    ELSE {i \in WholeWord(count \div SeenBits) : i < count}
AllRequired(s, fields, seen) ==
    LET count == Len(RequiredFields(fields))
    IN  \/ count = 0
        \/ /\ \A w \in 0 .. (count \div SeenBits) - 1 : Word(seen, w) = WholeWord(w)
           /\ Word(seen, count \div SeenBits) = RemainingBits(s, count)

(* A field no descriptor has: perhaps an extension.  In a message type     *)
(* without fields tag 0 finds the terminator, which cannot be decoded.     *)
Stored(r, msg, name) == Result(r.s, [msg EXCEPT ![name] = r.v])
DecodeUnknown(s, wire, tag, fields, msg) ==
    LET e == SelectSeq(fields, LAMBDA f : f.ltype = "extension")
    IN  IF fields = <<>> /\ tag = 0 THEN Result(Fail(s), msg)
        ELSE IF e = <<>> \/ tag < e[1].tag THEN Result(SkipField(s, wire), msg)
        ELSE Stored(DecodeExtension(s, wire, e[1], msg[e[1].name], tag), msg, e[1].name)

(* One round of the loop, and fields_seen after it. *)
DecodeNext(t, fields, msg) ==
    LET found == Find(fields, t.tag)
        f     == found[1]
    IN  IF found = <<>> THEN DecodeUnknown(t.s, t.wire, t.tag, fields, msg)
        ELSE Stored(DecodeField(t.s, t.wire, f, msg[f.name]), msg, f.name)
SeenAfter(t, fields, seen) ==
    LET found == Find(fields, t.tag)
    IN  IF found = <<>> \/ found[1].htype /= "required"
              \/ RequiredIndex(fields, found[1]) >= MaxRequired
        THEN seen ELSE seen \union {RequiredIndex(fields, found[1])}

(* The loop of pb_decode_noinit; d is the stream and the struct so far. *)
EndOfMessage(s, d, fields, seen) ==
    Result(IF AllRequired(s, fields, seen) THEN s ELSE Fail(s), d.v)
DecodeMessage(d, fields, seen) ==
    LET t == DecodeTag(d.s)
    IN  IF ~d.s.ok THEN d
        ELSE IF d.s.left = 0 THEN EndOfMessage(d.s, d, fields, seen)
        ELSE IF t.eof THEN EndOfMessage([t.s EXCEPT !.ok = TRUE], d, fields, seen)
        ELSE IF ~t.s.ok THEN Result(t.s, d.v)
        ELSE DecodeMessage(DecodeNext(t, fields, d.v), fields, SeenAfter(t, fields, seen))

(* pb_decode_delimited. *)
DecodeDelimited(s, fields, msg) ==
    LET r == MakeStringSubstream(s)
    IN  IF ~r.s.ok THEN Result(r.s, msg)
        ELSE FromSubstream(r.s, Decode(r.v, fields, msg))
=============================================================================
