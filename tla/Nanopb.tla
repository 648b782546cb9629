------------------------------- MODULE Nanopb -------------------------------
(***************************************************************************)
(* A message travels: one side encodes a struct into a buffer of some      *)
(* size, the bytes may arrive damaged or followed by the same message      *)
(* again, the other side decodes them into a struct that already holds an  *)
(* older message.                                                          *)
(***************************************************************************)
EXTENDS PbEncode, PbDecode

CONSTANTS
    Cases,      \* a sequence of [fields, messages]: message types and structs of each
    Damage      \* the values a damaged byte may take

VARIABLES
    type, msg,  \* the descriptors and the struct that is sent
    delimited,  \* pb_encode_delimited and pb_decode_delimited are used
    limit,      \* the size of the sender's buffer
    sent,       \* the sender's stream
    wire,       \* the bytes that arrive
    fault,      \* "none", "twice", "truncated" or "damaged"
    got,        \* the receiver's stream and struct
    pbPhase     \* "encode", "transmit", "decode", "refused" or "done"

pbVars == <<type, msg, delimited, limit, sent, wire, fault, got, pbPhase>>

fields == Cases[type].fields
announced == IF delimited THEN EncodeDelimited(Sizing, fields, msg)
             ELSE GetEncodedSize(fields, msg)

PbInit ==
    /\ type \in {t \in DOMAIN Cases : WellFormed(Cases[t].fields)}
    /\ msg \in Cases[type].messages
    /\ delimited \in BOOLEAN
    /\ limit \in 0 .. announced.written + 1
    /\ sent = OstreamFromBuffer(limit)
    /\ wire = <<>>
    /\ fault = "none"
    /\ got = [s |-> IstreamFromBuffer(<<>>, "zero"), v |-> msg]
    /\ pbPhase = "encode"

PbEncode ==
    /\ pbPhase = "encode"
    /\ sent' = IF delimited THEN EncodeDelimited(sent, fields, msg)
               ELSE EncodeMessage(sent, fields, msg)
    /\ wire' = sent'.out
    /\ pbPhase' = IF sent'.ok THEN "transmit" ELSE "refused"
    /\ UNCHANGED <<type, msg, delimited, limit, fault, got>>

(* The bytes arrive as they are, twice, cut short or with one changed.  A  *)
(* larger buffer leaves the same bytes: one of the sizes is followed.      *)
PbTransmit ==
    /\ pbPhase = "transmit"
    /\ limit > announced.written
    /\ \/ fault' = "none" /\ UNCHANGED wire
       \/ fault' = "twice" /\ wire' = wire \o wire
       \/ \E n \in 0 .. Len(wire) - 1 : fault' = "truncated" /\ wire' = SubSeq(wire, 1, n)
       \/ \E i \in DOMAIN wire, b \in Damage :
             fault' = "damaged" /\ wire' = [wire EXCEPT ![i] = b]
    /\ pbPhase' = "decode"
    /\ UNCHANGED <<type, msg, delimited, limit, sent, got>>

(* The struct decoded into holds another message of its type. *)
PbDecode ==
    /\ pbPhase = "decode"
    /\ \E old \in Cases[type].messages, wide \in {"zero", "ones"} :
          /\ fault = "none" \/ old = msg
          /\ LET in == IstreamFromBuffer(wire, wide)
             IN  got' = IF delimited THEN DecodeDelimited(in, fields, old)
                        ELSE Decode(in, fields, old)
    /\ pbPhase' = "done"
    /\ UNCHANGED <<type, msg, delimited, limit, sent, wire, fault>>

PbNext == PbEncode \/ PbTransmit \/ PbDecode

PbSpec == PbInit /\ [][PbNext]_pbVars

----------------------------------------------------------------------------
(* What a receiver should hold                                             *)

RECURSIVE Transmitted(_, _), Zeros(_, _), Twice(_, _), Overfull(_, _), Changing(_, _, _),
          InBounds(_, _), Content(_, _)

Item(f, v) ==
    CASE f.ltype = "submessage" -> Transmitted(f.sub, v)
      [] f.ltype = "string"     -> CString(v, f.size)
      [] OTHER                  -> v
Default(f) == IF f.ltype = "submessage" THEN SetToDefaults(f.sub, Zero(f.sub)) ELSE f.default

(* The items a static member stores, set or not. *)
Held(f, v) ==
    CASE f.atype /= "static" \/ f.ltype = "extension" -> <<>>
      [] f.htype = "repeated" -> v
      [] f.htype = "oneof"    -> IF v.which = f.tag THEN <<v.value>> ELSE <<>>
      [] f.has                -> <<v.value>>
      [] OTHER                -> <<v>>

(* What every member stores, arrays in their first item, is zero, and the  *)
(* rest (callbacks, pointers, extensions) is not there.                    *)
Zeros(fs, m) ==
    \A n \in DOMAIN fs :
        LET f    == fs[n]
            v    == m[f.name]
            held == Held(f, v)
        IN  /\ f.atype = "callback" => v = ZeroMember(f)
            /\ f.atype = "pointer" \/ f.ltype = "extension" => v = <<>>
            /\ held /= <<>> =>
                  CASE f.ltype = "string"     -> CString(held[1], f.size) = <<>>
                    [] f.ltype = "submessage" -> Zeros(f.sub, held[1])
                    [] f.ltype \in {"bytes", "fixed_length_bytes"} -> held[1] = <<>>
                    [] OTHER                  -> held[1] = 0

(* What proto3 loses here: a submessage without a has_ of its own that     *)
(* stores zeros only, whatever its has_ members, counts and which_ say.    *)
Lost(f, m) == f.ltype = "submessage" /\ Zeros(f.sub, m)

(* A struct as it is after one transmission (extensions are required).     *)
TransmittedMember(f, m) ==
    CASE f.ltype = "extension" -> [i \in DOMAIN m |-> [m[i] EXCEPT !.found = TRUE]]
      [] f.atype = "callback"  ->
            [m EXCEPT !.got = IF m.decode /\ m.real /= <<>> THEN <<m.real>> ELSE <<>>]
      [] f.atype = "pointer"   -> <<>>
      [] f.htype = "repeated"  -> [i \in DOMAIN m |-> Item(f, m[i])]
      [] f.htype = "oneof"     -> [m EXCEPT !.value = IF m.which = f.tag THEN Item(f, @) ELSE @]
      [] f.has -> [m EXCEPT !.value = IF m.has THEN Item(f, @) ELSE Default(f)]
      [] f.htype = "optional"  -> IF Lost(f, m) THEN Default(f) ELSE Item(f, m)
      [] OTHER -> Item(f, m)
Transmitted(fs, m) ==
    [n \in Members(fs) |->
        LET own == SelectSeq(fs, LAMBDA f : f.name = n /\ f.htype = "oneof"
                                                /\ m[n].which = f.tag)
        IN  TransmittedMember(IF own = <<>> THEN Field(fs, n) ELSE own[1], m[n])]

(* The same message received once more merges: arrays and what callbacks   *)
(* got double, also in submessages, but a oneof starts again.              *)
Twice(fs, m) ==
    [n \in Members(fs) |->
        LET f == Field(fs, n)
            v == m[n]
        IN  CASE f.atype = "callback" -> [v EXCEPT !.got = @ \o @]
              [] f.htype = "repeated" /\ f.ltype /= "extension" -> v \o v
              [] f.ltype = "submessage" /\ f.htype \in {"required", "optional"} ->
                    IF f.has THEN [v EXCEPT !.value = IF v.has THEN Twice(f.sub, @) ELSE @]
                    ELSE Twice(f.sub, v)
              [] OTHER -> v]

(* More items than an array has room for. *)
Overfull(fs, m) ==
    \E i \in DOMAIN fs :
        LET f == fs[i]
        IN  \/ f.htype = "repeated" /\ f.ltype /= "extension" /\ Len(m[f.name]) > f.max
            \/ /\ f.ltype = "submessage" /\ f.htype \in {"required", "optional"}
               /\ f.atype = "static"
               /\ Overfull(f.sub, IF f.has THEN m[f.name].value ELSE m[f.name])

(* A callback writes another number of bytes than it announced; counted    *)
(* says that the message it is in is preceded by its size.                 *)
Changing(fs, m, counted) ==
    \E i \in DOMAIN fs :
        LET f == fs[i]
            v == m[f.name]
        IN  \/ counted /\ f.atype = "callback" /\ Len(v.sized) /= Len(v.real)
            \/ /\ f.ltype = "submessage" /\ f.atype = "static" /\ f.htype = "required"
               /\ Changing(f.sub, v, TRUE)

(* What this build cannot decode: pointers; and, where a shift by a whole  *)
(* word leaves it unchanged, a type whose required fields fill a word.     *)
Undecodable(fs, m) ==
    \/ \E i \in DOMAIN fs : fs[i].atype = "pointer" /\ m[fs[i].name] /= <<>>
    \/ /\ RequiredFields(fs) /= <<>> /\ Len(RequiredFields(fs)) % SeenBits = 0
       /\ got.s.wide = "ones"

(* Arrays, strings and bytes lie within their storage. *)
InBounds(fs, m) ==
    \A n \in DOMAIN fs :
        LET f    == fs[n]
            held == Held(f, m[f.name])
        IN  /\ f.htype = "repeated" => Len(held) <= f.max
            /\ \A i \in DOMAIN held :
                  CASE f.ltype = "string"     -> Len(held[i]) < f.size
                    [] f.ltype = "bytes"      -> Len(held[i]) <= f.size
                    [] f.ltype = "submessage" -> InBounds(f.sub, held[i])
                    [] OTHER                  -> TRUE

(* Callbacks keep their functions; the data behind an unset oneof, and the *)
(* functions themselves, are not part of the message.                      *)
Content(fs, m) ==
    [n \in Members(fs) |->
        CASE Field(fs, n).htype = "oneof"    -> IF m[n].which = 0 THEN <<>> ELSE m[n]
          [] Field(fs, n).atype = "callback" -> m[n].got
          [] Field(fs, n).ltype = "submessage" /\ Field(fs, n).htype = "required" ->
                Content(Field(fs, n).sub, m[n])
          [] OTHER                           -> m[n]]

----------------------------------------------------------------------------
(* Properties                                                              *)

(* pb_decode gives back what pb_encode was given, whatever the receiving   *)
(* struct held before, with one loss: pb_check_proto3_default_value takes  *)
(* a singular submessage of proto3 that stores only zeros (Lost) for an    *)
(* empty one, also when a has_ in it is set or an array in it begins with  *)
(* zero, and the receiver finds the default there.  Nothing else is lost.  *)
(* A second copy of the message merges with the first (pb_decode_noinit on *)
(* a struct in use) or overflows an array, and is not read at all behind a *)
(* delimited message.                                                      *)
RoundTrip ==
    pbPhase = "done" /\ fault \in {"none", "twice"} =>
        LET once   == Transmitted(fields, msg)
            wanted == IF fault = "twice" /\ ~delimited THEN Twice(fields, once) ELSE once
        IN  IF Undecodable(fields, msg) \/ Overfull(fields, wanted)
            THEN ~got.s.ok
            ELSE /\ got.s.ok
                 /\ Content(fields, got.v) = Content(fields, wanted)
                 /\ got.s.pos = IF delimited THEN Len(sent.out) ELSE Len(wire)

(* The sizing pass and the writing pass of the encoder agree: a buffer is  *)
(* accepted exactly when pb_get_encoded_size fits in it, never overrun,    *)
(* and a submessage whose callback writes something else the second time   *)
(* is refused.                                                             *)
SizesAgree ==
    pbPhase /= "encode" =>
        /\ Len(sent.out) = sent.written /\ sent.written <= limit
        /\ Changing(fields, msg, delimited) => ~sent.ok
        /\ ~Changing(fields, msg, TRUE) =>
               /\ sent.ok <=> announced.ok /\ announced.written <= limit
               /\ sent.ok => sent.written = announced.written

(* Whatever bytes arrive, the decoder reads none behind the buffer, keeps  *)
(* the position and the remaining length of nested streams in step, writes *)
(* nothing outside the storage of a member, and accepts a message that was *)
(* cut short only if every required field arrived.                         *)
DecodeStaysInside ==
    pbPhase = "done" =>
        /\ ~got.s.beyond
        /\ got.s.ok => got.s.pos + got.s.left = Len(wire)
        /\ InBounds(fields, got.v)
        /\ got.s.ok /\ fault = "truncated" =>
               \A i \in DOMAIN fields :
                   fields[i].htype = "required" =>
                       got.v[fields[i].name] = Transmitted(fields, msg)[fields[i].name]
=============================================================================
