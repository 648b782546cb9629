------------------------------ MODULE PbCommon ------------------------------
(***************************************************************************)
(* nanopb (pb.h, pb_common.c): field descriptors and message structs, as   *)
(* the build of this application compiles them (PB_FIELD_32BIT, no         *)
(* PB_ENABLE_MALLOC).                                                      *)
(*                                                                         *)
(* A descriptor is a record                                                *)
(*   tag, name    the field number; the struct member it is stored in (all *)
(*                fields of a oneof have one member)                       *)
(*   ltype        "varint", "uvarint", "svarint", "fixed32", "fixed64",    *)
(*                "bytes", "string", "submessage", "extension",            *)
(*                "fixed_length_bytes"                                     *)
(*   htype        "required", "optional", "repeated", "oneof"              *)
(*   atype        "static", "pointer", "callback"                          *)
(*   size         data_size: bits of an integer, bytes of anything else    *)
(*   max          array_size                                               *)
(*   has          an optional field has a has_ member (proto2)             *)
(*   sub          descriptors of a submessage, or of the extensions        *)
(*   default,zero the default value of a scalar; the value of zero bytes   *)
(*                                                                         *)
(* A struct is a function from member names.  A member is the value, or    *)
(* [has, value]; a repeated one is the sequence of the items in use, a     *)
(* oneof [which, value], a pointer the sequence of what it points to (of   *)
(* none when NULL).  A callback is [decode, got, sized, real]: whether a   *)
(* decoder is set, what it was given, and what the encoder writes when the *)
(* stream only counts and when it writes.  Extensions are a sequence of    *)
(* [found, value].  Integers are stored by value, strings and bytes as     *)
(* sequences of bytes.                                                     *)
(***************************************************************************)
EXTENDS Integers, Sequences, FiniteSets, SequencesExt

CONSTANTS
    GroupBits,      \* bits of a varint byte (7 in the code); a byte has one more
    Bits32, Bits64, \* the integer widths
    SeenBits        \* fields_seen: bits of a word (32)

ByteBits == GroupBits + 1
Byte     == 0 .. 2^ByteBits - 1

PB_WT_VARINT == 0
PB_WT_64BIT  == 1
PB_WT_STRING == 2
PB_WT_32BIT  == 5

Packable == {"varint", "uvarint", "svarint", "fixed32", "fixed64"}
LTypes == Packable \union
          {"bytes", "string", "submessage", "extension", "fixed_length_bytes"}
HTypes == {"required", "optional", "repeated", "oneof"}
ATypes == {"static", "pointer", "callback"}

(* The descriptors PB_FIELD and PB_ONEOF_FIELD can make. *)
RECURSIVE WellFormed(_)
WellFormed(fields) ==
    \A i \in DOMAIN fields :
        LET f == fields[i]
        IN  /\ f.tag > 0 /\ f.ltype \in LTypes /\ f.htype \in HTypes /\ f.atype \in ATypes
            /\ f.has => f.htype = "optional" /\ f.atype = "static"
            /\ f.htype = "oneof" => f.atype /= "callback"
            /\ WellFormed(f.sub)

MaxRequired == 2 * SeenBits             \* PB_MAX_REQUIRED_FIELDS

(* PB_FIELD: a required varint of 32 bits, and what the other rules,       *)
(* allocations and types make of a descriptor.                             *)
Required(t, n) ==
    [tag |-> t, name |-> n, ltype |-> "varint", htype |-> "required", atype |-> "static",
     size |-> Bits32, max |-> 0, has |-> FALSE, sub |-> <<>>, default |-> 0, zero |-> 0]
Typed(f, ltype, size, zero) ==
    [f EXCEPT !.ltype = ltype, !.size = size, !.default = zero, !.zero = zero]
Submessage(f, fields)  == [f EXCEPT !.ltype = "submessage", !.sub = fields]
Optional(f)            == [f EXCEPT !.htype = "optional", !.has = TRUE]
Singular(f)            == [f EXCEPT !.htype = "optional"]                    \* proto3
Repeated(f, max)       == [f EXCEPT !.htype = "repeated", !.max = max]
OneOf(f, union)        == [f EXCEPT !.htype = "oneof", !.name = union]
Pointer(f)             == [f EXCEPT !.atype = "pointer"]
Callback(f)            == [f EXCEPT !.htype = "optional", !.atype = "callback"]
Extensions(f, fields)  == [f EXCEPT !.htype = "optional", !.ltype = "extension", !.sub = fields]

(* The value of the low bits of v as a signed integer. *)
Signed(v, bits) == LET u == v % 2^bits IN IF u < 2^(bits - 1) THEN u ELSE u - 2^bits

(* pb_field_iter_find: tags are unique, and the search wraps round, so the *)
(* position it starts from does not matter.                                *)
Matches(f, tag) == f.tag = tag /\ f.ltype /= "extension"
Find(fields, tag) == SelectSeq(fields, LAMBDA f : Matches(f, tag))

(* required_field_index: the number of required fields in front of f. *)
RequiredFields(fields) == SelectSeq(fields, LAMBDA f : f.htype = "required")
RequiredIndex(fields, f) ==
    (CHOOSE i \in DOMAIN RequiredFields(fields) : RequiredFields(fields)[i].tag = f.tag) - 1

----------------------------------------------------------------------------
(* Initial values                                                          *)

RECURSIVE Zero(_), SetToDefaults(_, _)

(* The descriptor of the first field stored in member n. *)
Field(fields, n) == SelectSeq(fields, LAMBDA f : f.name = n)[1]
Members(fields) == {fields[i].name : i \in DOMAIN fields}

(* memset to zero. *)
ZeroMember(f) ==
    CASE f.atype = "callback"  -> [decode |-> FALSE, got |-> <<>>, sized |-> <<>>, real |-> <<>>]
      [] f.htype = "repeated" \/ f.atype = "pointer" -> <<>>
      [] f.htype = "oneof"     -> [which |-> 0, value |-> <<>>]
      [] OTHER -> LET v == IF f.ltype = "submessage" THEN Zero(f.sub) ELSE f.zero
                  IN  IF f.has THEN [has |-> FALSE, value |-> v] ELSE v
Zero(fields) == [n \in Members(fields) |-> ZeroMember(Field(fields, n))]

(* pb_field_set_to_default: an item gets its default; counts and which_    *)
(* are cleared but not the data behind them; callbacks are left alone.     *)
InitialItem(f, old) == IF f.ltype = "submessage" THEN SetToDefaults(f.sub, old) ELSE f.default
SetToDefault(f, member) ==
    CASE f.ltype = "extension" ->
            [i \in DOMAIN member |-> [found |-> FALSE,
                                      value |-> InitialItem(f.sub[i], member[i].value)]]
      [] f.atype = "callback" -> member
      [] f.atype = "pointer" \/ f.htype = "repeated" -> <<>>
      [] f.htype = "oneof" -> [member EXCEPT !.which = 0]
      [] f.has -> [has |-> FALSE, value |-> InitialItem(f, member.value)]
      [] OTHER -> InitialItem(f, member)

(* pb_message_set_to_defaults. *)
SetToDefaults(fields, msg) ==
    [n \in Members(fields) |-> SetToDefault(Field(fields, n), msg[n])]
=============================================================================
