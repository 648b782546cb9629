------------------------------ MODULE MCRuntime ------------------------------
(***************************************************************************)
(* What the stores of the app rest on, for TLC: a behaviour is one of      *)
(* nanopb, of the table cache, of the skip list, of the LOCK file or of    *)
(* the background thread, and "subject" says of which.                     *)
(*                                                                         *)
(* Bytes are 4 bits wide and the two integer widths 8 and 16, so that      *)
(* values need one to six bytes of a varint, as in the code they need one  *)
(* to ten; a word of fields_seen has two bits.  Two of three files share a *)
(* hash, and one file fills the cache alone.                               *)
(***************************************************************************)
EXTENDS Nanopb, TableCache, SkipList, PosixEnv

VARIABLE subject

runtimeVars == <<subject, pbVars, cacheVars, skipVars, lockVars, bgVars>>

(* Where nanopb is not followed, it has a message without fields. *)
RuntimeInit ==
    /\ subject \in {"nanopb", "cache", "skiplist", "lock", "background"}
    /\ PbInit /\ CacheInit /\ SkipInit /\ LockInit /\ BgInit
    /\ subject # "nanopb" => fields = <<>> /\ ~delimited /\ limit = 0

NanopbStep ==
    /\ subject = "nanopb" /\ PbNext
    /\ UNCHANGED <<subject, cacheVars, skipVars, lockVars, bgVars>>
CacheStep ==
    /\ subject = "cache" /\ CacheNext
    /\ UNCHANGED <<subject, pbVars, skipVars, lockVars, bgVars>>
SkipListStep ==
    /\ subject = "skiplist" /\ SkipNext
    /\ UNCHANGED <<subject, pbVars, cacheVars, lockVars, bgVars>>
LockFileStep ==
    /\ subject = "lock" /\ LockNext
    /\ UNCHANGED <<subject, pbVars, cacheVars, skipVars, bgVars>>
BackgroundStep ==
    /\ subject = "background" /\ BgNext
    /\ UNCHANGED <<subject, pbVars, cacheVars, skipVars, lockVars>>

RuntimeNext ==
    NanopbStep \/ CacheStep \/ SkipListStep \/ LockFileStep \/ BackgroundStep

RuntimeSpec == RuntimeInit /\ [][RuntimeNext]_runtimeVars

----------------------------------------------------------------------------
(* Message types, with the structs that are sent: one without fields,      *)
(* integers at the ends of their ranges, arrays, strings and bytes,        *)
(* submessages in a oneof and an array, proto3 submessages, callbacks that *)
(* write what they announced or something else, extensions, types with two *)
(* and with three required fields (one word, and more than one, of         *)
(* fields_seen), a oneof of scalars, and a pointer.                        *)

Sub(t, n, fs) == Submessage(Required(t, n), fs)
Of(t, n, ltype, size, zero) == Typed(Required(t, n), ltype, size, zero)
Func(sized, real) == [decode |-> TRUE, got |-> <<>>, sized |-> sized, real |-> real]
Maybe(values, d) == [has : {TRUE}, value : values] \cup {[has |-> FALSE, value |-> d]}
Type(fs, ms) == [fields |-> fs, messages |-> ms]

Leaf == <<Repeated(Required(1, "r"), 2),
          [Optional(Required(2, "o")) EXCEPT !.default = 3]>>
LeafMsgs == [r : {<<>>, <<0, 5>>}, o : Maybe({0}, 3)]
              \cup [r : {<<0>>, <<1, -1>>}, o : Maybe({5}, 3)]
FullLeaf == [r |-> <<1>>, o |-> [has |-> TRUE, value |-> 5]]
NewLeaf  == [r |-> <<>>, o |-> [has |-> FALSE, value |-> 3]]

Numbers ==
    Type(<<Required(1, "a"), [Optional(Of(2, "b", "svarint", 16, 0)) EXCEPT !.default = 7],
           Singular(Of(3, "c", "uvarint", 4, 0))>>,
         [a : {-128, -1, 127}, b : Maybe({-32768, 32767}, 7), c : {0, 15}])
Arrays ==
    Type(<<Repeated(Of(1, "a", "svarint", 8, 0), 2), Repeated(Of(2, "b", "fixed32", 8, 0), 2),
           Repeated(Of(3, "c", "string", 3, <<>>), 2)>>,
         [a : {<<>>, <<0>>, <<-128, 127>>, <<1, 2, 3>>}, b : {<<>>, <<255, 16>>},
          c : {<<>>, <<<<>>>>, <<<<9, 1>>, <<2>>>>}])
Strings ==
    Type(<<Optional(Of(1, "a", "bytes", 2, <<>>)), Singular(Of(2, "b", "string", 3, <<>>)),
           Of(3, "c", "fixed_length_bytes", 2, <<0, 0>>),
           Optional(Of(16, "d", "fixed64", 16, 0))>>,
         [a : Maybe({<<>>, <<0, 15>>}, <<>>), b : {<<>>, <<7, 7>>}, c : {<<1, 2>>},
          d : Maybe({4660}, 0)])
Nested ==
    Type(<<Sub(1, "s", Leaf), OneOf(Sub(2, "", <<Required(1, "i")>>), "u"),
           OneOf(Sub(3, "", Leaf), "u"), Repeated(Sub(4, "t", Leaf), 2)>>,
         [s : LeafMsgs, t : {<<>>, <<FullLeaf>>},
          u : {[which |-> 0, value |-> <<>>], [which |-> 2, value |-> [i |-> 9]],
               [which |-> 3, value |-> FullLeaf]}])
Proto3 ==
    Type(<<Singular(Sub(1, "s", Leaf)), Optional(Sub(2, "o", Leaf))>>,
         [s : LeafMsgs, o : Maybe({FullLeaf}, NewLeaf)])
Callbacks ==
    Type(<<Callback(Required(1, "k")),
           Sub(2, "s", <<Required(1, "i"), Callback(Required(2, "k"))>>)>>,
         [k : {Func(<<>>, <<>>), Func(<<1, 2>>, <<1, 2>>), Func(<<1>>, <<1, 2>>)},
          s : [i : {1}, k : {Func(<<>>, <<>>), Func(<<4>>, <<4>>),
                             Func(<<4>>, <<4, 4>>), Func(<<4, 4>>, <<4>>)}]])
Extended ==
    Type(<<Required(1, "a"),
           Extensions(Required(3, "x"), <<Required(4, ""), Of(5, "", "svarint", 16, 0)>>)>>,
         [a : {5}, x : {<<[found |-> FALSE, value |-> v],
                          [found |-> FALSE, value |-> -1]>> : v \in {0, 9}}])
TwoRequired ==
    Type(<<Required(1, "a"), Required(2, "b")>>, [a : {1}, b : {0, 1}])
ThreeRequired ==
    Type(<<Required(1, "a"), Required(2, "b"), Required(3, "c")>>,
         [a : {1}, b : {0, 1}, c : {1}])
Scalars ==
    Type(<<OneOf(Of(1, "", "uvarint", 8, 0), "u"), OneOf(Of(2, "", "fixed32", 8, 0), "u")>>,
         [u : [which : {1, 2}, value : {0, 9}]])
Pointers ==
    Type(<<Pointer(Singular(Required(1, "p"))), Required(2, "a")>>,
         [p : {<<>>, <<0>>}, a : {1}])

MCCases == <<Type(<<>>, {<<>>}), Numbers, Arrays, Strings, Nested, Proto3, Callbacks,
             Extended, TwoRequired, ThreeRequired, Scalars, Pointers>>
MCDamage == {0, 1, 10, 15}

MCHash == [f \in Files |-> IF f = 3 THEN 2 ELSE f]
MCCharge == [f \in Files |-> IF f = 2 THEN 2 ELSE 1]
=============================================================================
