------------------------------ MODULE MCTables ------------------------------
(***************************************************************************)
(* Reading sorted data, for TLC: a behaviour is one of a table file        *)
(* (Table), or one of an iterator over the database (DBIter), and          *)
(* "subject" says of which.                                                *)
(*                                                                         *)
(* The keys of the table have common prefixes, a last byte that cannot be  *)
(* increased (2) and several entries for a user key; values are as long as *)
(* a block or empty, so that a filter covers several blocks and a block    *)
(* several filters.  The database is a memtable and one table with three   *)
(* entries between them, of keys 0 (the empty one) to 2.                   *)
(***************************************************************************)
EXTENDS Table, DBIter

VARIABLE subject

readVars == <<subject, tableVars, dbIterVars>>

(* An iterator that is not followed is over three writes of one key. *)
OneKey == /\ sequence_ = 1
          /\ contents = [i \in Children |->
                IF i > 1 THEN {}
                ELSE [user : {0}, seq : 1 .. StoredWrites, type : {"value"}]]

ReadInit == /\ subject \in {"table", "iterator"}
            /\ TableInit /\ DBIterInit
            /\ subject = "table" => OneKey

TableMove == subject = "table" /\ TableStep /\ UNCHANGED <<subject, dbIterVars>>
IteratorMove == subject = "iterator" /\ DBIterNext /\ UNCHANGED <<subject, tableVars>>

ReadSpec == ReadInit /\ [][TableMove \/ IteratorMove]_readVars

----------------------------------------------------------------------------
MCInternalKeys ==
    {<<0,0,1,2>>, <<0,0,1,1>>, <<0,2,1>>, <<1,2,2>>, <<1,2,1>>, <<2,1>>, <<2,2,1>>}
MCUsers ==
    {<<>>, <<0,0,1>>, <<0,1>>, <<0,2>>, <<1>>, <<1,2>>, <<2>>, <<2,2>>}
MCTargets ==
    {Append(u, 3) : u \in MCUsers} \cup {<<0,0,1,1>>, <<0,0,1,0>>, <<1,2,1>>, <<2,0>>}
MCValueSize == [k \in MCInternalKeys |-> IF k[Len(k)] = 2 THEN 9 ELSE 0]
MCBloomHash ==
    [u \in MCUsers |-> IF u = <<>> THEN 5
                       ELSE (u[1] * 5 + Len(u) * 3 + u[Len(u)]) % 16]

MCUserKeys == 0 .. 2
MCChildren == 1 .. 2
=============================================================================
