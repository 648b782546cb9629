------------------------------ MODULE MCStored ------------------------------
(***************************************************************************)
(* What leveldb keeps on disk, for TLC: a behaviour is one of the levels   *)
(* (VersionSet) or one of a log file (Log), and "subject" says of which.   *)
(*                                                                         *)
(* The levels start from three databases: an empty one; one with two       *)
(* tables on each of the levels 1 and 2, which seeks, automatic and manual *)
(* compactions work on; and one with two overlapping tables on level 0     *)
(* and a snapshot.  Every database has its own bounds on what happens.     *)
(* In a log of blocks of 8 cells the long record takes three blocks, and   *)
(* the short ones leave room in theirs for no header or for nothing else.  *)
(***************************************************************************)
EXTENDS VersionSet, Log

VARIABLE subject

storedVars == <<subject, levelVars, logVars>>

StoredInit == subject \in {"levels", "log"} /\ LevelsInit /\ LogInit
                /\ (subject = "log" => written = <<>>)

LevelsStep == subject = "levels" /\ LevelsNext /\ UNCHANGED <<subject, logVars>>
LogStep == subject = "log" /\ LogNext /\ UNCHANGED <<subject, levelVars>>

StoredSpec == StoredInit /\ [][LevelsStep \/ LogStep]_storedVars

(* Get at the latest sequence number and at every live snapshot returns    *)
(* the last write up to it, while compactions run (ReadsAreCurrent of      *)
(* VersionSet, on the behaviours of the levels).                           *)
LevelsReadsAreCurrent == subject = "levels" => ReadsAreCurrent

----------------------------------------------------------------------------
MCKeys == 1 .. 3

Value(k) == [key |-> k, type |-> "value"]
Entry(k, s) == [key |-> k, seq |-> s, type |-> "value"]
File(n, es) == [number |-> n, entries |-> es]
Left(w, s, k, m) == [write |-> w, snapshot |-> s, seek |-> k, manual |-> m]

Fresh ==
    [written |-> <<>>, files |-> EmptyLevels, snapshots |-> {}, next |-> 20, left |-> Left(3, 1, 1, 0)]
Layered ==
    [written |-> <<Value(1), Value(3), Value(1), Value(3)>>, snapshots |-> {}, next |-> 20,
     files |-> [EmptyLevels EXCEPT
                  ![1] = <<File(3, {Entry(1, 3)}), File(4, {Entry(3, 4)})>>,
                  ![2] = <<File(1, {Entry(1, 1)}), File(2, {Entry(3, 2)})>>],
     left |-> Left(1, 0, 1, 1)]
Snapped ==
    [written |-> <<Value(2), Value(3), Value(2), Value(1)>>, snapshots |-> {2}, next |-> 20,
     files |-> [EmptyLevels EXCEPT
                  ![0] = <<File(1, {Entry(2, 1), Entry(3, 2)}),
                           File(2, {Entry(2, 3), Entry(1, 4)})>>],
     left |-> Left(1, 0, 0, 1)]
MCDatabases == {Fresh, Layered, Snapped}

MCLengths == {2, 3, 11}
MCInitialOffsets == {0, 9}
=============================================================================
