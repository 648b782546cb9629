------------------------------ MODULE MCDBImpl ------------------------------
(***************************************************************************)
(* Instance of DBImpl for TLC: three writers, of which one always asks for *)
(* a sync, one may, and one may force a compaction of the memtable instead *)
(* (a Write with a null batch); the database is new or has one table.      *)
(***************************************************************************)
EXTENDS DBImpl

MCWriters == 1 .. 3
MCKinds == << {"put", "sync"}, {"sync"}, {"put", "force"} >>

=============================================================================
