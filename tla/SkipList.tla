------------------------------ MODULE SkipList ------------------------------
(***************************************************************************)
(* The skip list of the memtable (db/skiplist.h): one writer, serialised   *)
(* from outside, and readers that take no lock.  A step is one load or one *)
(* store of a link.  Nodes are their keys, with the head in front of and   *)
(* NULL behind all of them.                                                *)
(***************************************************************************)
EXTENDS Integers, Sequences, FiniteSets

CONSTANTS
    MaxKey,     \* keys are 1 .. MaxKey
    kMaxHeight  \* 12 in the code

Keys == 1 .. MaxKey
Head_ == 0
NULL == MaxKey + 1
Unset == MaxKey + 2     \* a link that was never written: arena memory
Levels == 1 .. kMaxHeight
Nodes == {Head_} \union Keys

(* What the code takes for granted of its constants. *)
SkipAssumption == MaxKey \in Nat /\ kMaxHeight \in Nat \ {0}
ASSUME SizesAssumption == SkipAssumption

VARIABLES
    next_,          \* next_[n][l]: the link of node n at level l
    max_height_,
    oldHeight,      \* its value before the insertion under way
    inserted,       \* keys whose Insert has returned
    writer,         \* the insertion under way
    search          \* the reader's operation

skipVars == <<next_, max_height_, oldHeight, inserted, writer, search>>

SkipInit ==
    /\ next_ = [n \in Nodes |->
                   [l \in Levels |-> IF n = Head_ THEN NULL ELSE Unset]]
    /\ max_height_ = 1
    /\ oldHeight = 1
    /\ inserted = {}
    /\ writer = [at |-> "idle"]
    /\ search = [at |-> "idle"]

----------------------------------------------------------------------------
(* Insert                                                                  *)

(* FindGreaterOrEqual's prev: the node in front of key at a level whose    *)
(* link leads to key or beyond it.  The writer alone changes links, so it  *)
(* searches a sorted list that stands still, in which that node is the one *)
(* where the walk from the head stops; above max_height_ it takes the head.*)
Prev(key, l) ==
    IF l <= max_height_
    THEN CHOOSE n \in Nodes : n < key /\ next_[n][l] \in key .. NULL
    ELSE Head_

(* RandomHeight is any height; then max_height_ and NewNode. *)
StartInsert(key, height) ==
    /\ writer.at = "idle"
    /\ key \notin inserted
    /\ writer' = [at |-> "set", key |-> key, height |-> height, link |-> 1,
                  prev |-> [l \in 1 .. height |-> Prev(key, l)]]
    /\ oldHeight' = max_height_
    /\ max_height_' = IF height > max_height_ THEN height ELSE max_height_
    /\ UNCHANGED <<next_, inserted, search>>

TopDown(i, height) == height + 1 - i                        \* variant of LinkLevel
(* The links are made from the bottom level up. *)
LinkLevel(i, height) == i

(* x->NoBarrier_SetNext(i, prev[i]->NoBarrier_Next(i)). *)
SetOwnLink ==
    /\ writer.at = "set"
    /\ LET l == LinkLevel(writer.link, writer.height)
       IN  next_' = [next_ EXCEPT ![writer.key][l] = next_[writer.prev[l]][l]]
    /\ writer' = [writer EXCEPT !.at = "publish"]
    /\ UNCHANGED <<max_height_, oldHeight, inserted, search>>

(* prev[i]->SetNext(i, x), the release store. *)
Publish ==
    /\ writer.at = "publish"
    /\ LET l == LinkLevel(writer.link, writer.height)
       IN  next_' = [next_ EXCEPT ![writer.prev[l]][l] = writer.key]
    /\ IF writer.link < writer.height
       THEN /\ writer' = [writer EXCEPT !.at = "set", !.link = @ + 1]
            /\ UNCHANGED <<inserted, oldHeight>>
       ELSE /\ writer' = [at |-> "idle"]
            /\ inserted' = inserted \union {writer.key}
            /\ oldHeight' = max_height_
    /\ UNCHANGED <<max_height_, search>>

----------------------------------------------------------------------------
(* Readers                                                                 *)

(* A search for key: "seek" is FindGreaterOrEqual (Seek, Contains), "less" *)
(* FindLessThan (Prev), "last" FindLast.  max_height_ is read without a    *)
(* barrier and may be the value before the insertion under way.  must      *)
(* holds the keys that were in the list when the search began.             *)
Kinds == {"seek", "less", "last"}
StartSearch(kind, key) ==
    /\ search.at = "idle"
    /\ \E h \in {oldHeight, max_height_} :
          search' = [at |-> "load", kind |-> kind, key |-> key, x |-> Head_, level |-> h,
                     must |-> inserted]
    /\ UNCHANGED <<next_, max_height_, oldHeight, inserted, writer>>

(* Whether the search goes on at this level, past the node it loaded. *)
Passes(next) ==
    CASE search.kind = "last" -> next /= NULL
      [] OTHER                -> next /= NULL /\ next < search.key
Found(next) == IF search.kind = "seek" THEN next ELSE search.x

(* One round of the loop: load x->Next(level), go on, down, or return. *)
LoadNext ==
    /\ search.at = "load"
    /\ LET next == next_[search.x][search.level]
       IN  search' =
             CASE next = Unset -> [search EXCEPT !.at = "lost"]
               [] next /= Unset /\ Passes(next) -> [search EXCEPT !.x = next]
               [] next /= Unset /\ ~Passes(next) /\ search.level > 1 ->
                     [search EXCEPT !.level = @ - 1]
               [] OTHER -> [search EXCEPT !.at = "found", !.x = Found(next)]
    /\ UNCHANGED <<next_, max_height_, oldHeight, inserted, writer>>

(* Iterator::Next from the node found; SeekToFirst is Next from the head.  *)
IteratorNext ==
    /\ search.at = "found" /\ search.x /= NULL
    /\ LET next == next_[search.x][1]
       IN  search' = [search EXCEPT !.kind = "next", !.key = search.x, !.must = inserted,
                                    !.x  = next, !.at = IF next = Unset THEN "lost" ELSE @]
    /\ UNCHANGED <<next_, max_height_, oldHeight, inserted, writer>>

EndSearch ==
    /\ search.at = "found"
    /\ search' = [at |-> "idle"]
    /\ UNCHANGED <<next_, max_height_, oldHeight, inserted, writer>>

SkipNext ==
    \/ \E key \in Keys, height \in Levels : StartInsert(key, height)
    \/ SetOwnLink \/ Publish
    \/ \E kind \in Kinds, key \in Keys : StartSearch(kind, key)
    \/ LoadNext \/ IteratorNext \/ EndSearch

SkipSpec == SkipInit /\ [][SkipNext]_skipVars

----------------------------------------------------------------------------
(* Properties                                                              *)

(* A lock-free reader misses nothing: whatever insertion runs beside it, a *)
(* search never follows an unwritten link, and no key that was in the list *)
(* when it began lies between what was asked for and what it returns.      *)
SearchesMissNothing ==
    /\ search.at /= "lost"
    /\ search.at = "found" =>
          /\ search.x \in {Head_, NULL} \union inserted
                \union (IF writer.at = "idle" THEN {} ELSE {writer.key})
          /\ CASE search.kind = "seek" ->
                    search.x >= search.key /\ \A k \in search.must : k >= search.key => k >= search.x
               [] search.kind = "less" ->
                    search.x < search.key /\ \A k \in search.must : k < search.key => k <= search.x
               [] search.kind = "next" ->
                    search.x > search.key /\ \A k \in search.must : k > search.key => k >= search.x
               [] OTHER -> search.x /= NULL /\ \A k \in search.must : k <= search.x
=============================================================================
