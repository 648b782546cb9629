--------------------------- MODULE Runtime_proofs ---------------------------
(***************************************************************************)
(* Proofs about SkipList, PosixEnv and TableCache.  A search that takes no *)
(* lock, beside an insertion it knows nothing of, misses no key of the     *)
(* list it began in and follows no unwritten link, for any number of keys  *)
(* and levels; the LOCK file keeps a database to one user, for any number  *)
(* of processes and threads, and the background thread runs everything it  *)
(* is given, for any number of items; tables outlive their readers, and    *)
(* the usage of a cache and the mmap slots are accounted for, for any      *)
(* number of threads, files, hash functions, charges and limits.           *)
(***************************************************************************)
EXTENDS SkipList, PosixEnv, TableCache, Induction, SequenceTheorems

-----------------------------------------------------------------------------
(* SkipList: the invariant                                                 *)

Busy == writer.at # "idle"

(***************************************************************************)
(* n is in the list of level l: its link there is written, and is not one  *)
(* the writer has prepared and not yet published.                          *)
(***************************************************************************)
In(n, l) ==
    /\ next_[n][l] # Unset
    /\ ~ (writer.at = "publish" /\ n = writer.key /\ l = writer.link)

SearchFields ==
    [at : {"load", "found"}, kind : Kinds \cup {"next"}, key : Nodes,
     x : Nodes \cup {NULL}, level : Levels, must : SUBSET Keys]

SkipTypeOK ==
    /\ next_ \in [Nodes -> [Levels -> 1 .. Unset]]
    /\ max_height_ \in Levels /\ oldHeight \in Levels
    /\ inserted \subseteq Keys
    /\ Busy => writer \in [at : {"set", "publish"}, key : Keys, height : Levels,
                           link : Levels, prev : UNION {[1 .. h -> Nodes] : h \in Levels}]
    /\ search.at # "idle" => search \in SearchFields

(***************************************************************************)
(* Every level is a sorted list that starts at the head: a written link    *)
(* leads forward, to the end or into the list, and past nothing.  This     *)
(* holds of the link the writer has prepared as well.                      *)
(***************************************************************************)
Chained ==
    \A n \in Nodes, l \in Levels, y \in 1 .. NULL : next_[n][l] = y =>
        /\ y > n
        /\ y # NULL => In(y, l)
        /\ \A m \in Keys : n < m /\ m < y => ~In(m, l)

HeadLinked == \A l \in Levels : In(Head_, l)

(***************************************************************************)
(* A node is linked from the bottom up, never above max_height_, and the   *)
(* nodes linked are those inserted and the one being inserted.             *)
(***************************************************************************)
BottomUp ==
    \A n \in Nodes, l \in Levels : In(n, l) => \A m \in 1 .. l : In(n, m)

Known ==
    /\ \A k \in inserted : In(k, 1)
    /\ \A k \in Keys, l \in Levels :
          In(k, l) => /\ l <= max_height_
                      /\ k \in inserted \/ (Busy /\ k = writer.key)

(***************************************************************************)
(* The insertion under way: linked below writer.link and nowhere else, and *)
(* its predecessors are still next to its place.                           *)
(***************************************************************************)
WriterOK ==
    Busy =>
        /\ writer.key \notin inserted
        /\ writer.link <= writer.height
        /\ writer.height <= max_height_
        /\ \A l \in Levels : l < writer.link => In(writer.key, l)
        /\ \A l \in Levels : l > writer.link => next_[writer.key][l] = Unset
        /\ writer.at = "set" => next_[writer.key][writer.link] = Unset
        /\ writer.at = "publish" =>
              next_[writer.key][writer.link] = next_[writer.prev[writer.link]][writer.link]
        /\ \A l \in Levels : writer.link <= l /\ l <= writer.height =>
              /\ writer.prev[l] \in Nodes
              /\ writer.prev[l] < writer.key
              /\ In(writer.prev[l], l)
              /\ writer.key < next_[writer.prev[l]][l]

(***************************************************************************)
(* The search stands on a node of the list of its level, in front of what  *)
(* it looks for; what it found is still in the bottom list.                *)
(***************************************************************************)
SearchOK ==
    /\ search.at \in {"idle", "load", "found"}
    /\ search.at = "load" =>
          /\ search.kind \in Kinds
          /\ search.key \in Keys
          /\ search.must \subseteq inserted
          /\ search.x # NULL /\ In(search.x, search.level)
          /\ search.kind # "last" => search.x < search.key
    /\ search.at = "found" => (search.x = NULL \/ In(search.x, 1))

ListInv == SkipTypeOK /\ Chained /\ HeadLinked /\ BottomUp /\ Known /\ WriterOK

SkipInv == ListInv /\ SearchOK /\ SearchesMissNothing

-----------------------------------------------------------------------------
LEMMA SkipInitInv ==
    ASSUME SkipAssumption
    PROVE  SkipInit => SkipInv
<1> SUFFICES ASSUME SkipInit PROVE SkipInv
  OBVIOUS
<1> USE DEF SkipAssumption, Nodes, Keys, Levels, Head_, NULL, Unset
<1>1. SkipTypeOK
  BY DEF SkipInit, SkipTypeOK, Busy
<1>2. \A n \in Nodes, l \in Levels :
          next_[n][l] = IF n = Head_ THEN NULL ELSE Unset
  BY DEF SkipInit
<1>3. \A n \in Nodes, l \in Levels : In(n, l) <=> n = Head_
  BY <1>2 DEF SkipInit, In
<1>4. Chained
  BY <1>2, <1>3 DEF Chained
<1>5. HeadLinked /\ BottomUp /\ Known
  BY <1>3 DEF HeadLinked, BottomUp, Known, SkipInit
<1>6. WriterOK /\ SearchOK /\ SearchesMissNothing
  BY DEF WriterOK, SearchOK, SearchesMissNothing, SkipInit, Busy
<1> QED BY <1>1, <1>4, <1>5, <1>6 DEF SkipInv, ListInv

LEMMA LinkOf ==
    ASSUME SkipAssumption, ListInv, NEW n \in Nodes, NEW l \in Levels, next_[n][l] # Unset
    PROVE  /\ next_[n][l] \in 1 .. NULL
           /\ next_[n][l] > n
           /\ next_[n][l] # NULL => next_[n][l] \in Keys /\ In(next_[n][l], l)
           /\ \A m \in Keys : n < m /\ m < next_[n][l] => ~In(m, l)
<1>1. PICK y : y = next_[n][l]
  OBVIOUS
<1>2. y \in 1 .. NULL
  BY <1>1 DEF ListInv, SkipTypeOK, SkipAssumption, Unset, NULL
<1>3. /\ y > n
      /\ y # NULL => y \in Keys /\ In(y, l)
      /\ \A m \in Keys : n < m /\ m < y => ~In(m, l)
  BY <1>1, <1>2 DEF ListInv, Chained, Keys, NULL, SkipAssumption
<1> QED BY <1>1, <1>2, <1>3

(***************************************************************************)
(* FindGreaterOrEqual's prev is there: at every level of a sound list some *)
(* node in front of key leads to key or beyond it.                         *)
(***************************************************************************)
LEMMA PrevExists ==
    ASSUME SkipAssumption, ListInv, ~Busy, NEW key \in Keys, NEW l \in Levels
    PROVE  /\ Prev(key, l) \in Nodes
           /\ Prev(key, l) < key
           /\ next_[Prev(key, l)][l] \in key .. NULL
<1> USE DEF SkipAssumption, Nodes, Keys, Levels, Head_, NULL, Unset
<1>1. CASE l <= max_height_
  <2> DEFINE T == {n \in Nodes : In(n, l) /\ n < key}
  <2>1. Head_ \in T /\ T \subseteq 0 .. MaxKey
    BY DEF ListInv, HeadLinked
  <2>2. PICK n \in T : \A m \in T : m <= n
    <3> HIDE DEF T
    <3>1. T \subseteq Nat /\ (\A y \in T : y <= MaxKey) /\ T # {}
      BY <2>1
    <3> QED BY <3>1, GreatestExists
  <2>3. next_[n][l] # Unset
    BY DEF In
  <2>4. next_[n][l] \in Keys \cup {NULL} /\ (next_[n][l] # NULL => In(next_[n][l], l))
        /\ next_[n][l] > n
    BY <2>3, LinkOf
  <2>5. ~ (next_[n][l] < key)
    BY <2>2, <2>4
  <2>6. n \in Nodes /\ n < key /\ next_[n][l] \in key .. NULL
    BY <2>4, <2>5
  <2> HIDE DEF T
  <2> QED BY <1>1, <2>6 DEF Prev
<1>2. CASE ~ (l <= max_height_)
  <2>1. Prev(key, l) = Head_
    BY <1>2 DEF Prev
  <2>2. In(Head_, l)
    BY DEF ListInv, HeadLinked
  <2>3. next_[Head_][l] = NULL
    <3>1. next_[Head_][l] # Unset
      BY <2>2 DEF In
    <3>2. \A k \in Keys : ~In(k, l)
      BY <1>2 DEF ListInv, Known
    <3> QED BY <3>1, <3>2, LinkOf
  <2> QED BY <2>1, <2>3
<1> QED BY <1>1, <1>2

-----------------------------------------------------------------------------
(* The writer                                                              *)

LEMMA StartInsertList ==
    ASSUME SkipAssumption, ListInv, NEW key \in Keys, NEW height \in Levels,
           StartInsert(key, height)
    PROVE  ListInv' /\ \A n \in Nodes, l \in Levels : In(n, l) => In(n, l)'
<1> USE DEF SkipAssumption, Nodes, Keys, Levels, Head_, NULL, Unset
<1>0. PICK prev : prev = [l \in 1 .. height |-> Prev(key, l)]
  OBVIOUS
<1>1. /\ ~Busy
      /\ key \notin inserted
      /\ writer' = [at |-> "set", key |-> key, height |-> height, link |-> 1, prev |-> prev]
      /\ oldHeight' = max_height_
      /\ max_height_' = IF height > max_height_ THEN height ELSE max_height_
      /\ UNCHANGED <<next_, inserted, search>>
  BY <1>0 DEF StartInsert, Busy
<1>2. \A l \in 1 .. height : /\ prev[l] = Prev(key, l)
                             /\ prev[l] \in Nodes /\ prev[l] < key
                             /\ next_[prev[l]][l] \in key .. NULL
  BY <1>0, <1>1, PrevExists
<1>3. prev \in [1 .. height -> Nodes]
  BY <1>0, <1>2
<1>4. \A n \in Nodes, l \in Levels : In(n, l)' <=> In(n, l)
  BY <1>1 DEF In, Busy
<1>5. \A l \in Levels : ~In(key, l) /\ next_[key][l] = Unset
  BY <1>1 DEF ListInv, Known, In, Busy
<1>6. Busy'
  BY <1>1 DEF Busy
<1>7. SkipTypeOK'
  <2>1. prev \in UNION {[1 .. h -> Nodes] : h \in Levels}
    BY <1>3
  <2>2. writer' \in [at : {"set", "publish"}, key : Keys, height : Levels, link : Levels,
                     prev : UNION {[1 .. h -> Nodes] : h \in Levels}]
    BY <1>1, <2>1
  <2>3. max_height_' \in Levels /\ oldHeight' \in Levels
    BY <1>1 DEF ListInv, SkipTypeOK
  <2>4. SearchFields' = SearchFields
    BY DEF SearchFields
  <2> QED BY <1>1, <2>2, <2>3, <2>4 DEF ListInv, SkipTypeOK
<1>8. Chained' /\ HeadLinked' /\ BottomUp'
  <2>1. Chained'
    BY <1>1, <1>4 DEF ListInv, Chained
  <2>2. HeadLinked' /\ BottomUp'
    BY <1>4 DEF ListInv, HeadLinked, BottomUp
  <2> QED BY <2>1, <2>2
<1>9. Known'
  <2>1. max_height_ <= max_height_' /\ max_height_ \in Int /\ max_height_' \in Int
    BY <1>1 DEF ListInv, SkipTypeOK
  <2>2. ASSUME NEW k \in Keys, NEW l \in Levels, In(k, l)
        PROVE  l <= max_height_' /\ k \in inserted'
    <3>1. l <= max_height_ /\ k \in inserted
      BY <1>1, <2>2 DEF ListInv, Known
    <3> QED BY <1>1, <2>1, <3>1
  <2>3. \A k \in inserted' : In(k, 1)'
    BY <1>1, <1>4 DEF ListInv, Known, SkipTypeOK
  <2> QED BY <1>4, <2>2, <2>3 DEF Known
<1>10. WriterOK'
  <2>1. \A l \in 1 .. height : next_[prev[l]][l] # key
    BY <1>2, <1>5 DEF ListInv, Chained
  <2>2. \A l \in 1 .. height : In(prev[l], l)
    BY <1>1, <1>2 DEF In, Busy
  <2>3. /\ writer'.key = key /\ writer'.height = height /\ writer'.link = 1
        /\ writer'.at = "set" /\ writer'.prev = prev
    BY <1>1
  <2>4. height <= max_height_'
    BY <1>1, SMTT(30) DEF ListInv, SkipTypeOK
  <2>5. \A l \in Levels : 1 <= l /\ l <= height =>
           prev[l] \in Nodes /\ prev[l] < key /\ In(prev[l], l)' /\ key < next_[prev[l]][l]
    BY <1>2, <1>4, <2>1, <2>2
  <2> QED BY <1>1, <1>5, <2>3, <2>4, <2>5 DEF WriterOK
<1> QED BY <1>4, <1>7, <1>8, <1>9, <1>10 DEF ListInv

(***************************************************************************)
(* NoBarrier_SetNext writes a link that nobody can reach yet.              *)
(***************************************************************************)
LEMMA SetOwnLinkList ==
    ASSUME SkipAssumption, ListInv, SetOwnLink
    PROVE  ListInv' /\ \A n \in Nodes, l \in Levels : In(n, l) => In(n, l)'
<1> USE DEF SkipAssumption, Nodes, Keys, Levels, Head_, NULL, Unset
<1>0. PICK k, w, h, prev, p : /\ k = writer.key /\ w = writer.link /\ h = writer.height
                              /\ prev = writer.prev /\ p = prev[w]
  OBVIOUS
<1>1. /\ Busy /\ writer.at = "set"
      /\ next_' = [next_ EXCEPT ![k][w] = next_[p][w]]
      /\ writer' = [writer EXCEPT !.at = "publish"]
      /\ UNCHANGED <<max_height_, oldHeight, inserted, search>>
  BY <1>0 DEF SetOwnLink, LinkLevel, Busy
<1>2. writer \in [at : {"set", "publish"}, key : Keys, height : Levels, link : Levels,
                  prev : UNION {[1 .. g -> Nodes] : g \in Levels}]
  BY <1>1 DEF ListInv, SkipTypeOK
<1>3. /\ k \in Keys /\ w \in Levels /\ h \in Levels
      /\ writer'.key = k /\ writer'.link = w /\ writer'.at = "publish"
      /\ writer'.height = h /\ writer'.prev = prev
  BY <1>0, <1>1, <1>2
<1>4. /\ p \in Nodes /\ p < k /\ In(p, w) /\ k < next_[p][w]
      /\ next_[k][w] = Unset
      /\ w <= h
  BY <1>0, <1>1, <1>3 DEF ListInv, WriterOK
<1>5. \A n \in Nodes, l \in Levels :
          next_'[n][l] = IF n = k /\ l = w THEN next_[p][w] ELSE next_[n][l]
  BY <1>1, <1>3, <1>4 DEF ListInv, SkipTypeOK
<1>6. \A n \in Nodes, l \in Levels : In(n, l)' <=> In(n, l)
  BY <1>1, <1>3, <1>4, <1>5 DEF In
<1>7. next_[p][w] # Unset /\ next_[p][w] \in 1 .. Unset
  BY <1>3, <1>4 DEF In, ListInv, SkipTypeOK
<1>8. SkipTypeOK'
  <2>1. next_' \in [Nodes -> [Levels -> 1 .. Unset]]
    BY <1>1, <1>3, <1>7 DEF ListInv, SkipTypeOK
  <2>2. writer' \in [at : {"set", "publish"}, key : Keys, height : Levels, link : Levels,
                     prev : UNION {[1 .. g -> Nodes] : g \in Levels}]
    BY <1>1, <1>2
  <2> QED BY <1>1, <2>1, <2>2 DEF ListInv, SkipTypeOK, SearchFields
<1>9. Chained'
  <2> SUFFICES ASSUME NEW n \in Nodes, NEW l \in Levels, NEW y \in 1 .. NULL,
                      next_'[n][l] = y
               PROVE  /\ y > n
                      /\ y # NULL => In(y, l)'
                      /\ \A m \in Keys : n < m /\ m < y => ~In(m, l)'
    BY DEF Chained
  <2>1. CASE n = k /\ l = w
    <3>1. y = next_[p][w]
      BY <1>5, <2>1
    <3>2. /\ y # NULL => In(y, w)
          /\ \A m \in Keys : p < m /\ m < y => ~In(m, w)
      BY <1>3, <1>4, <3>1 DEF ListInv, Chained
    <3> QED BY <1>3, <1>4, <1>6, <2>1, <3>1, <3>2
  <2>2. CASE ~ (n = k /\ l = w)
    <3>1. next_[n][l] = y
      BY <1>5, <2>2
    <3> QED BY <1>6, <3>1 DEF ListInv, Chained
  <2> QED BY <2>1, <2>2
<1>10. HeadLinked' /\ BottomUp'
  BY <1>6 DEF ListInv, HeadLinked, BottomUp
<1>11. Known'
  <2>1. \A i \in inserted' : In(i, 1)'
    <3>1. \A i \in inserted : i \in Nodes /\ In(i, 1)
      BY DEF ListInv, Known, SkipTypeOK
    <3> QED BY <1>1, <1>6, <3>1
  <2>2. \A i \in Keys, l \in Levels :
           In(i, l)' => l <= max_height_' /\ (i \in inserted' \/ i = writer'.key)
    BY <1>0, <1>1, <1>3, <1>6 DEF ListInv, Known
  <2>3. Busy'
    BY <1>3 DEF Busy
  <2> QED BY <2>1, <2>2, <2>3 DEF Known
<1>12. WriterOK'
  <2>1. \A l \in Levels : l # w => next_'[k][l] = next_[k][l]
    BY <1>3, <1>5
  <2>2. next_'[k][w] = next_'[p][w]
    BY <1>3, <1>4, <1>5
  <2>3. \A l \in Levels : w <= l /\ l <= h =>
           /\ prev[l] \in Nodes /\ prev[l] < k
           /\ In(prev[l], l)' /\ k < next_'[prev[l]][l]
    <3> SUFFICES ASSUME NEW l \in Levels, w <= l, l <= h
                 PROVE  /\ prev[l] \in Nodes /\ prev[l] < k
                        /\ In(prev[l], l)' /\ k < next_'[prev[l]][l]
      OBVIOUS
    <3>1. /\ prev[l] \in Nodes /\ prev[l] < k
          /\ In(prev[l], l) /\ k < next_[prev[l]][l]
      BY <1>0, <1>1 DEF ListInv, WriterOK
    <3> QED BY <1>3, <1>5, <1>6, <3>1
  <2>4. /\ k \notin inserted /\ h <= max_height_
        /\ \A l \in Levels : l < w => In(k, l)
        /\ \A l \in Levels : l > w => next_[k][l] = Unset
    BY <1>0, <1>1 DEF ListInv, WriterOK
  <2>5. /\ \A l \in Levels : l < w => In(k, l)'
        /\ \A l \in Levels : l > w => next_'[k][l] = Unset
    BY <1>3, <1>6, <2>1, <2>4
  <2>6. (writer.key \notin inserted /\ writer.link <= writer.height /\ writer.height <= max_height_)'
    BY <1>1, <1>3, <1>4, <2>4
  <2>7. (\A l \in Levels : l < writer.link => In(writer.key, l))'
    BY <1>3, <2>5
  <2>8. (\A l \in Levels : l > writer.link => next_[writer.key][l] = Unset)'
    BY <1>3, <2>5
  <2>9. (/\ writer.at # "set"
         /\ next_[writer.key][writer.link] = next_[writer.prev[writer.link]][writer.link])'
    BY <1>0, <1>3, <2>2
  <2>10. (\A l \in Levels : writer.link <= l /\ l <= writer.height =>
             /\ writer.prev[l] \in Nodes /\ writer.prev[l] < writer.key
             /\ In(writer.prev[l], l) /\ writer.key < next_[writer.prev[l]][l])'
    BY <1>3, <2>3
  <2> QED BY <2>6, <2>7, <2>8, <2>9, <2>10 DEF WriterOK
<1> QED BY <1>6, <1>8, <1>9, <1>10, <1>11, <1>12 DEF ListInv

(***************************************************************************)
(* The release store makes the node part of its level, between prev and    *)
(* what prev led to.                                                       *)
(***************************************************************************)
LEMMA PublishList ==
    ASSUME SkipAssumption, ListInv, Publish
    PROVE  ListInv' /\ \A n \in Nodes, l \in Levels : In(n, l) => In(n, l)'
<1> USE DEF SkipAssumption, Nodes, Keys, Levels, Head_, NULL, Unset
<1>0. PICK k, w, h, prev, p : /\ k = writer.key /\ w = writer.link /\ h = writer.height
                              /\ prev = writer.prev /\ p = prev[w]
  OBVIOUS
<1>1. /\ Busy /\ writer.at = "publish"
      /\ next_' = [next_ EXCEPT ![p][w] = k]
      /\ UNCHANGED <<max_height_, search>>
  BY <1>0 DEF Publish, LinkLevel, Busy
<1>2. writer \in [at : {"set", "publish"}, key : Keys, height : Levels, link : Levels,
                  prev : UNION {[1 .. i -> Nodes] : i \in Levels}]
  BY <1>1 DEF ListInv, SkipTypeOK
<1>3. k \in Keys /\ w \in Levels /\ h \in Levels
  BY <1>0, <1>2
<1>4. /\ p \in Nodes /\ p < k /\ In(p, w) /\ k < next_[p][w] /\ w <= h
      /\ next_[k][w] = next_[p][w]
  BY <1>0, <1>1, <1>3 DEF ListInv, WriterOK
<1>5. \A n \in Nodes, l \in Levels :
          next_'[n][l] = IF n = p /\ l = w THEN k ELSE next_[n][l]
  BY <1>1, <1>3, <1>4 DEF ListInv, SkipTypeOK
<1>6. next_[p][w] # Unset /\ next_[k][w] # Unset
  BY <1>4 DEF In
<1>7. \/ /\ w < h
         /\ writer' = [writer EXCEPT !.at = "set", !.link = w + 1]
         /\ UNCHANGED <<inserted, oldHeight>>
      \/ /\ ~ (w < h)
         /\ writer' = [at |-> "idle"]
         /\ inserted' = inserted \cup {k}
         /\ oldHeight' = max_height_
  BY <1>0 DEF Publish
<1>9. writer'.at \in {"set", "idle"}
  <2>1. CASE w < h
    BY <1>2, <1>7, <2>1
  <2>2. CASE ~ (w < h)
    BY <1>7, <2>2
  <2> QED BY <2>1, <2>2
<1>10. \A n \in Nodes, l \in Levels : In(n, l)' <=> (In(n, l) \/ (n = k /\ l = w))
  <2> SUFFICES ASSUME NEW n \in Nodes, NEW l \in Levels
               PROVE  In(n, l)' <=> (In(n, l) \/ (n = k /\ l = w))
    OBVIOUS
  <2>1. In(n, l)' <=> next_'[n][l] # Unset
    BY <1>9 DEF In
  <2>2. In(n, l) <=> next_[n][l] # Unset /\ ~ (n = k /\ l = w)
    BY <1>0, <1>1 DEF In
  <2>3. CASE n = p /\ l = w
    <3>1. In(n, l) /\ next_'[n][l] = k /\ k # Unset
      BY <1>3, <1>4, <1>5, <2>3
    <3> QED BY <2>1, <3>1
  <2>4. CASE n = k /\ l = w
    <3>1. next_'[n][l] = next_[k][w]
      BY <1>3, <1>4, <1>5, <2>4
    <3> QED BY <1>6, <2>1, <2>4, <3>1
  <2>5. CASE ~ (n = p /\ l = w) /\ ~ (n = k /\ l = w)
    BY <1>5, <2>1, <2>2, <2>5
  <2> QED BY <2>3, <2>4, <2>5
<1>11. SkipTypeOK'
  <2>1. next_' \in [Nodes -> [Levels -> 1 .. Unset]]
    <3>1. k \in 1 .. Unset
      BY <1>3
    <3>2. next_ \in [Nodes -> [Levels -> 1 .. Unset]]
      BY DEF ListInv, SkipTypeOK
    <3> HIDE DEF Nodes, Levels, Unset
    <3> QED BY <1>1, <1>3, <1>4, <3>1, <3>2
  <2>2. max_height_' \in Levels /\ oldHeight' \in Levels /\ inserted' \subseteq Keys
    BY <1>1, <1>3, <1>7 DEF ListInv, SkipTypeOK
  <2>3. Busy' => writer' \in [at : {"set", "publish"}, key : Keys, height : Levels,
                              link : Levels, prev : UNION {[1 .. i -> Nodes] : i \in Levels}]
    <3>1. CASE w < h
      <4>1. w + 1 \in Levels
        BY <1>3, <3>1
      <4> QED BY <1>2, <1>7, <3>1, <4>1
    <3>2. CASE ~ (w < h)
      BY <1>7, <3>2 DEF Busy
    <3> QED BY <3>1, <3>2
  <2> QED BY <1>1, <2>1, <2>2, <2>3 DEF ListInv, SkipTypeOK, SearchFields
<1>12. Chained'
  <2> SUFFICES ASSUME NEW n \in Nodes, NEW l \in Levels, NEW y \in 1 .. NULL,
                      next_'[n][l] = y
               PROVE  /\ y > n
                      /\ y # NULL => In(y, l)'
                      /\ \A m \in Keys : n < m /\ m < y => ~In(m, l)'
    BY DEF Chained
  <2>1. CASE n = p /\ l = w
    <3>1. y = k
      BY <1>5, <2>1
    <3>2. \A m \in Keys : p < m /\ m < next_[p][w] => ~In(m, w)
      BY <1>3, <1>4, <1>6, LinkOf
    <3>3. next_[p][w] \in Int
      BY <1>3, <1>4, SMTT(30) DEF ListInv, SkipTypeOK
    <3>4. In(y, l)' /\ y > n
      BY <1>3, <1>4, <1>10, <2>1, <3>1
    <3>5. ASSUME NEW m \in Keys, n < m, m < y PROVE ~In(m, l)'
      <4>1. m < next_[p][w] /\ m # k
        BY <1>3, <1>4, <3>1, <3>3, <3>5
      <4>2. ~In(m, w)
        BY <2>1, <3>2, <3>5, <4>1
      <4> QED BY <1>3, <1>10, <2>1, <4>1, <4>2
    <3> QED BY <3>4, <3>5
  <2>2. CASE ~ (n = p /\ l = w)
    <3>1. next_[n][l] = y
      BY <1>5, <2>2
    <3>2. /\ y > n
          /\ y # NULL => In(y, l)
          /\ \A m \in Keys : n < m /\ m < y => ~In(m, l)
      BY <3>1 DEF ListInv, Chained
    <3>3. l = w => ~ (n < k /\ k < y)
      <4> SUFFICES ASSUME l = w, n < k, k < y PROVE FALSE
        OBVIOUS
      <4>1. n # p
        BY <2>2
      <4>2. In(p, l) => ~ (n < p)
        BY <1>3, <1>4, <3>2
      <4>3. p \in Int /\ n \in Int /\ (n < p \/ p < n)
        BY <1>4, <4>1
      <4>4. In(n, w)
        BY <1>0, <1>3, <3>1 DEF In
      <4>5. \A m \in Keys : p < m /\ m < next_[p][w] => ~In(m, w)
        BY <1>3, <1>4, <1>6, LinkOf
      <4>6. next_[p][w] \in Int
        BY <1>3, <1>4, SMTT(30) DEF ListInv, SkipTypeOK
      <4>7. ~ (p < n)
        BY <1>3, <1>4, <4>4, <4>5, <4>6
      <4> QED BY <1>4, <4>2, <4>3, <4>7
    <3> QED BY <1>3, <1>10, <3>2, <3>3
  <2> QED BY <2>1, <2>2
<1>13. HeadLinked'
  BY <1>10 DEF ListInv, HeadLinked
<1>14. BottomUp'
  <2> SUFFICES ASSUME NEW n \in Nodes, NEW l \in Levels, In(n, l)', NEW m \in 1 .. l
               PROVE  In(n, m)'
    BY DEF BottomUp
  <2>1. CASE In(n, l)
    BY <1>10, <2>1 DEF ListInv, BottomUp
  <2>2. CASE n = k /\ l = w
    BY <1>0, <1>1, <1>10, <2>2 DEF ListInv, WriterOK
  <2> QED BY <1>10, <2>1, <2>2
<1>15. Known'
  <2>1. w <= max_height_
    BY <1>0, <1>1, <1>3, <1>4 DEF ListInv, WriterOK, SkipTypeOK
  <2>2. \A i \in inserted' : In(i, 1)'
    <3>1. \A i \in inserted : In(i, 1)'
      <4>1. \A i \in inserted : i \in Nodes /\ In(i, 1)
        BY DEF ListInv, Known, SkipTypeOK
      <4> QED BY <1>10, <4>1
    <3>2. In(k, w)'
      BY <1>3, <1>10
    <3>3. In(k, 1)'
      BY <1>3, <1>14, <3>2 DEF BottomUp
    <3> QED BY <1>7, <3>1, <3>3
  <2>3. \A i \in Keys, l \in Levels :
           In(i, l)' => l <= max_height_' /\ (i \in inserted \/ i = k)
    BY <1>0, <1>1, <1>3, <1>10, <2>1 DEF ListInv, Known
  <2>4. CASE w < h
    <3>1. writer'.key = k /\ Busy' /\ inserted' = inserted
      BY <1>0, <1>2, <1>7, <2>4 DEF Busy
    <3> QED BY <2>2, <2>3, <3>1 DEF Known
  <2>5. CASE ~ (w < h)
    BY <1>7, <2>2, <2>3, <2>5 DEF Known
  <2> QED BY <2>4, <2>5
<1>16. WriterOK'
  <2> SUFFICES ASSUME Busy' PROVE WriterOK'
    BY DEF WriterOK
  <2>1. /\ w < h
        /\ writer' = [writer EXCEPT !.at = "set", !.link = w + 1]
        /\ inserted' = inserted
    BY <1>7 DEF Busy
  <2>2. /\ writer'.at = "set" /\ writer'.key = k /\ writer'.link = w + 1
        /\ writer'.height = h /\ writer'.prev = prev
    BY <1>0, <1>2, <2>1
  <2>3. /\ k \notin inserted /\ h <= max_height_
        /\ \A l \in Levels : l < w => In(k, l)
        /\ \A l \in Levels : l > w => next_[k][l] = Unset
        /\ \A l \in Levels : w <= l /\ l <= h =>
              prev[l] \in Nodes /\ prev[l] < k /\ In(prev[l], l) /\ k < next_[prev[l]][l]
    BY <1>0, <1>1 DEF ListInv, WriterOK
  <2>4. \A l \in Levels : l < w + 1 => In(k, l)'
    BY <1>3, <1>10, <2>3
  <2>5. \A l \in Levels : l >= w + 1 => next_'[k][l] = Unset
    BY <1>3, <1>4, <1>5, <2>3
  <2>6. \A l \in Levels : w + 1 <= l /\ l <= h =>
           prev[l] \in Nodes /\ prev[l] < k /\ In(prev[l], l)' /\ k < next_'[prev[l]][l]
    BY <1>3, <1>5, <1>10, <2>3
  <2> QED BY <1>1, <1>3, <2>1, <2>2, <2>3, <2>4, <2>5, <2>6 DEF WriterOK
<1> QED BY <1>10, <1>11, <1>12, <1>13, <1>14, <1>15, <1>16 DEF ListInv

-----------------------------------------------------------------------------
(* The readers                                                             *)

SearchInv == SearchOK /\ SearchesMissNothing

(***************************************************************************)
(* A step of the writer takes no node out of any list, so it leaves what   *)
(* a search knows true.                                                    *)
(***************************************************************************)
LEMMA WriterKeepsSearch ==
    ASSUME SkipAssumption, ListInv, SearchInv, UNCHANGED search,
           inserted \subseteq inserted',
           Busy => writer.key \in inserted' \/ (Busy' /\ writer'.key = writer.key),
           \A n \in Nodes, l \in Levels : In(n, l) => In(n, l)'
    PROVE  SearchInv'
<1> USE DEF SkipAssumption, Levels
<1>1. search.at # "idle" => search \in SearchFields
  BY DEF ListInv, SkipTypeOK
<1>2. SearchOK'
  <2>1. search.at = "load" => In(search.x, search.level)'
    <3> SUFFICES ASSUME search.at = "load" PROVE In(search.x, search.level)'
      OBVIOUS
    <3>1. PICK x, l : x = search.x /\ l = search.level
      OBVIOUS
    <3>2. x \in Nodes /\ l \in Levels /\ In(x, l)
      BY <1>1, <3>1 DEF SearchInv, SearchOK, SearchFields
    <3>3. In(x, l)'
      BY <3>2
    <3> QED BY <3>1, <3>3
  <2>2. search.at = "found" /\ search.x # NULL => In(search.x, 1)'
    <3> SUFFICES ASSUME search.at = "found", search.x # NULL PROVE In(search.x, 1)'
      OBVIOUS
    <3>1. PICK x : x = search.x
      OBVIOUS
    <3>2. x \in Nodes /\ 1 \in Levels /\ In(x, 1)
      BY <1>1, <3>1 DEF SearchInv, SearchOK, SearchFields
    <3>3. In(x, 1)'
      BY <3>2
    <3> QED BY <3>1, <3>3
  <2> QED BY <2>1, <2>2 DEF SearchInv, SearchOK
<1>3. SearchesMissNothing'
  BY DEF SearchInv, SearchesMissNothing, Busy
<1> QED BY <1>2, <1>3 DEF SearchInv

LEMMA SameList ==
    ASSUME SkipAssumption, ListInv, UNCHANGED <<next_, max_height_, oldHeight, inserted, writer>>,
           search'.at # "idle" => search' \in SearchFields
    PROVE  ListInv' /\ \A n \in Nodes, l \in Levels : In(n, l)' <=> In(n, l)
<1>1. \A n, l : In(n, l)' <=> In(n, l)
  BY DEF In
<1>2. Busy' = Busy
  BY DEF Busy
<1>3. SkipTypeOK'
  BY <1>2 DEF ListInv, SkipTypeOK, SearchFields
<1>4. Chained' /\ HeadLinked' /\ BottomUp' /\ Known'
  BY <1>1, <1>2 DEF ListInv, Chained, HeadLinked, BottomUp, Known
<1>5. WriterOK'
  BY <1>1, <1>2 DEF ListInv, WriterOK, In
<1> QED BY <1>1, <1>3, <1>4, <1>5 DEF ListInv

LEMMA StartSearchInv ==
    ASSUME SkipAssumption, SkipInv, NEW kind \in Kinds, NEW key \in Keys,
           StartSearch(kind, key)
    PROVE  SkipInv'
<1> USE DEF SkipAssumption, Nodes, Keys, Levels, Head_, NULL
<1>1. PICK h \in {oldHeight, max_height_} :
          search' = [at |-> "load", kind |-> kind, key |-> key, x |-> Head_, level |-> h,
                     must |-> inserted]
  BY DEF StartSearch
<1>2. h \in Levels /\ inserted \subseteq Keys
  BY DEF SkipInv, ListInv, SkipTypeOK
<1>3. search' \in SearchFields
  BY <1>1, <1>2 DEF SearchFields
<1>4. ListInv' /\ \A n \in Nodes, l \in Levels : In(n, l)' <=> In(n, l)
  BY <1>3, SameList DEF SkipInv, StartSearch
<1>5. In(Head_, h)'
  BY <1>2, <1>4 DEF SkipInv, ListInv, HeadLinked
<1>6. In(search.x, search.level)'
  BY <1>1, <1>5 DEF In
<1>7. SearchOK'
  BY <1>1, <1>6 DEF SearchOK, StartSearch
<1>8. SearchesMissNothing'
  BY <1>1 DEF SearchesMissNothing
<1> QED BY <1>4, <1>7, <1>8 DEF SkipInv

(***************************************************************************)
(* What may be returned is in the list: In the bottom list are the head,   *)
(* what was inserted and what is being inserted.                           *)
(***************************************************************************)
LEMMA InBottom ==
    ASSUME SkipAssumption, ListInv, NEW n \in Nodes, In(n, 1)
    PROVE  n \in {Head_, NULL} \union inserted
                \union (IF writer.at = "idle" THEN {} ELSE {writer.key})
BY DEF SkipAssumption, ListInv, Known, Busy, Nodes, Levels

LEMMA LoadNextInv ==
    ASSUME SkipAssumption, SkipInv, LoadNext
    PROVE  SkipInv'
<1> USE DEF SkipAssumption, Nodes, Keys, Levels, Head_, NULL, Unset
<1>0. PICK x, l, key, kind, next :
         /\ x = search.x /\ l = search.level /\ key = search.key /\ kind = search.kind
         /\ next = next_[x][l]
  OBVIOUS
<1>1. search.at = "load" /\ search \in SearchFields
  BY DEF LoadNext, SkipInv, ListInv, SkipTypeOK
<1>2. /\ x \in Nodes /\ l \in Levels /\ key \in Keys /\ kind \in Kinds /\ In(x, l)
      /\ kind # "last" => x < key
      /\ search.must \subseteq inserted
  BY <1>0, <1>1 DEF SkipInv, SearchOK, SearchFields
<1>3. next # Unset
  BY <1>0, <1>2 DEF In
<1>4. /\ next \in 1 .. NULL /\ next > x
      /\ next # NULL => next \in Keys /\ In(next, l)
      /\ \A m \in Keys : x < m /\ m < next => ~In(m, l)
  BY <1>0, <1>2, <1>3, LinkOf DEF SkipInv
<1>5. \/ Passes(next) /\ search' = [search EXCEPT !.x = next]
      \/ ~Passes(next) /\ l > 1 /\ search' = [search EXCEPT !.level = l - 1]
      \/ ~Passes(next) /\ l = 1 /\ search' = [search EXCEPT !.at = "found", !.x = Found(next)]
  <2> HIDE DEF Nodes, Keys, Head_, NULL, Unset
  <2> QED BY <1>0, <1>2, <1>3 DEF LoadNext
<1>6. CASE Passes(next) /\ search' = [search EXCEPT !.x = next]
  <2>1. next # NULL /\ (kind # "last" => next < key)
    BY <1>0, <1>6 DEF Passes
  <2>2. search' \in SearchFields
    BY <1>1, <1>4, <1>6 DEF SearchFields
  <2>3. /\ search'.at = "load" /\ search'.x = next /\ search'.level = l
        /\ search'.kind = kind /\ search'.key = key /\ search'.must = search.must
    BY <1>0, <1>1, <1>6 DEF SearchFields
  <2>4. ListInv' /\ \A n \in Nodes, i \in Levels : In(n, i)' <=> In(n, i)
    BY <2>2, SameList DEF SkipInv, LoadNext
  <2>5. In(next, l)'
    BY <1>2, <1>4, <2>1, <2>4
  <2>6. In(search.x, search.level)'
    BY <2>3, <2>5 DEF In
  <2>7. SearchOK'
    BY <1>2, <2>1, <2>3, <2>6 DEF SearchOK, LoadNext
  <2>8. SearchesMissNothing'
    BY <2>3 DEF SearchesMissNothing
  <2> QED BY <2>4, <2>7, <2>8 DEF SkipInv
<1>7. CASE l > 1 /\ search' = [search EXCEPT !.level = l - 1]
  <2>1. l - 1 \in Levels /\ l - 1 \in 1 .. l
    BY <1>2, <1>7
  <2>2. search' \in SearchFields
    BY <1>1, <1>7, <2>1 DEF SearchFields
  <2>3. /\ search'.at = "load" /\ search'.x = x /\ search'.level = l - 1
        /\ search'.kind = kind /\ search'.key = key /\ search'.must = search.must
    BY <1>0, <1>1, <1>7 DEF SearchFields
  <2>4. ListInv' /\ \A n \in Nodes, i \in Levels : In(n, i)' <=> In(n, i)
    BY <2>2, SameList DEF SkipInv, LoadNext
  <2>5. In(x, l - 1)'
    BY <1>2, <2>1, <2>4 DEF SkipInv, ListInv, BottomUp
  <2>6. In(search.x, search.level)'
    BY <2>3, <2>5 DEF In
  <2>7. SearchOK'
    <3>1. inserted' = inserted /\ x # NULL
      BY <1>2 DEF LoadNext
    <3> QED BY <1>2, <2>3, <2>6, <3>1 DEF SearchOK
  <2>8. SearchesMissNothing'
    BY <2>3 DEF SearchesMissNothing
  <2> QED BY <2>4, <2>7, <2>8 DEF SkipInv
<1>8. CASE ~Passes(next) /\ l = 1 /\ search' = [search EXCEPT !.at = "found", !.x = Found(next)]
  <2>0. PICK y : y = Found(next)
    OBVIOUS
  <2>1. y = IF kind = "seek" THEN next ELSE x
    BY <1>0, <2>0 DEF Found
  <2>2. search' \in SearchFields
    BY <1>1, <1>2, <1>4, <1>8, <2>0, <2>1 DEF SearchFields
  <2>3. /\ search'.at = "found" /\ search'.x = y
        /\ search'.kind = kind /\ search'.key = key /\ search'.must = search.must
    BY <1>0, <1>1, <1>8, <2>0 DEF SearchFields
  <2>4. ListInv' /\ \A n \in Nodes, i \in Levels : In(n, i)' <=> In(n, i)
    BY <2>2, SameList DEF SkipInv, LoadNext
  <2>5. y \in Nodes \cup {NULL} /\ (y # NULL => In(y, 1))
    BY <1>2, <1>4, <1>8, <2>1
  <2>6. SearchOK'
    <3>1. y # NULL => In(y, 1)'
      BY <2>4, <2>5
    <3>2. (search.x # NULL => In(search.x, 1))'
      BY <2>3, <3>1 DEF In
    <3> QED BY <2>3, <3>2 DEF SearchOK
  <2>7. y \in {Head_, NULL} \union inserted
                \union (IF writer.at = "idle" THEN {} ELSE {writer.key})
    BY <2>5, InBottom DEF SkipInv
  <2>8. \A k \in search.must : k \in Keys /\ (k <= x \/ k >= next)
    <3>1. \A k \in search.must : k \in Keys /\ In(k, 1)
      BY <1>2 DEF SkipInv, ListInv, Known, SkipTypeOK
    <3> QED BY <1>2, <1>4, <1>8, <3>1
  <2>9. CASE kind = "seek"
    <3>0. next >= key
      BY <1>0, <1>2, <1>4, <1>8, <2>9 DEF Passes
    <3>1. y >= key /\ \A k \in search.must : k >= key => k >= y
      BY <1>2, <1>4, <2>1, <2>8, <2>9, <3>0
    <3> QED BY <2>3, <2>4, <2>6, <2>7, <2>9, <3>1 DEF SkipInv, SearchesMissNothing, LoadNext
  <2>10. CASE kind = "less"
    <3>1. y < key /\ \A k \in search.must : k < key => k <= y
      BY <1>0, <1>2, <1>4, <1>8, <2>1, <2>8, <2>10 DEF Passes
    <3> QED BY <2>3, <2>4, <2>6, <2>7, <2>10, <3>1 DEF SkipInv, SearchesMissNothing, LoadNext
  <2>11. CASE kind = "last"
    <3>1. y # NULL /\ \A k \in search.must : k <= y
      BY <1>0, <1>2, <1>4, <1>8, <2>1, <2>8, <2>11 DEF Passes
    <3> QED BY <2>3, <2>4, <2>6, <2>7, <2>11, <3>1 DEF SkipInv, SearchesMissNothing, LoadNext
  <2> QED BY <1>2, <2>9, <2>10, <2>11 DEF Kinds
<1> QED BY <1>5, <1>6, <1>7, <1>8

LEMMA IteratorNextInv ==
    ASSUME SkipAssumption, SkipInv, IteratorNext
    PROVE  SkipInv'
<1> USE DEF SkipAssumption, Nodes, Keys, Levels, Head_, NULL, Unset
<1>0. PICK x, next : x = search.x /\ next = next_[x][1]
  OBVIOUS
<1>1. search.at = "found" /\ x # NULL /\ search \in SearchFields
  BY <1>0 DEF IteratorNext, SkipInv, ListInv, SkipTypeOK
<1>2. x \in Nodes /\ In(x, 1) /\ 1 \in Levels
  BY <1>0, <1>1 DEF SkipInv, SearchOK, SearchFields
<1>3. next # Unset
  BY <1>0, <1>2 DEF In
<1>4. /\ next \in 1 .. NULL /\ next > x
      /\ next # NULL => next \in Keys /\ In(next, 1)
      /\ \A m \in Keys : x < m /\ m < next => ~In(m, 1)
  BY <1>0, <1>2, <1>3, LinkOf DEF SkipInv
<1>5. search' = [search EXCEPT !.kind = "next", !.key = x, !.must = inserted, !.x = next,
                               !.at = "found"]
  BY <1>0, <1>1, <1>3 DEF IteratorNext
<1>6. inserted \subseteq Keys
  BY DEF SkipInv, ListInv, SkipTypeOK
<1>7. search' \in SearchFields
  BY <1>1, <1>2, <1>4, <1>5, <1>6 DEF SearchFields
<1>8. /\ search'.at = "found" /\ search'.x = next /\ search'.kind = "next"
      /\ search'.key = x /\ search'.must = inserted
  BY <1>1, <1>5 DEF SearchFields
<1>9. ListInv' /\ \A n \in Nodes, i \in Levels : In(n, i)' <=> In(n, i)
  BY <1>7, SameList DEF SkipInv, IteratorNext
<1>10. SearchOK'
  <2>1. next # NULL => In(next, 1)'
    BY <1>2, <1>4, <1>9
  <2>2. (search.x # NULL => In(search.x, 1))'
    BY <1>8, <2>1 DEF In
  <2> QED BY <1>8, <2>2 DEF SearchOK
<1>11. next \in {Head_, NULL} \union inserted
                \union (IF writer.at = "idle" THEN {} ELSE {writer.key})
  BY <1>4, InBottom DEF SkipInv
<1>12. \A k \in inserted : k > x => k >= next
  BY <1>2, <1>4, <1>6 DEF SkipInv, ListInv, Known
<1>13. SearchesMissNothing'
  BY <1>4, <1>8, <1>11, <1>12 DEF SearchesMissNothing, IteratorNext
<1> QED BY <1>9, <1>10, <1>13 DEF SkipInv

-----------------------------------------------------------------------------
LEMMA SkipNextInv ==
    ASSUME SkipAssumption, SkipInv, [SkipNext]_skipVars
    PROVE  SkipInv'
<1>1. ASSUME NEW key \in Keys, NEW height \in Levels, StartInsert(key, height)
      PROVE  SkipInv'
  <2>1. ListInv' /\ \A n \in Nodes, l \in Levels : In(n, l) => In(n, l)'
    BY <1>1, StartInsertList DEF SkipInv
  <2>2. SearchInv'
    BY <1>1, <2>1, WriterKeepsSearch DEF SkipInv, SearchInv, StartInsert, Busy
  <2> QED BY <2>1, <2>2 DEF SkipInv, SearchInv
<1>2. CASE SetOwnLink
  <2>1. ListInv' /\ \A n \in Nodes, l \in Levels : In(n, l) => In(n, l)'
    BY <1>2, SetOwnLinkList DEF SkipInv
  <2>2. writer'.at = "publish" /\ writer'.key = writer.key
    BY <1>2 DEF SkipInv, ListInv, SkipTypeOK, Busy, SetOwnLink
  <2>3. SearchInv'
    BY <1>2, <2>1, <2>2, WriterKeepsSearch DEF SkipInv, SearchInv, SetOwnLink, Busy
  <2> QED BY <2>1, <2>3 DEF SkipInv, SearchInv
<1>3. CASE Publish
  <2>1. ListInv' /\ \A n \in Nodes, l \in Levels : In(n, l) => In(n, l)'
    BY <1>3, PublishList DEF SkipInv
  <2>2. writer.key \in inserted' \/ (Busy' /\ writer'.key = writer.key)
    BY <1>3 DEF SkipInv, ListInv, SkipTypeOK, Busy, Publish
  <2>3. inserted \subseteq inserted' /\ UNCHANGED search
    BY <1>3 DEF Publish
  <2>4. SearchInv'
    BY <2>1, <2>2, <2>3, WriterKeepsSearch DEF SkipInv, SearchInv
  <2> QED BY <2>1, <2>4 DEF SkipInv, SearchInv
<1>4. ASSUME NEW kind \in Kinds, NEW key \in Keys, StartSearch(kind, key)
      PROVE  SkipInv'
  BY <1>4, StartSearchInv
<1>5. CASE LoadNext
  BY <1>5, LoadNextInv
<1>6. CASE IteratorNext
  BY <1>6, IteratorNextInv
<1>7. CASE EndSearch
  <2>1. ListInv'
    BY <1>7, SameList DEF SkipInv, EndSearch
  <2>2. SearchOK' /\ SearchesMissNothing'
    BY <1>7 DEF EndSearch, SearchOK, SearchesMissNothing
  <2> QED BY <2>1, <2>2 DEF SkipInv
<1>8. CASE UNCHANGED skipVars
  <2>1. ListInv' /\ \A n \in Nodes, l \in Levels : In(n, l)' <=> In(n, l)
    BY <1>8, SameList DEF skipVars, SkipInv, ListInv, SkipTypeOK
  <2>2. SearchInv'
    BY <1>8, <2>1, WriterKeepsSearch DEF skipVars, SkipInv, SearchInv, Busy
  <2> QED BY <2>1, <2>2 DEF SkipInv, SearchInv
<1> QED BY <1>1, <1>2, <1>3, <1>4, <1>5, <1>6, <1>7, <1>8 DEF SkipNext

(***************************************************************************)
(* A reader without a lock follows no link that Insert has not written and *)
(* misses no key whose Insert had returned when it began, whatever the     *)
(* writer does in between: for any number of keys and any kMaxHeight.      *)
(***************************************************************************)
THEOREM ReadersMissNothing == SkipSpec => []SearchesMissNothing
<1>1. SkipInit => SkipInv
  BY SkipInitInv, SizesAssumption
<1>2. SkipInv /\ [SkipNext]_skipVars => SkipInv'
  BY SkipNextInv, SizesAssumption
<1>3. SkipInv => SearchesMissNothing
  BY DEF SkipInv
<1> QED BY <1>1, <1>2, <1>3, PTL DEF SkipSpec

-----------------------------------------------------------------------------
(* LockFile and UnlockFile                                                 *)

CallerStates == {"idle", "opened", "refused", "inserted", "holding", "failed",
                 "closed", "unlocked", "removed"}

(***************************************************************************)
(* From locks_.Insert to locks_.Remove: the file is in the process's       *)
(* PosixLockTable on behalf of this thread.                                *)
(***************************************************************************)
Listing == {"inserted", "holding", "failed", "closed", "unlocked"}

LockTypeOK ==
    /\ owner \in Processes \cup {NoProcess}
    /\ locked_files_ \in [Processes -> BOOLEAN]
    /\ caller \in [Processes -> [Callers -> CallerStates]]
    /\ lost \in [Processes -> [Callers -> BOOLEAN]]

(***************************************************************************)
(* What makes OneLockHolder inductive.  Inside a process the table admits  *)
(* one thread at a time (Listed, OneLister).  Across processes the kernel  *)
(* does: who holds the lock and has not lost it is the owner.              *)
(***************************************************************************)
ListersAreListed ==
    \A p \in Processes, t \in Callers : caller[p][t] \in Listing => locked_files_[p]

OneLister ==
    \A p \in Processes, t, u \in Callers :
        caller[p][t] \in Listing /\ caller[p][u] \in Listing => t = u

HoldersOwn ==
    \A p \in Processes, t \in Callers :
        caller[p][t] = "holding" /\ ~lost[p][t] => owner = p

LockInv == LockTypeOK /\ ListersAreListed /\ OneLister /\ HoldersOwn

(***************************************************************************)
(* The invariant says what it is for: two holders are of two processes,    *)
(* and one of them has lost the kernel's lock.                             *)
(***************************************************************************)
LEMMA LockInvImplies == LockInv => OneLockHolder
BY DEF LockInv, OneLockHolder, OneLister, HoldersOwn, Listing

LEMMA LockInitInv == LockInit => LockInv
BY DEF LockInit, LockInv, LockTypeOK, ListersAreListed, OneLister, HoldersOwn,
       Listing, CallerStates

(***************************************************************************)
(* The step of one thread moves that thread alone.                         *)
(***************************************************************************)
LEMMA GoesMoves ==
    ASSUME LockTypeOK, NEW p \in Processes, NEW t \in Callers,
           NEW from, NEW to \in CallerStates, Goes(p, t, from, to)
    PROVE  /\ caller[p][t] = from /\ caller'[p][t] = to
           /\ caller' \in [Processes -> [Callers -> CallerStates]]
           /\ \A q \in Processes, u \in Callers : q # p \/ u # t =>
                caller'[q][u] = caller[q][u]
BY DEF LockTypeOK, Goes

(***************************************************************************)
(* Inside a process: a thread enters the listed states only when the table *)
(* did not hold the file, and the file leaves the table with it.           *)
(***************************************************************************)
LEMMA TableAdmitsOne ==
    ASSUME LockInv, NEW p \in Processes, NEW t \in Callers,
           NEW from, NEW to \in CallerStates, Goes(p, t, from, to),
           locked_files_' \in [Processes -> BOOLEAN],
           \A q \in Processes : q # p => locked_files_'[q] = locked_files_[q],
           to \in Listing => locked_files_'[p] /\ (from \in Listing \/ ~locked_files_[p]),
           ~locked_files_'[p] => ~locked_files_[p] \/ from \in Listing
    PROVE  /\ caller' \in [Processes -> [Callers -> CallerStates]]
           /\ ListersAreListed' /\ OneLister'
<1>1. /\ caller[p][t] = from /\ caller'[p][t] = to
      /\ caller' \in [Processes -> [Callers -> CallerStates]]
      /\ \A q \in Processes, u \in Callers : q # p \/ u # t => caller'[q][u] = caller[q][u]
  BY GoesMoves DEF LockInv
<1>2. \A u \in Callers : u # t /\ caller[p][u] \in Listing =>
        locked_files_[p] /\ from \notin Listing
  BY <1>1 DEF LockInv, ListersAreListed, OneLister
<1>3. ListersAreListed'
  BY <1>1, <1>2 DEF LockInv, ListersAreListed
<1>4. OneLister'
  BY <1>1, <1>2 DEF LockInv, OneLister
<1> QED BY <1>1, <1>3, <1>4

(***************************************************************************)
(* Across processes: nobody but p loses the lock, and who holds it in p    *)
(* has it or is marked.                                                    *)
(***************************************************************************)
LEMMA OwnerKeepsOthersOut ==
    ASSUME LockInv, NEW p \in Processes, NEW t \in Callers,
           NEW from, NEW to \in CallerStates, Goes(p, t, from, to),
           \A q \in Processes : q # p /\ owner = q => owner' = q,
           \A q \in Processes, u \in Callers : q # p => lost'[q][u] = lost[q][u],
           \A u \in Callers : caller'[p][u] = "holding" => lost'[p][u] \/ owner' = p
    PROVE  HoldersOwn'
<1>1. \A q \in Processes, u \in Callers : q # p => caller'[q][u] = caller[q][u]
  BY GoesMoves DEF LockInv
<1> QED BY <1>1 DEF LockInv, HoldersOwn

(***************************************************************************)
(* A close drops the lock of the whole process, and marks its holders.     *)
(***************************************************************************)
LEMMA CloseDrops ==
    ASSUME LockInv, NEW p \in Processes, NEW t \in Callers,
           NEW from, NEW to \in CallerStates \ {"holding"}, Goes(p, t, from, to),
           Close(p)
    PROVE  /\ owner' \in Processes \cup {NoProcess}
           /\ lost' \in [Processes -> [Callers -> BOOLEAN]]
           /\ HoldersOwn'
<1>1. /\ owner' \in Processes \cup {NoProcess}
      /\ lost' \in [Processes -> [Callers -> BOOLEAN]]
      /\ \A q \in Processes : q # p /\ owner = q => owner' = q
      /\ \A q \in Processes, u \in Callers : q # p => lost'[q][u] = lost[q][u]
      /\ \A u \in Callers : caller[p][u] = "holding" => lost'[p][u]
  BY DEF LockInv, LockTypeOK, Close
<1>2. \A u \in Callers : caller'[p][u] = "holding" => caller[p][u] = "holding"
  BY GoesMoves DEF LockInv
<1> QED BY <1>1, <1>2, OwnerKeepsOthersOut

(***************************************************************************)
(* One case for each step of LockFile and UnlockFile.                      *)
(***************************************************************************)
LEMMA LockStepInv ==
    ASSUME NoProcess \notin Processes, LockInv, [LockNext]_lockVars
    PROVE  LockInv'
<1>1. ASSUME NEW p \in Processes, Exit(p) PROVE LockInv'
  BY <1>1 DEF LockInv, Exit, LockTypeOK, ListersAreListed, OneLister, HoldersOwn,
              CallerStates, Listing
<1>2. ASSUME NEW p \in Processes, NEW t \in Callers, LockStep(p, t) PROVE LockInv'
  <2>0. /\ owner \in Processes \cup {NoProcess} /\ locked_files_ \in [Processes -> BOOLEAN]
        /\ lost \in [Processes -> [Callers -> BOOLEAN]]
        /\ \A u \in Callers : caller[p][u] = "holding" => lost[p][u] \/ owner = p
        /\ \A u \in Callers : caller[p][u] \in Listing => locked_files_[p]
    BY DEF LockInv, LockTypeOK, HoldersOwn, ListersAreListed
  <2> USE DEF CallerStates, Listing
  <2>1. CASE OpenLockFile(p, t)
    <3>1. /\ Goes(p, t, "idle", "opened")
          /\ UNCHANGED <<owner, locked_files_, lost>>
      BY <2>1 DEF OpenLockFile
    <3>2. /\ caller' \in [Processes -> [Callers -> CallerStates]]
          /\ ListersAreListed' /\ OneLister'
      BY <2>0, <3>1, TableAdmitsOne
    <3>3. \A u \in Callers : caller'[p][u] = "holding" => caller[p][u] = "holding"
      BY <3>1, GoesMoves DEF LockInv
    <3>4. HoldersOwn' BY <2>0, <3>1, <3>3, OwnerKeepsOthersOut
    <3> QED BY <2>0, <3>1, <3>2, <3>4 DEF LockInv, LockTypeOK
  <2>2. CASE InsertLock(p, t)
    <3>1. CASE locked_files_[p]
      <4>1. /\ Goes(p, t, "opened", "refused")
            /\ UNCHANGED <<owner, locked_files_, lost>>
        BY <2>2, <3>1 DEF InsertLock, AlreadyHeld
      <4>2. /\ caller' \in [Processes -> [Callers -> CallerStates]]
            /\ ListersAreListed' /\ OneLister'
        BY <2>0, <4>1, TableAdmitsOne
      <4>3. \A u \in Callers : caller'[p][u] = "holding" => caller[p][u] = "holding"
        BY <4>1, GoesMoves DEF LockInv
      <4>4. HoldersOwn' BY <2>0, <4>1, <4>3, OwnerKeepsOthersOut
      <4> QED BY <2>0, <4>1, <4>2, <4>4 DEF LockInv, LockTypeOK
    <3>2. CASE ~locked_files_[p]
      <4>1. /\ Goes(p, t, "opened", "inserted")
            /\ locked_files_' = [locked_files_ EXCEPT ![p] = TRUE]
            /\ UNCHANGED <<owner, lost>>
        BY <2>2, <3>2 DEF InsertLock, AlreadyHeld
      <4>2. /\ caller' \in [Processes -> [Callers -> CallerStates]]
            /\ ListersAreListed' /\ OneLister'
        BY <2>0, <3>2, <4>1, TableAdmitsOne
      <4>3. \A u \in Callers : caller'[p][u] = "holding" => caller[p][u] = "holding"
        BY <4>1, GoesMoves DEF LockInv
      <4>4. HoldersOwn' BY <2>0, <4>1, <4>3, OwnerKeepsOthersOut
      <4> QED BY <2>0, <4>1, <4>2, <4>4 DEF LockInv, LockTypeOK
    <3> QED BY <3>1, <3>2
  <2>3. CASE CloseRefused(p, t)
    <3>1. /\ Goes(p, t, "refused", "idle")
          /\ Close(p) /\ UNCHANGED locked_files_
      BY <2>3 DEF CloseRefused
    <3>2. /\ caller' \in [Processes -> [Callers -> CallerStates]]
          /\ ListersAreListed' /\ OneLister'
      BY <2>0, <3>1, TableAdmitsOne
    <3>3. /\ owner' \in Processes \cup {NoProcess}
          /\ lost' \in [Processes -> [Callers -> BOOLEAN]]
          /\ HoldersOwn'
      BY <3>1, CloseDrops
    <3> QED BY <2>0, <3>1, <3>2, <3>3 DEF LockInv, LockTypeOK
  <2>4. CASE Fcntl(p, t)
    <3>1. CASE owner \in {NoProcess, p}
      <4>1. /\ Goes(p, t, "inserted", "holding")
            /\ owner' = p /\ lost' = [lost EXCEPT ![p][t] = FALSE]
            /\ UNCHANGED locked_files_
        BY <2>4, <3>1 DEF Fcntl
      <4>2. /\ caller[p][t] = "inserted" /\ locked_files_[p]
            /\ caller' \in [Processes -> [Callers -> CallerStates]]
            /\ ListersAreListed' /\ OneLister'
        <5>1. caller[p][t] = "inserted" BY <4>1 DEF Goes
        <5>2. locked_files_[p] BY <2>0, <5>1
        <5> QED BY <2>0, <4>1, <5>1, <5>2, TableAdmitsOne
      <4>3. HoldersOwn'
        <5>1. \A q \in Processes, u \in Callers : q # p => lost'[q][u] = lost[q][u]
          BY <2>0, <4>1
        <5> QED BY <3>1, <4>1, <5>1, OwnerKeepsOthersOut
      <4>4. lost' \in [Processes -> [Callers -> BOOLEAN]] BY <2>0, <4>1
      <4> QED BY <2>0, <4>1, <4>2, <4>3, <4>4 DEF LockInv, LockTypeOK
    <3>2. CASE owner \notin {NoProcess, p}
      <4>1. /\ Goes(p, t, "inserted", "failed")
            /\ UNCHANGED <<owner, locked_files_, lost>>
        BY <2>4, <3>2 DEF Fcntl
      <4>2. /\ caller' \in [Processes -> [Callers -> CallerStates]]
            /\ ListersAreListed' /\ OneLister'
        <5>1. caller[p][t] = "inserted" BY <4>1 DEF Goes
        <5>2. locked_files_[p] BY <2>0, <5>1
        <5> QED BY <2>0, <4>1, <5>2, TableAdmitsOne
      <4>3. \A u \in Callers : caller'[p][u] = "holding" => caller[p][u] = "holding"
        BY <4>1, GoesMoves DEF LockInv
      <4>4. HoldersOwn' BY <2>0, <4>1, <4>3, OwnerKeepsOthersOut
      <4> QED BY <2>0, <4>1, <4>2, <4>4 DEF LockInv, LockTypeOK
    <3> QED BY <3>1, <3>2
  <2>5. CASE CloseFailed(p, t)
    <3>1. /\ Goes(p, t, "failed", "closed")
          /\ Close(p) /\ UNCHANGED locked_files_
      BY <2>5 DEF CloseFailed
    <3>2. /\ caller' \in [Processes -> [Callers -> CallerStates]]
          /\ ListersAreListed' /\ OneLister'
      <4>1. caller[p][t] = "failed" BY <3>1 DEF Goes
      <4>2. locked_files_[p] BY <2>0, <4>1
      <4> QED BY <2>0, <3>1, <4>2, TableAdmitsOne
    <3>3. /\ owner' \in Processes \cup {NoProcess}
          /\ lost' \in [Processes -> [Callers -> BOOLEAN]]
          /\ HoldersOwn'
      BY <3>1, CloseDrops
    <3> QED BY <2>0, <3>1, <3>2, <3>3 DEF LockInv, LockTypeOK
  <2>6. CASE RemoveFailed(p, t)
    <3>1. /\ Goes(p, t, "closed", "idle")
          /\ locked_files_' = [locked_files_ EXCEPT ![p] = FALSE] /\ UNCHANGED <<owner, lost>>
      BY <2>6 DEF RemoveFailed
    <3>2. /\ caller' \in [Processes -> [Callers -> CallerStates]]
          /\ ListersAreListed' /\ OneLister'
      BY <2>0, <3>1, TableAdmitsOne
    <3>3. \A u \in Callers : caller'[p][u] = "holding" => caller[p][u] = "holding"
      BY <3>1, GoesMoves DEF LockInv
    <3>4. HoldersOwn' BY <2>0, <3>1, <3>3, OwnerKeepsOthersOut
    <3> QED BY <2>0, <3>1, <3>2, <3>4 DEF LockInv, LockTypeOK
  <2>7. CASE FcntlUnlock(p, t)
    <3>1. /\ Goes(p, t, "holding", "unlocked")
          /\ owner' = IF owner = p THEN NoProcess ELSE owner
          /\ UNCHANGED <<locked_files_, lost>>
      BY <2>7 DEF FcntlUnlock
    <3>2. /\ caller' \in [Processes -> [Callers -> CallerStates]]
          /\ ListersAreListed' /\ OneLister'
      <4>1. caller[p][t] = "holding" BY <3>1 DEF Goes
      <4>2. locked_files_[p] BY <2>0, <4>1
      <4> QED BY <2>0, <3>1, <4>2, TableAdmitsOne
    <3>3. \A u \in Callers : caller'[p][u] # "holding"
      <4>1. /\ caller[p][t] = "holding" /\ caller'[p][t] = "unlocked"
            /\ \A u \in Callers : u # t => caller'[p][u] = caller[p][u]
        BY <3>1, GoesMoves DEF LockInv
      <4> QED BY <4>1 DEF LockInv, OneLister
    <3>4. HoldersOwn' BY <3>1, <3>3, OwnerKeepsOthersOut
    <3> QED BY <2>0, <3>1, <3>2, <3>4 DEF LockInv, LockTypeOK
  <2>8. CASE RemoveUnlocked(p, t)
    <3>1. /\ Goes(p, t, "unlocked", "removed")
          /\ locked_files_' = [locked_files_ EXCEPT ![p] = FALSE] /\ UNCHANGED <<owner, lost>>
      BY <2>8 DEF RemoveUnlocked
    <3>2. /\ caller' \in [Processes -> [Callers -> CallerStates]]
          /\ ListersAreListed' /\ OneLister'
      BY <2>0, <3>1, TableAdmitsOne
    <3>3. \A u \in Callers : caller'[p][u] = "holding" => caller[p][u] = "holding"
      BY <3>1, GoesMoves DEF LockInv
    <3>4. HoldersOwn' BY <2>0, <3>1, <3>3, OwnerKeepsOthersOut
    <3> QED BY <2>0, <3>1, <3>2, <3>4 DEF LockInv, LockTypeOK
  <2>9. CASE CloseUnlocked(p, t)
    <3>1. /\ Goes(p, t, "removed", "idle")
          /\ Close(p) /\ UNCHANGED locked_files_
      BY <2>9 DEF CloseUnlocked
    <3>2. /\ caller' \in [Processes -> [Callers -> CallerStates]]
          /\ ListersAreListed' /\ OneLister'
      BY <2>0, <3>1, TableAdmitsOne
    <3>3. /\ owner' \in Processes \cup {NoProcess}
          /\ lost' \in [Processes -> [Callers -> BOOLEAN]]
          /\ HoldersOwn'
      BY <3>1, CloseDrops
    <3> QED BY <2>0, <3>1, <3>2, <3>3 DEF LockInv, LockTypeOK
  <2> QED BY <1>2, <2>1, <2>2, <2>3, <2>4, <2>5, <2>6, <2>7, <2>8, <2>9 DEF LockStep
<1>3. CASE UNCHANGED lockVars
  BY <1>3 DEF lockVars, LockInv, LockTypeOK, ListersAreListed, OneLister, HoldersOwn
<1> QED BY <1>1, <1>2, <1>3 DEF LockNext

(***************************************************************************)
(* LockFile keeps a database to one user: whichever threads of whichever   *)
(* processes lock and unlock the file, two hold it together only in two    *)
(* processes, of which one had the kernel's lock dropped by a close.       *)
(***************************************************************************)
THEOREM LockKeepsOneUser == LockSpec => []OneLockHolder
<1>1. LockInv /\ [LockNext]_lockVars => LockInv' BY LockStepInv, NoProcessAssumption
<1> QED BY <1>1, LockInitInv, LockInvImplies, PTL DEF LockSpec

-----------------------------------------------------------------------------
(* Schedule and BGThread                                                   *)

BgTypeOK ==
    /\ given \in Nat /\ queue_ \in Seq(Nat) /\ done \in Seq(Nat)
    /\ bgthread_ \in {"none", "ready", "waiting", "running"}

BgInv == BgTypeOK /\ BackgroundWorkIsRun

LEMMA BgInitInv == BgInit => BgInv
<1> SUFFICES ASSUME BgInit PROVE BgInv OBVIOUS
<1>1. /\ given = 0 /\ queue_ = <<>> /\ done = <<>> /\ bgthread_ = "none" BY DEF BgInit
<1>2. BgTypeOK BY <1>1 DEF BgTypeOK
<1>3. done \o queue_ = [i \in 1 .. given |-> i] BY <1>1
<1> QED BY <1>1, <1>2, <1>3 DEF BgInv, BackgroundWorkIsRun

(***************************************************************************)
(* An item that moves from the head of the queue to the end of those done  *)
(* keeps its place among all.                                              *)
(***************************************************************************)
LEMMA MovedItem ==
    ASSUME NEW d \in Seq(Nat), NEW q \in Seq(Nat), q # <<>>
    PROVE  /\ Head(q) \in Nat /\ Tail(q) \in Seq(Nat) /\ Append(d, Head(q)) \in Seq(Nat)
           /\ Append(d, Head(q)) \o Tail(q) = d \o q
<1>1. Head(q) \in Nat /\ Tail(q) \in Seq(Nat) /\ Append(d, Head(q)) \in Seq(Nat) OBVIOUS
<1> DEFINE l == Append(d, Head(q)) \o Tail(q)
<1>2. l \in Seq(Nat) /\ d \o q \in Seq(Nat) BY <1>1
<1>3. Len(l) = Len(d \o q) BY <1>1
<1>4. ASSUME NEW i \in 1 .. Len(l) PROVE l[i] = (d \o q)[i] BY <1>1
<1>5. l = d \o q
  <2> HIDE DEF l
  <2> QED BY <1>2, <1>3, <1>4, SeqEqual
<1> QED BY <1>1, <1>5

LEMMA BgStepInv == BgInv /\ [BgNext]_bgVars => BgInv'
<1> SUFFICES ASSUME BgInv, [BgNext]_bgVars PROVE BgInv' OBVIOUS
<1> USE DEF BgInv
<1>1. CASE Schedule
  <2>1. /\ given' = given + 1 /\ done' = done /\ queue_' = Append(queue_, given + 1)
        /\ queue_ = <<>> => bgthread_' \notin {"none", "waiting"}
        /\ bgthread_' \in {"none", "ready", "waiting", "running"}
    BY <1>1 DEF Schedule, Signals, BgTypeOK
  <2>2. BgTypeOK' BY <2>1 DEF BgTypeOK
  <2>3. bgthread_' \notin {"none", "waiting"}
    BY <1>1, <2>1 DEF Schedule, BackgroundWorkIsRun
  <2>4. (done \o queue_)' = [i \in 1 .. given' |-> i]
    <3>1. (done \o queue_)' = Append(done \o queue_, given + 1)
      BY <2>1 DEF BgTypeOK
    <3>2. done \o queue_ = [i \in 1 .. given |-> i] BY DEF BackgroundWorkIsRun
    <3>3. Append([i \in 1 .. given |-> i], given + 1) = [i \in 1 .. given + 1 |-> i]
      BY DEF BgTypeOK
    <3> QED BY <2>1, <3>1, <3>2, <3>3 DEF BgTypeOK
  <2> QED BY <2>2, <2>3, <2>4 DEF BackgroundWorkIsRun
<1>2. CASE LookForWork
  <2>1. CASE queue_ = <<>>
    BY <1>2, <2>1 DEF LookForWork, BgTypeOK, BackgroundWorkIsRun
  <2>2. CASE queue_ # <<>>
    <3>1. /\ bgthread_' = "running" /\ done' = Append(done, Head(queue_))
          /\ queue_' = Tail(queue_) /\ given' = given
      BY <1>2, <2>2 DEF LookForWork
    <3>2. done' \o queue_' = done \o queue_ /\ done' \in Seq(Nat) /\ queue_' \in Seq(Nat)
      BY <2>2, <3>1, MovedItem DEF BgTypeOK
    <3> QED BY <3>1, <3>2 DEF BgTypeOK, BackgroundWorkIsRun
  <2> QED BY <2>1, <2>2
<1>3. CASE SpuriousWakeup
  BY <1>3 DEF SpuriousWakeup, BgTypeOK, BackgroundWorkIsRun
<1>4. CASE ItemDone
  BY <1>4 DEF ItemDone, BgTypeOK, BackgroundWorkIsRun
<1>5. CASE UNCHANGED bgVars
  BY <1>5 DEF bgVars, BgTypeOK, BackgroundWorkIsRun
<1> QED BY <1>1, <1>2, <1>3, <1>4, <1>5 DEF BgNext

(***************************************************************************)
(* What Schedule is given is run, once and in order, and BGThread never    *)
(* waits while there is work, for any number of items.                     *)
(***************************************************************************)
THEOREM NoWakeupLost == BgSpec => []BackgroundWorkIsRun
<1>1. BgInv => BackgroundWorkIsRun BY DEF BgInv
<1> QED BY <1>1, BgInitInv, BgStepInv, PTL DEF BgSpec

-----------------------------------------------------------------------------
(* TableCache: the list of a cache                                         *)

LEMMA Distinct ==
    ASSUME NEW s \in Seq(Nat)
    PROVE  /\ IsInjective(s) <=> \A j, k \in 1 .. Len(s) : s[j] = s[k] => j = k
           /\ \A x : x \in Range(s) <=> \E j \in 1 .. Len(s) : s[j] = x
<1>1. DOMAIN s = 1 .. Len(s)
  OBVIOUS
<1>2. IsInjective(s) <=> \A j, k \in 1 .. Len(s) : s[j] = s[k] => j = k
  BY <1>1, Zenon DEF IsInjective
<1>3. \A x : x \in Range(s) <=> \E j \in 1 .. Len(s) : s[j] = x
  BY <1>1, Zenon DEF Range
<1> QED BY <1>2, <1>3

LEMMA ElementsWithout ==
    ASSUME NEW s \in Seq(Nat), NEW i \in 1 .. Len(s)
    PROVE  /\ RemoveAt(s, i) \in Seq(Nat)
           /\ Len(RemoveAt(s, i)) = Len(s) - 1
           /\ \A j \in 1 .. Len(s) - 1 : RemoveAt(s, i)[j] = IF j < i THEN s[j] ELSE s[j + 1]
<1> DEFINE a == SubSeq(s, 1, i - 1)
           b == SubSeq(s, i + 1, Len(s))
<1>1. /\ a \in Seq(Nat) /\ Len(a) = i - 1
      /\ \A j \in 1 .. i - 1 : a[j] = s[j]
  BY SubSeqProperties
<1>2. /\ b \in Seq(Nat) /\ Len(b) = Len(s) - i
      /\ \A j \in 1 .. Len(s) - i : b[j] = s[i + j]
  BY SubSeqProperties
<1>3. RemoveAt(s, i) = a \o b
  BY DEF RemoveAt
<1> HIDE DEF a, b
<1>4. /\ a \o b \in Seq(Nat) /\ Len(a \o b) = Len(a) + Len(b)
      /\ \A j \in 1 .. Len(a) + Len(b) : (a \o b)[j] = IF j <= Len(a) THEN a[j] ELSE b[j - Len(a)]
  BY <1>1, <1>2, ConcatProperties
<1>5. Len(a) + Len(b) = Len(s) - 1
  BY <1>1, <1>2
<1>6. ASSUME NEW j \in 1 .. Len(s) - 1
      PROVE  (a \o b)[j] = IF j < i THEN s[j] ELSE s[j + 1]
  <2>1. (a \o b)[j] = IF j <= i - 1 THEN a[j] ELSE b[j - (i - 1)]
    BY <1>1, <1>4, <1>5
  <2>2. CASE j < i
    BY <1>1, <2>1, <2>2
  <2>3. CASE j >= i
    <3>1. j - (i - 1) \in 1 .. Len(s) - i /\ i + (j - (i - 1)) = j + 1
      BY <2>3
    <3>2. b[j - (i - 1)] = s[i + (j - (i - 1))]
      BY <1>2, <3>1
    <3> QED BY <2>1, <2>3, <3>1, <3>2
  <2>4. j < i \/ j >= i
    OBVIOUS
  <2> QED BY <2>2, <2>3, <2>4
<1> QED BY <1>3, <1>4, <1>5, <1>6

(* t is s without its i-th element. *)
Without(t, s, i) ==
    /\ t \in Seq(Nat) /\ Len(t) = Len(s) - 1
    /\ \A j \in 1 .. i - 1 : t[j] = s[j]
    /\ \A j \in i .. Len(s) - 1 : t[j] = s[j + 1]

LEMMA ListWithoutAt ==
    ASSUME NEW s \in Seq(Nat), IsInjective(s), NEW i \in 1 .. Len(s),
           NEW t, Without(t, s, i)
    PROVE  IsInjective(t) /\ Range(t) = Range(s) \ {s[i]}
<1>0. /\ t \in Seq(Nat) /\ Len(t) = Len(s) - 1
      /\ \A j \in 1 .. i - 1 : t[j] = s[j]
      /\ \A j \in i .. Len(s) - 1 : t[j] = s[j + 1]
  BY DEF Without
<1>1. \A j, k \in 1 .. Len(s) : s[j] = s[k] => j = k
  BY <1>0, Distinct
<1>2. ASSUME NEW j \in 1 .. Len(s) - 1
      PROVE  \E m \in 1 .. Len(s) : t[j] = s[m] /\ m # i /\ ((j < i /\ m = j) \/ (j >= i /\ m = j + 1))
  <2>1. CASE j < i
    <3>1. j \in 1 .. i - 1 /\ j \in 1 .. Len(s)
      BY <1>0, <2>1
    <3> QED BY <1>0, <2>1, <3>1
  <2>2. CASE j >= i
    <3>1. j \in i .. Len(s) - 1 /\ j + 1 \in 1 .. Len(s) /\ j + 1 # i
      BY <1>0, <2>2
    <3> QED BY <1>0, <2>2, <3>1
  <2> QED BY <1>0, <2>1, <2>2
<1>3. /\ IsInjective(t)
      /\ Range(t) \subseteq Range(s) \ {s[i]}
  <2>1. ASSUME NEW j \in 1 .. Len(t), NEW k \in 1 .. Len(t), t[j] = t[k]
        PROVE  j = k
    <3>1. PICK m \in 1 .. Len(s) : t[j] = s[m] /\ ((j < i /\ m = j) \/ (j >= i /\ m = j + 1))
      BY <1>0, <1>2
    <3>2. PICK n \in 1 .. Len(s) : t[k] = s[n] /\ ((k < i /\ n = k) \/ (k >= i /\ n = k + 1))
      BY <1>0, <1>2
    <3>3. m = n
      BY <1>0, <1>1, <2>1, <3>1, <3>2
    <3>4. j \in Int /\ k \in Int /\ i \in Int
      BY <1>0
    <3>5. CASE j < i
      <4>1. m = j /\ k < i
        <5>1. m = j /\ n = j
          BY <3>1, <3>3, <3>4, <3>5
        <5> QED BY <3>2, <3>4, <3>5, <5>1
      <4> QED BY <1>0, <3>2, <3>3, <3>4, <4>1
    <3>6. CASE j >= i
      <4>1. m = j + 1 /\ k >= i
        <5>1. m = j + 1 /\ n = j + 1
          BY <3>1, <3>3, <3>4, <3>6
        <5> QED BY <3>2, <3>4, <3>6, <5>1
      <4> QED BY <1>0, <3>2, <3>3, <3>4, <4>1
    <3> QED BY <1>0, <3>4, <3>5, <3>6
  <2>2. ASSUME NEW j \in 1 .. Len(t) PROVE t[j] \in Range(s) \ {s[i]}
    <3>1. PICK m \in 1 .. Len(s) : t[j] = s[m] /\ m # i
      BY <1>0, <1>2
    <3> QED BY <1>0, <1>1, <3>1, Distinct
  <2>3. IsInjective(t)
    BY <1>0, <2>1, Distinct
  <2>4. ASSUME NEW x \in Range(t) PROVE x \in Range(s) \ {s[i]}
    <3>1. PICK j \in 1 .. Len(t) : t[j] = x
      BY <1>0, Distinct
    <3> QED BY <1>0, <2>2, <3>1
  <2> QED BY <1>0, <2>3, <2>4
<1>4. ASSUME NEW k \in 1 .. Len(s), k # i PROVE s[k] \in Range(t)
  <2>1. CASE k < i
    <3>1. k \in 1 .. Len(t) /\ k \in 1 .. i - 1
      BY <1>0, <2>1
    <3> QED BY <1>0, <3>1, Distinct
  <2>2. CASE k > i
    <3>1. k - 1 \in 1 .. Len(t) /\ k - 1 \in i .. Len(s) - 1 /\ (k - 1) + 1 = k
      BY <1>0, <2>2
    <3>2. t[k - 1] = s[k]
      BY <1>0, <3>1
    <3> QED BY <1>0, <3>1, <3>2, Distinct
  <2>3. k < i \/ k > i
    BY <1>0, <1>4
  <2> QED BY <1>0, <2>1, <2>2, <2>3
<1>5. Range(s) \ {s[i]} \subseteq Range(t)
  <2> SUFFICES ASSUME NEW x, x \in Range(s), x # s[i] PROVE x \in Range(t)
    BY <1>0
  <2>1. PICK k \in 1 .. Len(s) : s[k] = x
    BY <1>0, Distinct
  <2> QED BY <1>0, <1>4, <2>1
<1> QED BY <1>0, <1>3, <1>5

LEMMA ListWithout ==
    ASSUME NEW s \in Seq(Nat), IsInjective(s), NEW h \in Range(s), NEW t,
           t = RemoveAt(s, CHOOSE i \in DOMAIN s : s[i] = h)
    PROVE  /\ t \in Seq(Nat) /\ IsInjective(t)
           /\ Range(t) = Range(s) \ {h} /\ Len(t) = Len(s) - 1
<1>1. PICK i \in 1 .. Len(s) : i = (CHOOSE j \in DOMAIN s : s[j] = h) /\ s[i] = h
  <2>1. \E j \in DOMAIN s : s[j] = h
    BY Zenon DEF Range
  <2>2. DOMAIN s = 1 .. Len(s)
    OBVIOUS
  <2> QED BY <2>1, <2>2
<1>2. t = RemoveAt(s, i)
  BY <1>1
<1>3. /\ t \in Seq(Nat) /\ Len(t) = Len(s) - 1
      /\ \A j \in 1 .. Len(s) - 1 : t[j] = IF j < i THEN s[j] ELSE s[j + 1]
  BY <1>2, ElementsWithout
<1>4. /\ \A j \in 1 .. i - 1 : t[j] = s[j]
      /\ \A j \in i .. Len(s) - 1 : t[j] = s[j + 1]
  <2>1. ASSUME NEW j \in 1 .. i - 1 PROVE t[j] = s[j]
    <3>1. j \in 1 .. Len(s) - 1 /\ j < i
      OBVIOUS
    <3> QED BY <1>3, <3>1
  <2>2. ASSUME NEW j \in i .. Len(s) - 1 PROVE t[j] = s[j + 1]
    <3>1. j \in 1 .. Len(s) - 1 /\ ~ (j < i)
      OBVIOUS
    <3> QED BY <1>3, <3>1
  <2> QED BY <2>1, <2>2
<1>5. IsInjective(t) /\ Range(t) = Range(s) \ {s[i]}
  <2>1. Without(t, s, i)
    BY <1>3, <1>4 DEF Without
  <2> QED BY <1>1, <2>1, ListWithoutAt
<1> QED BY <1>1, <1>3, <1>5

LEMMA ListWith ==
    ASSUME NEW s \in Seq(Nat), IsInjective(s), NEW h \in Nat \ Range(s), NEW t, t = Append(s, h)
    PROVE  t \in Seq(Nat) /\ IsInjective(t) /\ Range(t) = Range(s) \cup {h}
<1>1. /\ t \in Seq(Nat) /\ Len(t) = Len(s) + 1 /\ t[Len(s) + 1] = h
      /\ \A j \in 1 .. Len(s) : t[j] = s[j]
  OBVIOUS
<1>2. \A j, k \in 1 .. Len(s) : s[j] = s[k] => j = k
  BY DEF IsInjective
<1>3. \A j \in 1 .. Len(s) : s[j] # h
  BY DEF Range
<1>4. IsInjective(t)
  <2> SUFFICES ASSUME NEW j \in 1 .. Len(s) + 1, NEW k \in 1 .. Len(s) + 1, t[j] = t[k]
               PROVE  j = k
    BY <1>1 DEF IsInjective
  <2> QED BY <1>1, <1>2, <1>3
<1>5. Range(t) \subseteq Range(s) \cup {h}
  <2> SUFFICES ASSUME NEW j \in 1 .. Len(s) + 1 PROVE t[j] \in Range(s) \cup {h}
    BY <1>1 DEF Range
  <2> QED BY <1>1 DEF Range
<1>6. Range(s) \cup {h} \subseteq Range(t)
  <2>1. h \in Range(t)
    BY <1>1 DEF Range
  <2>2. ASSUME NEW j \in 1 .. Len(s) PROVE s[j] \in Range(t)
    BY <1>1 DEF Range
  <2> QED BY <2>1, <2>2 DEF Range
<1> QED BY <1>1, <1>4, <1>5, <1>6

LEMMA ListFinite ==
    ASSUME NEW s \in Seq(Nat)
    PROVE  IsFiniteSet(Range(s)) /\ Range(s) \subseteq Nat
<1>1. IsFiniteSet(1 .. Len(s))
  BY FS_Interval
<1>2. s \in Surjection(1 .. Len(s), Range(s))
  BY DEF Surjection, Range
<1>3. IsFiniteSet(Range(s))
  BY <1>1, <1>2, FS_Surjection
<1> QED BY <1>3 DEF Range

-----------------------------------------------------------------------------
(* The total usage                                                         *)

(* The fields of a cache. *)
IsCache(c) ==
    c = [entries |-> c.entries, table |-> c.table, elems |-> c.elems,
         lru |-> c.lru, usage |-> c.usage, allowed |-> c.allowed]

(***************************************************************************)
(* n counts the references of every handle: the entries are the handles    *)
(* that have some, a file is the key of each.                              *)
(***************************************************************************)
EntriesOK(e, n) ==
    /\ e = [h \in DOMAIN e |-> e[h]]
    /\ DOMAIN e = {h \in Nat : n[h] > 0} /\ IsFiniteSet(DOMAIN e)
    /\ \A h \in DOMAIN e : /\ e[h] \in [key : Files, refs : Nat, mmap : BOOLEAN]
                           /\ e[h].refs = n[h]

(* The weights of the entries, and their total. *)
Weights(e) == [h \in DOMAIN e |-> Charge[e[h].key]]

LEMMA UsageIsTotal ==
    ASSUME NEW c, NEW n, EntriesOK(c.entries, n)
    PROVE  /\ Weights(c.entries) \in [DOMAIN c.entries -> Nat]
           /\ \E g : /\ IsTotal(g, Weights(c.entries), DOMAIN c.entries)
                     /\ Usage(c) = g[DOMAIN c.entries]
<1> DEFINE D == DOMAIN c.entries
           w == Weights(c.entries)
           step(f) == [s \in SUBSET D |->
                         IF s = {} THEN 0
                         ELSE Charge[c.entries[CHOOSE x \in s : TRUE].key]
                                + f[s \ {CHOOSE x \in s : TRUE}]]
           sum(f) == [s \in SUBSET D |->
                         IF s = {} THEN 0 ELSE w[Chosen(s)] + f[s \ {Chosen(s)}]]
           g == CHOOSE f : f = step(f)
<1>1. w \in [D -> Nat]
  BY CacheAssumption DEF Weights, EntriesOK
<1>2. IsFiniteSet(D)
  BY DEF EntriesOK
<1>3. Usage(c) = g[D]
  BY DEF Usage, MapThenSumSet, MapThenFoldSet
<1>4. \A f : step(f) = sum(f)
  <2> SUFFICES ASSUME NEW f PROVE step(f) = sum(f)
    OBVIOUS
  <2>1. ASSUME NEW s \in SUBSET D, s # {}
        PROVE  Charge[c.entries[CHOOSE x \in s : TRUE].key] + f[s \ {CHOOSE x \in s : TRUE}]
                 = w[Chosen(s)] + f[s \ {Chosen(s)}]
    <3>1. Chosen(s) \in D
      BY <2>1, ChosenFrom
    <3>2. w[Chosen(s)] = Charge[c.entries[Chosen(s)].key]
      BY <3>1 DEF Weights
    <3> QED BY <3>2 DEF Chosen
  <2> HIDE DEF D, w
  <2> QED BY <2>1
<1>5. \E f : f = sum(f)
  <2>1. \E f : IsTotal(f, w, D)
    <3> HIDE DEF w, D
    <3> QED BY <1>1, <1>2, TotalExists
  <2> QED BY <2>1 DEF IsTotal
<1>6. g = step(g)
  <2>1. \E f : f = step(f)
    <3> HIDE DEF step, sum
    <3> QED BY <1>4, <1>5
  <2> HIDE DEF step
  <2> QED BY <2>1
<1>7. g = sum(g)
  <2> HIDE DEF step, sum, g
  <2> QED BY <1>4, <1>6
<1>8. IsTotal(g, w, D)
  <2> HIDE DEF g
  <2> QED BY <1>7 DEF IsTotal
<1> HIDE DEF g
<1> QED BY <1>1, <1>3, <1>8

LEMMA UsageIsNatural ==
    ASSUME NEW c, NEW n, EntriesOK(c.entries, n)
    PROVE  Usage(c) \in Nat
<1>1. PICK g : /\ IsTotal(g, Weights(c.entries), DOMAIN c.entries)
               /\ Usage(c) = g[DOMAIN c.entries]
  BY UsageIsTotal
<1>2. IsFiniteSet(DOMAIN c.entries) /\ Weights(c.entries) \in [DOMAIN c.entries -> Nat]
  BY UsageIsTotal DEF EntriesOK
<1>3. g \in [SUBSET DOMAIN c.entries -> Nat]
  BY <1>1, <1>2, TotalIsNatural
<1> QED BY <1>1, <1>3

(* Every handle of c is in d with the same key. *)
KeysKept(d, c) ==
    /\ DOMAIN c.entries \subseteq DOMAIN d.entries
    /\ \A h \in DOMAIN c.entries : d.entries[h].key = c.entries[h].key

LEMMA UsageSame ==
    ASSUME NEW c, NEW n, EntriesOK(c.entries, n), NEW d, NEW m, EntriesOK(d.entries, m),
           KeysKept(d, c), DOMAIN d.entries = DOMAIN c.entries
    PROVE  Usage(d) = Usage(c)
<1>1. PICK f : /\ IsTotal(f, Weights(c.entries), DOMAIN c.entries)
               /\ Usage(c) = f[DOMAIN c.entries]
  BY UsageIsTotal
<1>2. PICK g : /\ IsTotal(g, Weights(d.entries), DOMAIN d.entries)
               /\ Usage(d) = g[DOMAIN d.entries]
  BY UsageIsTotal
<1>3. \A h \in DOMAIN c.entries : Weights(c.entries)[h] = Weights(d.entries)[h]
  BY DEF Weights, KeysKept
<1>4. IsFiniteSet(DOMAIN c.entries)
  BY DEF EntriesOK
<1>5. f[DOMAIN c.entries] = g[DOMAIN c.entries]
  BY <1>1, <1>2, <1>3, <1>4, TotalSame
<1> QED BY <1>1, <1>2, <1>5

LEMMA UsageMore ==
    ASSUME NEW c, NEW n, EntriesOK(c.entries, n), NEW d, NEW m, EntriesOK(d.entries, m),
           NEW h, h \notin DOMAIN c.entries, DOMAIN d.entries = DOMAIN c.entries \cup {h},
           KeysKept(d, c)
    PROVE  Usage(d) = Usage(c) + Charge[d.entries[h].key]
<1> DEFINE C == DOMAIN c.entries
           D == DOMAIN d.entries
<1>1. PICK f : IsTotal(f, Weights(c.entries), C) /\ Usage(c) = f[C]
  BY UsageIsTotal
<1>2. PICK g : IsTotal(g, Weights(d.entries), D) /\ Usage(d) = g[D]
  BY UsageIsTotal
<1>3. \A x \in C : Weights(c.entries)[x] = Weights(d.entries)[x]
  BY DEF Weights, KeysKept
<1>4. IsFiniteSet(C) /\ IsFiniteSet(D) /\ C \subseteq D /\ h \in D /\ D \ {h} = C
  BY DEF EntriesOK
<1>5. Weights(d.entries) \in [D -> Nat] /\ Weights(d.entries)[h] = Charge[d.entries[h].key]
  BY <1>4, UsageIsTotal DEF Weights
<1> HIDE DEF C, D
<1>6. f[C] = g[C]
  BY <1>1, <1>2, <1>3, <1>4, TotalSame
<1>7. D \in SUBSET D
  OBVIOUS
<1>8. g[D] = Weights(d.entries)[h] + g[D \ {h}]
  BY <1>2, <1>4, <1>5, <1>7, TotalWithout
<1>9. f[C] \in Nat /\ Charge[d.entries[h].key] \in Nat
  <2>1. Usage(c) \in Nat
    BY UsageIsNatural
  <2>2. Weights(d.entries)[h] \in Nat
    BY <1>4, <1>5
  <2> QED BY <1>1, <1>5, <2>1, <2>2
<1>10. g[D] = Charge[d.entries[h].key] + f[C]
  BY <1>4, <1>5, <1>6, <1>8
<1>11. Charge[d.entries[h].key] + f[C] = f[C] + Charge[d.entries[h].key]
  BY <1>9
<1> QED BY <1>1, <1>2, <1>10, <1>11

-----------------------------------------------------------------------------
(* References                                                              *)

(***************************************************************************)
(* A number for every handle.                                              *)
(***************************************************************************)
Counts(n) == n \in [Nat -> Nat]

(***************************************************************************)
(* The usage and the slots of the open files: m slots are in the limiter   *)
(* or with a file of the cache.                                            *)
(***************************************************************************)
Accounts(c, m) ==
    /\ c.usage = Usage(c)
    /\ c.allowed \in Nat /\ c.allowed + Cardinality(Mapped(c)) = m

(* d has the list and the table of c. *)
SameLists(d, c) == d.table = c.table /\ d.elems = c.elems /\ d.lru = c.lru

(* The entries of d are entries of c, for the same file. *)
EntriesOf(d, c) ==
    \A h \in DOMAIN d.entries : /\ h \in DOMAIN c.entries
                                /\ d.entries[h].key = c.entries[h].key
                                /\ d.entries[h].mmap = c.entries[h].mmap

LEMMA MappedFinite ==
    ASSUME NEW c, NEW n, EntriesOK(c.entries, n)
    PROVE  IsFiniteSet(Mapped(c)) /\ Cardinality(Mapped(c)) \in Nat
<1>1. Mapped(c) \subseteq DOMAIN c.entries
  BY DEF Mapped
<1> QED BY <1>1, FS_Subset, FS_CardinalityType DEF EntriesOK

LEMMA FreeKeeps ==
    ASSUME NEW c, IsCache(c), NEW n, Counts(n), EntriesOK(c.entries, n),
           NEW m, Accounts(c, m), NEW h \in Nat, n[h] = 1,
           NEW d, d = Free(c, h), NEW k, k = [n EXCEPT ![h] = 0]
    PROVE  /\ IsCache(d) /\ EntriesOK(d.entries, k) /\ Accounts(d, m)
           /\ SameLists(d, c) /\ EntriesOf(d, c) /\ d.usage <= c.usage
<1>1. /\ d.entries = [x \in DOMAIN c.entries \ {h} |-> c.entries[x]]
      /\ d.usage = c.usage - Charge[c.entries[h].key]
      /\ d.allowed = c.allowed + (IF c.entries[h].mmap THEN 1 ELSE 0)
      /\ IsCache(d) /\ SameLists(d, c)
  <2>1. PICK e : e = [c EXCEPT !.usage = @ - Charge[c.entries[h].key],
                              !.entries = [x \in DOMAIN @ \ {h} |-> @[x]]]
    OBVIOUS
  <2>2. /\ e.entries = [x \in DOMAIN c.entries \ {h} |-> c.entries[x]]
        /\ e.usage = c.usage - Charge[c.entries[h].key]
        /\ e.allowed = c.allowed /\ IsCache(e) /\ SameLists(e, c)
    BY <2>1 DEF IsCache, SameLists
  <2>3. d = CloseFile(e, c.entries[h].mmap)
    BY <2>1 DEF Free
  <2>4. c.allowed \in Nat
    BY DEF Accounts
  <2>5. CASE c.entries[h].mmap
    <3>1. d = [e EXCEPT !.allowed = @ + 1]
      BY <2>3, <2>5 DEF CloseFile
    <3> QED BY <2>2, <2>5, <3>1 DEF IsCache, SameLists
  <2>6. CASE ~ c.entries[h].mmap
    <3>1. d = e
      BY <2>3, <2>6 DEF CloseFile
    <3> QED BY <2>2, <2>4, <2>6, <3>1
  <2> QED BY <2>5, <2>6
<1>2. DOMAIN c.entries = {x \in Nat : n[x] > 0} /\ IsFiniteSet(DOMAIN c.entries)
  BY DEF EntriesOK
<1>3. h \in DOMAIN c.entries /\ DOMAIN d.entries = DOMAIN c.entries \ {h}
  BY <1>1, <1>2
<1>4. \A x \in DOMAIN d.entries : d.entries[x] = c.entries[x] /\ x \in DOMAIN c.entries
  BY <1>1
<1>5. EntriesOK(d.entries, k)
  <2>1. DOMAIN d.entries = {x \in Nat : k[x] > 0}
    BY <1>2, <1>3 DEF Counts
  <2>2. IsFiniteSet(DOMAIN d.entries)
    BY <1>2, <1>3, FS_RemoveElement
  <2>3. d.entries = [x \in DOMAIN d.entries |-> d.entries[x]]
    BY <1>1, <1>3, <1>4
  <2>4. \A x \in DOMAIN c.entries : /\ c.entries[x] \in [key : Files, refs : Nat, mmap : BOOLEAN]
                                    /\ c.entries[x].refs = n[x]
    BY DEF EntriesOK
  <2>5. \A x \in DOMAIN d.entries : k[x] = n[x]
    BY <1>2, <1>3
  <2> QED BY <1>4, <2>1, <2>2, <2>3, <2>4, <2>5 DEF EntriesOK
<1>6. EntriesOf(d, c)
  BY <1>4 DEF EntriesOf
<1>7. Usage(c) = Usage(d) + Charge[c.entries[h].key]
  <2>1. h \notin DOMAIN d.entries /\ DOMAIN c.entries = DOMAIN d.entries \cup {h}
    BY <1>3
  <2>2. KeysKept(c, d)
    BY <1>3, <1>4 DEF KeysKept
  <2> QED BY <1>5, <2>1, <2>2, UsageMore
<1>8. Charge[c.entries[h].key] \in Nat /\ Usage(d) \in Nat
  <2>1. c.entries[h].key \in Files
    BY <1>3 DEF EntriesOK
  <2> QED BY <1>5, <2>1, CacheAssumption, UsageIsNatural
<1>9. d.usage = Usage(d) /\ d.usage <= c.usage
  BY <1>1, <1>7, <1>8 DEF Accounts
<1>10. d.allowed \in Nat /\ d.allowed + Cardinality(Mapped(d)) = m
  <2>1. c.entries[h].mmap \in BOOLEAN
    BY <1>3 DEF EntriesOK
  <2>2. Mapped(d) = Mapped(c) \ {h}
    BY <1>3, <1>4 DEF Mapped
  <2>3. IsFiniteSet(Mapped(c)) /\ Cardinality(Mapped(c)) \in Nat /\ c.allowed \in Nat
        /\ c.allowed + Cardinality(Mapped(c)) = m
    BY MappedFinite DEF Accounts
  <2>4. CASE c.entries[h].mmap
    <3>1. h \in Mapped(c)
      BY <1>3, <2>4 DEF Mapped
    <3>2. Cardinality(Mapped(d)) = Cardinality(Mapped(c)) - 1
      BY <2>2, <2>3, <3>1, FS_RemoveElement
    <3> QED BY <1>1, <2>3, <2>4, <3>2
  <2>5. CASE ~ c.entries[h].mmap
    <3>1. Mapped(d) = Mapped(c)
      BY <1>3, <2>2, <2>5 DEF Mapped
    <3> QED BY <1>1, <2>3, <2>5, <3>1
  <2> QED BY <2>1, <2>4, <2>5
<1> QED BY <1>1, <1>5, <1>6, <1>9, <1>10 DEF Accounts

(***************************************************************************)
(* Unref takes one reference away, and closes the table with the last one. *)
(***************************************************************************)
LEMMA UnrefKeeps ==
    ASSUME NEW c, IsCache(c), NEW n, Counts(n), EntriesOK(c.entries, n),
           NEW m, Accounts(c, m), NEW h \in Nat, n[h] > 0,
           NEW d, d = Unref(c, h), NEW k, k = [n EXCEPT ![h] = n[h] - 1]
    PROVE  /\ IsCache(d) /\ EntriesOK(d.entries, k) /\ Accounts(d, m)
           /\ SameLists(d, c) /\ EntriesOf(d, c) /\ d.usage <= c.usage
<1>1. h \in DOMAIN c.entries /\ c.entries[h].refs = n[h]
  BY DEF EntriesOK
<1>2. CASE n[h] = 1
  <2>1. d = Free(c, h) /\ k = [n EXCEPT ![h] = 0]
    BY <1>1, <1>2 DEF Unref
  <2> QED BY <1>2, <2>1, FreeKeeps
<1>3. CASE n[h] # 1
  <2>1. d = [c EXCEPT !.entries[h].refs = @ - 1]
    BY <1>1, <1>3 DEF Unref
  <2>2. /\ d.entries = [c.entries EXCEPT ![h].refs = @ - 1]
        /\ IsCache(d) /\ SameLists(d, c) /\ d.usage = c.usage /\ d.allowed = c.allowed
    BY <2>1 DEF IsCache, SameLists
  <2>3. \A x \in DOMAIN c.entries : c.entries[x] \in [key : Files, refs : Nat, mmap : BOOLEAN]
                                    /\ c.entries[x].refs = n[x]
    BY DEF EntriesOK
  <2>4. /\ DOMAIN d.entries = DOMAIN c.entries
        /\ \A x \in DOMAIN c.entries : /\ d.entries[x] \in [key : Files, refs : Nat, mmap : BOOLEAN]
                                       /\ d.entries[x].key = c.entries[x].key
                                       /\ d.entries[x].mmap = c.entries[x].mmap
                                       /\ d.entries[x].refs = k[x]
    BY <1>1, <1>3, <2>2, <2>3 DEF EntriesOK, Counts
  <2>5. EntriesOK(d.entries, k)
    <3>1. DOMAIN c.entries = {x \in Nat : k[x] > 0} /\ IsFiniteSet(DOMAIN c.entries)
      BY <1>3 DEF EntriesOK, Counts
    <3>2. d.entries = [x \in DOMAIN d.entries |-> d.entries[x]]
      BY <2>2
    <3> QED BY <2>4, <3>1, <3>2 DEF EntriesOK
  <2>6. Usage(d) = Usage(c)
    <3>1. KeysKept(d, c)
      BY <2>4 DEF KeysKept
    <3> QED BY <2>4, <2>5, <3>1, UsageSame
  <2>7. Mapped(d) = Mapped(c)
    BY <2>4 DEF Mapped
  <2>8. c.usage \in Nat
    BY UsageIsNatural DEF Accounts
  <2> QED BY <2>2, <2>4, <2>5, <2>6, <2>7, <2>8 DEF Accounts, EntriesOf
<1> QED BY <1>2, <1>3

-----------------------------------------------------------------------------
(* The hash table                                                          *)

(***************************************************************************)
(* The hash table t with elems handles has the handles of L, each in the   *)
(* chain of its key, and no two with the same key.                         *)
(***************************************************************************)
ChainsOK(t, elems, e, L) ==
    /\ L \subseteq DOMAIN e /\ IsFiniteSet(L)
    /\ \A g, h \in L : e[g].key = e[h].key => g = h
    /\ t \in Seq(SUBSET Nat) /\ Len(t) > 0
    /\ \A b \in 1 .. Len(t) : t[b] = {h \in L : Bucket(t, e[h].key) = b}
    /\ elems = Cardinality(L)

LEMMA BucketInTable ==
    ASSUME NEW t \in Seq(SUBSET Nat), Len(t) > 0, NEW f \in Files
    PROVE  Bucket(t, f) \in 1 .. Len(t)
<1>1. Hash[f] \in Nat /\ Len(t) \in Nat \ {0}
  BY CacheAssumption
<1> QED BY <1>1 DEF Bucket

(***************************************************************************)
(* Lookup finds the listed handle with the key.                            *)
(***************************************************************************)
LEMMA LookupFinds ==
    ASSUME NEW c, NEW L, ChainsOK(c.table, c.elems, c.entries, L), NEW f \in Files
    PROVE  TableLookup(c, f) = {h \in L : c.entries[h].key = f}
<1>1. Bucket(c.table, f) \in 1 .. Len(c.table)
  BY BucketInTable DEF ChainsOK
<1>2. c.table[Bucket(c.table, f)] = {h \in L : Bucket(c.table, c.entries[h].key) = Bucket(c.table, f)}
  BY <1>1 DEF ChainsOK
<1> QED BY <1>2 DEF TableLookup

(* Only the hash table differs. *)
SameButTable(d, c) ==
    /\ d.entries = c.entries /\ d.lru = c.lru
    /\ d.usage = c.usage /\ d.allowed = c.allowed

LEMMA AccountsSame ==
    ASSUME NEW c, NEW m, Accounts(c, m), NEW d, d.entries = c.entries,
           d.usage = c.usage, d.allowed = c.allowed
    PROVE  Accounts(d, m)
BY DEF Accounts, Usage, Mapped

LEMMA RemoveKeeps ==
    ASSUME NEW c, IsCache(c), NEW n, EntriesOK(c.entries, n),
           NEW L, ChainsOK(c.table, c.elems, c.entries, L),
           NEW f \in Files, NEW d, d = TableRemove(c, f)
    PROVE  /\ IsCache(d) /\ SameButTable(d, c)
           /\ ChainsOK(d.table, d.elems, c.entries, L \ TableLookup(c, f))
<1> DEFINE old == TableLookup(c, f)
           b == Bucket(c.table, f)
<1>1. old = {h \in L : c.entries[h].key = f}
  BY LookupFinds
<1>2. CASE old # {}
  <2>1. d = [c EXCEPT !.table[b] = @ \ old, !.elems = @ - 1]
    BY <1>2 DEF TableRemove
  <2>2. /\ d.table = [c.table EXCEPT ![b] = @ \ old] /\ d.elems = c.elems - 1
        /\ IsCache(d) /\ SameButTable(d, c)
    BY <2>1 DEF IsCache, SameButTable
  <2>3. PICK h \in L : old = {h}
    BY <1>1, <1>2 DEF ChainsOK
  <2>4. b \in 1 .. Len(c.table)
    BY BucketInTable DEF ChainsOK
  <2>5. /\ c.table \in Seq(SUBSET Nat) /\ Len(c.table) > 0
        /\ \A i \in 1 .. Len(c.table) :
              c.table[i] = {x \in L : Bucket(c.table, c.entries[x].key) = i}
    BY DEF ChainsOK
  <2>6. d.table \in Seq(SUBSET Nat) /\ Len(d.table) = Len(c.table)
    BY <2>2, <2>4, <2>5
  <2>7. ASSUME NEW g PROVE Bucket(d.table, g) = Bucket(c.table, g)
    BY <2>6 DEF Bucket
  <2>8. ASSUME NEW i \in 1 .. Len(d.table)
        PROVE  d.table[i] = {x \in L \ old : Bucket(d.table, c.entries[x].key) = i}
    <3>1. {x \in L \ old : Bucket(d.table, c.entries[x].key) = i}
            = {x \in L : Bucket(c.table, c.entries[x].key) = i} \ old
      BY <2>7
    <3>2. CASE i = b
      <4>1. d.table[i] = c.table[i] \ old
        BY <2>2, <2>4, <2>5, <3>2
      <4> QED BY <2>5, <2>6, <3>1, <4>1
    <3>3. CASE i # b
      <4>1. d.table[i] = c.table[i]
        BY <2>2, <2>5, <2>6, <3>3
      <4>2. Bucket(c.table, c.entries[h].key) = b
        BY <1>1, <2>3
      <4>3. h \notin c.table[i]
        BY <2>5, <2>6, <3>3, <4>2
      <4> QED BY <2>3, <2>5, <2>6, <3>1, <4>1, <4>3
    <3> QED BY <3>2, <3>3
  <2>9. IsFiniteSet(L \ old) /\ Cardinality(L \ old) = Cardinality(L) - 1
    BY <2>3, FS_RemoveElement DEF ChainsOK
  <2>10. d.elems = Cardinality(L \ old)
    BY <2>2, <2>9 DEF ChainsOK
  <2>11. /\ L \ old \subseteq DOMAIN c.entries
         /\ \A g, x \in L \ old : c.entries[g].key = c.entries[x].key => g = x
    BY DEF ChainsOK
  <2> HIDE DEF old
  <2>12. ChainsOK(d.table, d.elems, c.entries, L \ old)
    BY <2>5, <2>6, <2>8, <2>9, <2>10, <2>11 DEF ChainsOK
  <2> QED BY <2>2, <2>12 DEF old
<1> HIDE DEF old
<1>3. CASE old = {}
  <2>1. d = c
    BY <1>3 DEF TableRemove, old
  <2>2. L \ old = L
    BY <1>3
  <2> QED BY <2>1, <2>2 DEF SameButTable, old
<1> QED BY <1>2, <1>3 DEF old

(***************************************************************************)
(* Resize doubles the number of chains until it is enough.                 *)
(***************************************************************************)
LEMMA LengthIsPositive ==
    ASSUME NEW elems \in Nat
    PROVE  NewLength(elems) \in Nat \ {0}
<1> DEFINE step(f) == [n \in 0 .. elems |->
                         IF n = 0 THEN MinBuckets
                         ELSE IF f[n - 1] < elems THEN 2 * f[n - 1] ELSE f[n - 1]]
           length == CHOOSE f : f = step(f)
           P == Nat \ {0}
<1>1. NewLength(elems) = length[elems]
  BY DEF NewLength
<1>2. \E f : f = step(f)
  <2>1. PICK round : round = [n \in 1 .. elems |-> [k \in P |-> IF k < elems THEN 2 * k ELSE k]]
    OBVIOUS
  <2>2. round \in [1 .. elems -> [P -> P]]
    BY <2>1
  <2>3. MinBuckets \in P
    BY CacheAssumption
  <2>4. PICK f : IsRun(f, elems, P, MinBuckets, round)
    <3> HIDE DEF P
    <3> QED BY <2>2, <2>3, LoopRuns
  <2>5. ASSUME NEW i \in 1 .. elems
        PROVE  f[i] = IF f[i - 1] < elems THEN 2 * f[i - 1] ELSE f[i - 1]
    <3>1. f[i - 1] \in P
      BY <2>4 DEF IsRun
    <3> QED BY <2>1, <2>4, <3>1 DEF IsRun
  <2>6. f = step(f)
    BY <2>4, <2>5 DEF IsRun
  <2> QED BY <2>6
<1>3. length = step(length)
  <2> HIDE DEF step
  <2> QED BY <1>2
<1>4. /\ length[0] = MinBuckets
      /\ \A i \in 1 .. elems :
            length[i] = IF length[i - 1] < elems THEN 2 * length[i - 1] ELSE length[i - 1]
  <2> HIDE DEF length
  <2>1. \A i \in 0 .. elems : length[i] = step(length)[i]
    BY <1>3
  <2> QED BY <2>1
<1>5. \A i \in 0 .. elems : i \in {x \in 0 .. elems : length[x] \in P}
  <2> HIDE DEF length
  <2> DEFINE T == {x \in 0 .. elems : length[x] \in P}
  <2>1. 0 \in T
    BY <1>4, CacheAssumption
  <2>2. ASSUME NEW i \in 1 .. elems, i - 1 \in T PROVE i \in T
    BY <1>4, <2>2
  <2> HIDE DEF T
  <2>3. \A i \in 0 .. elems : i \in T
    BY <2>1, <2>2, Upwards
  <2> QED BY <2>3 DEF T
<1> HIDE DEF length
<1> QED BY <1>1, <1>5

LEMMA ResizeKeeps ==
    ASSUME NEW c, IsCache(c), NEW n, EntriesOK(c.entries, n),
           NEW L, ChainsOK(c.table, c.elems, c.entries, L), NEW d, d = Resize(c)
    PROVE  /\ IsCache(d) /\ SameButTable(d, c)
           /\ ChainsOK(d.table, d.elems, c.entries, L)
<1> DEFINE N == NewLength(c.elems)
           handles == UNION Range(c.table)
           new == [b \in 1 .. N |-> {h \in handles : 1 + (Hash[c.entries[h].key] % N) = b}]
<1>1. d = [c EXCEPT !.table = new]
  BY DEF Resize
<1>2. N \in Nat \ {0}
  <2>1. c.elems \in Nat
    BY FS_CardinalityType DEF ChainsOK
  <2> QED BY <2>1, LengthIsPositive
<1>3. \A h \in L : c.entries[h].key \in Files /\ h \in Nat
  BY DEF ChainsOK, EntriesOK
<1>4. handles = L
  <2>1. DOMAIN c.table = 1 .. Len(c.table)
    BY DEF ChainsOK
  <2>2. ASSUME NEW h \in L PROVE h \in handles
    <3>1. PICK b \in 1 .. Len(c.table) : b = Bucket(c.table, c.entries[h].key)
      BY <1>3, BucketInTable DEF ChainsOK
    <3>2. h \in c.table[b]
      BY <3>1 DEF ChainsOK
    <3> QED BY <2>1, <3>2 DEF Range
  <2>3. ASSUME NEW h \in handles PROVE h \in L
    <3>1. PICK b \in 1 .. Len(c.table) : h \in c.table[b]
      BY <2>1, <2>3 DEF Range
    <3> QED BY <3>1 DEF ChainsOK
  <2> QED BY <2>2, <2>3
<1> HIDE DEF N, handles
<1>5. new \in Seq(SUBSET Nat) /\ Len(new) = N
  <2>1. \A b \in 1 .. N : {h \in handles : 1 + (Hash[c.entries[h].key] % N) = b} \in SUBSET Nat
    BY <1>3, <1>4
  <2> QED BY <1>2, <2>1
<1>6. ASSUME NEW b \in 1 .. N
      PROVE  new[b] = {h \in L : Bucket(new, c.entries[h].key) = b}
  <2>1. new[b] = {h \in L : 1 + (Hash[c.entries[h].key] % N) = b}
    BY <1>4
  <2> HIDE DEF new
  <2> QED BY <1>5, <2>1 DEF Bucket
<1> HIDE DEF new
<1>7. d.table = new /\ d.elems = c.elems /\ IsCache(d) /\ SameButTable(d, c)
  BY <1>1 DEF IsCache, SameButTable
<1>8. ChainsOK(new, c.elems, c.entries, L)
  BY <1>2, <1>5, <1>6 DEF ChainsOK
<1> QED BY <1>7, <1>8

LEMMA InsertKeeps ==
    ASSUME NEW c, IsCache(c), NEW n, EntriesOK(c.entries, n),
           NEW L, ChainsOK(c.table, c.elems, c.entries, L),
           NEW h \in DOMAIN c.entries \ L, NEW old, old = TableLookup(c, c.entries[h].key),
           NEW d, d = TableInsert(c, h)
    PROVE  /\ IsCache(d) /\ SameButTable(d, c)
           /\ ChainsOK(d.table, d.elems, c.entries, (L \ old) \cup {h})
<1> DEFINE f == c.entries[h].key
           b == Bucket(c.table, f)
           put == [c EXCEPT !.table[b] = (@ \ old) \cup {h},
                            !.elems = IF old = {} THEN @ + 1 ELSE @]
           K == (L \ old) \cup {h}
<1>1. f \in Files /\ h \in Nat
  BY DEF EntriesOK
<1>2. old = {x \in L : c.entries[x].key = f}
  BY <1>1, LookupFinds
<1>3. /\ L \subseteq DOMAIN c.entries /\ IsFiniteSet(L) /\ c.elems = Cardinality(L)
      /\ \A g, x \in L : c.entries[g].key = c.entries[x].key => g = x
      /\ c.table \in Seq(SUBSET Nat) /\ Len(c.table) > 0
      /\ \A i \in 1 .. Len(c.table) :
            c.table[i] = {x \in L : Bucket(c.table, c.entries[x].key) = i}
  BY DEF ChainsOK
<1>4. b \in 1 .. Len(c.table)
  BY <1>1, <1>3, BucketInTable
<1>5. /\ put.table = [c.table EXCEPT ![b] = (@ \ old) \cup {h}]
      /\ put.elems = IF old = {} THEN c.elems + 1 ELSE c.elems
      /\ IsCache(put) /\ SameButTable(put, c)
  <2>1. PICK q : q = [c.table EXCEPT ![b] = (@ \ old) \cup {h}]
    OBVIOUS
  <2>2. PICK k : k = IF old = {} THEN c.elems + 1 ELSE c.elems
    OBVIOUS
  <2>3. put = [c EXCEPT !.table = q, !.elems = k]
    BY <2>1, <2>2 DEF IsCache
  <2> HIDE DEF put
  <2>4. put = [entries |-> c.entries, table |-> q, elems |-> k,
               lru |-> c.lru, usage |-> c.usage, allowed |-> c.allowed]
    BY <2>3 DEF IsCache
  <2> QED BY <2>1, <2>2, <2>4 DEF IsCache, SameButTable
<1> DEFINE t == put.table
<1>6. t \in Seq(SUBSET Nat) /\ Len(t) = Len(c.table)
  <2>1. (c.table[b] \ old) \cup {h} \in SUBSET Nat
    BY <1>1, <1>3, <1>4
  <2> HIDE DEF put
  <2> QED BY <1>3, <1>4, <1>5, <2>1
<1> HIDE DEF put
<1>7. ASSUME NEW g PROVE Bucket(t, g) = Bucket(c.table, g)
  BY <1>6 DEF Bucket
<1>8. ASSUME NEW i \in 1 .. Len(t) PROVE t[i] = {x \in K : Bucket(t, c.entries[x].key) = i}
  <2>1. {x \in K : Bucket(t, c.entries[x].key) = i} = {x \in K : Bucket(c.table, c.entries[x].key) = i}
    BY <1>7
  <2>2. c.table[i] = {x \in L : Bucket(c.table, c.entries[x].key) = i}
    BY <1>3, <1>6
  <2>3. CASE i = b
    <3>1. t[i] = (c.table[i] \ old) \cup {h}
      BY <1>3, <1>4, <1>5, <2>3
    <3> QED BY <2>1, <2>2, <2>3, <3>1
  <2>4. CASE i # b
    <3>1. t[i] = c.table[i]
      BY <1>3, <1>5, <1>6, <2>4
    <3>2. ASSUME NEW x \in old PROVE x \notin c.table[i]
      <4>1. Bucket(c.table, c.entries[x].key) = b
        BY <1>2
      <4> QED BY <2>2, <2>4, <4>1
    <3>3. c.table[i] = c.table[i] \ old
      BY <3>2
    <3> QED BY <2>1, <2>2, <2>4, <3>1, <3>3
  <2> QED BY <2>3, <2>4
<1>9. IsFiniteSet(K) /\ put.elems = Cardinality(K)
  <2>1. IsFiniteSet(L \ old) /\ h \notin L \ old
    BY <1>3, FS_Subset
  <2>2. IsFiniteSet(K) /\ Cardinality(K) = Cardinality(L \ old) + 1
    BY <2>1, FS_AddElement
  <2>3. CASE old = {}
    <3>1. L \ old = L
      BY <2>3
    <3> QED BY <1>3, <1>5, <2>2, <2>3, <3>1
  <2>4. CASE old # {}
    <3>1. PICK g \in L : old = {g}
      BY <1>2, <1>3, <2>4
    <3>2. Cardinality(L \ old) = Cardinality(L) - 1 /\ Cardinality(L) \in Nat
      BY <1>3, <3>1, FS_RemoveElement, FS_CardinalityType
    <3> QED BY <1>3, <1>5, <2>2, <2>4, <3>2
  <2> QED BY <2>3, <2>4
<1>10. /\ K \subseteq DOMAIN c.entries
       /\ \A g, x \in K : c.entries[g].key = c.entries[x].key => g = x
  BY <1>2, <1>3
<1> HIDE DEF K
<1>11. ChainsOK(t, put.elems, c.entries, K)
  BY <1>3, <1>6, <1>8, <1>9, <1>10 DEF ChainsOK
<1>12. d = IF put.elems > Len(put.table) THEN Resize(put) ELSE put
  BY DEF TableInsert, put
<1>13. EntriesOK(put.entries, n) /\ ChainsOK(put.table, put.elems, put.entries, K)
  BY <1>5, <1>11 DEF SameButTable
<1>14. CASE put.elems > Len(put.table)
  <2>1. d = Resize(put)
    BY <1>12, <1>14
  <2>2. IsCache(d) /\ SameButTable(d, put) /\ ChainsOK(d.table, d.elems, put.entries, K)
    BY <1>5, <1>13, <2>1, ResizeKeeps
  <2> QED BY <1>5, <2>2 DEF SameButTable, K
<1>15. CASE ~ (put.elems > Len(put.table))
  <2>1. d = put
    BY <1>12, <1>15
  <2> QED BY <1>5, <1>11, <2>1 DEF K
<1> QED BY <1>14, <1>15

-----------------------------------------------------------------------------
(* The cache                                                               *)

(***************************************************************************)
(* The references of every handle: held[h] readers, and the cache when the *)
(* handle is in L.                                                         *)
(***************************************************************************)
Refs(held, L) == [h \in Nat |-> held[h] + (IF h \in L THEN 1 ELSE 0)]

(* The handles of a list, each once. *)
IsList(s) == s \in Seq(Nat) /\ IsInjective(s)

(***************************************************************************)
(* What every operation of the cache keeps: the references are those of    *)
(* held and of the list, and the hash table has what the list has.         *)
(***************************************************************************)
CacheOK(c, held, m) ==
    /\ IsCache(c)
    /\ IsList(c.lru)
    /\ EntriesOK(c.entries, Refs(held, Range(c.lru)))
    /\ Accounts(c, m)
    /\ ChainsOK(c.table, c.elems, c.entries, Range(c.lru))

Trimmed(c) == c.usage > Capacity => c.lru = <<>>

LEMMA RefsType ==
    ASSUME NEW held, Counts(held), NEW L
    PROVE  /\ Counts(Refs(held, L))
           /\ \A h \in Nat : /\ held[h] \in Nat /\ Refs(held, L)[h] \in Nat
                             /\ h \in L => Refs(held, L)[h] = held[h] + 1
                             /\ h \notin L => Refs(held, L)[h] = held[h]
<1>1. held \in [Nat -> Nat]
  BY DEF Counts
<1>2. Refs(held, L) \in [Nat -> Nat]
  BY <1>1 DEF Refs
<1> QED BY <1>1, <1>2 DEF Counts, Refs

LEMMA RefsExcept ==
    ASSUME NEW held, Counts(held), NEW L, NEW h \in Nat \ L
    PROVE  [Refs(held, L \cup {h}) EXCEPT ![h] = Refs(held, L \cup {h})[h] - 1] = Refs(held, L)
<1>1. held \in [Nat -> Nat]
  BY DEF Counts
<1>2. PICK n : n = Refs(held, L \cup {h})
  OBVIOUS
<1>3. PICK k : k = [n EXCEPT ![h] = n[h] - 1]
  OBVIOUS
<1>4. n \in [Nat -> Nat] /\ \A x \in Nat : n[x] = held[x] + (IF x \in L \cup {h} THEN 1 ELSE 0)
  BY <1>1, <1>2 DEF Refs
<1>5. \A x \in Nat : k[x] = held[x] + (IF x \in L THEN 1 ELSE 0)
  BY <1>1, <1>3, <1>4
<1>6. k = [x \in Nat |-> k[x]]
  BY <1>3, <1>4
<1>7. k = Refs(held, L)
  BY <1>5, <1>6 DEF Refs
<1> QED BY <1>2, <1>3, <1>7

LEMMA ChainsSame ==
    ASSUME NEW t, NEW elems, NEW e, NEW L, ChainsOK(t, elems, e, L),
           NEW d, L \subseteq DOMAIN d, \A h \in L : d[h].key = e[h].key
    PROVE  ChainsOK(t, elems, d, L)
<1>1. \A b : {h \in L : Bucket(t, d[h].key) = b} = {h \in L : Bucket(t, e[h].key) = b}
  OBVIOUS
<1> QED BY <1>1 DEF ChainsOK

(***************************************************************************)
(* A handle that has left the list and the table loses the cache's         *)
(* reference.                                                              *)
(***************************************************************************)
LEMMA DropKeeps ==
    ASSUME NEW held, Counts(held), NEW m, NEW c, IsCache(c),
           IsList(c.lru), NEW h \in Nat \ Range(c.lru),
           EntriesOK(c.entries, Refs(held, Range(c.lru) \cup {h})), Accounts(c, m),
           ChainsOK(c.table, c.elems, c.entries, Range(c.lru)), NEW d, d = Unref(c, h)
    PROVE  /\ CacheOK(d, held, m) /\ d.lru = c.lru /\ d.usage <= c.usage
           /\ EntriesOf(d, c)
<1> DEFINE L == Range(c.lru)
           n == Refs(held, L \cup {h})
<1>0. PICK k : k = [n EXCEPT ![h] = n[h] - 1]
  OBVIOUS
<1>1. Counts(n) /\ n[h] = held[h] + 1 /\ held[h] \in Nat /\ k = Refs(held, L)
  <2>1. h \in L \cup {h} /\ h \in Nat
    OBVIOUS
  <2>2. Counts(n) /\ n[h] = held[h] + 1 /\ held[h] \in Nat
    BY <2>1, RefsType
  <2>3. k = Refs(held, L)
    BY <1>0, RefsExcept
  <2> QED BY <2>2, <2>3
<1> HIDE DEF n
<1>2. n[h] > 0
  BY <1>1
<1>3. EntriesOK(c.entries, n)
  BY DEF n
<1>4. /\ IsCache(d) /\ EntriesOK(d.entries, Refs(held, L)) /\ Accounts(d, m)
      /\ SameLists(d, c) /\ EntriesOf(d, c) /\ d.usage <= c.usage
  BY <1>0, <1>1, <1>2, <1>3, UnrefKeeps
<1>5. L \subseteq DOMAIN d.entries
  <2>1. L \subseteq Nat
    BY ListFinite DEF IsList
  <2>2. ASSUME NEW x \in L PROVE Refs(held, L)[x] > 0
    <3>1. Refs(held, L)[x] = held[x] + 1 /\ held[x] \in Nat
      BY <2>1, RefsType
    <3> QED BY <3>1
  <2> QED BY <1>4, <2>1, <2>2 DEF EntriesOK
<1>6. ChainsOK(c.table, c.elems, d.entries, L)
  <2>1. \A x \in L : d.entries[x].key = c.entries[x].key
    BY <1>4, <1>5 DEF EntriesOf
  <2> QED BY <1>5, <2>1, ChainsSame
<1> QED BY <1>4, <1>6 DEF CacheOK, SameLists

LEMMA UnlistFields ==
    ASSUME NEW c, IsCache(c), IsList(c.lru),
           NEW h \in Range(c.lru), NEW d, d = LRURemove(c, h)
    PROVE  /\ IsCache(d) /\ d.entries = c.entries /\ d.table = c.table /\ d.elems = c.elems
           /\ d.usage = c.usage /\ d.allowed = c.allowed
           /\ IsList(d.lru)
           /\ Range(d.lru) = Range(c.lru) \ {h} /\ Len(d.lru) = Len(c.lru) - 1
<1>1. PICK t : t = RemoveAt(c.lru, CHOOSE i \in DOMAIN c.lru : c.lru[i] = h)
  OBVIOUS
<1>2. d = [c EXCEPT !.lru = t]
  BY <1>1 DEF LRURemove, IsCache
<1>3. /\ t \in Seq(Nat) /\ IsInjective(t)
      /\ Range(t) = Range(c.lru) \ {h} /\ Len(t) = Len(c.lru) - 1
  BY <1>1, ListWithout DEF IsList
<1> QED BY <1>2, <1>3 DEF IsCache, IsList

LEMMA EvictOneKeeps ==
    ASSUME NEW held, Counts(held), NEW m, NEW c, CacheOK(c, held, m),
           NEW d, d = EvictOne(c)
    PROVE  /\ CacheOK(d, held, m) /\ d.usage <= c.usage /\ EntriesOf(d, c)
           /\ Trimmed(c) => d = c
           /\ ~ Trimmed(c) => Len(d.lru) = Len(c.lru) - 1
<1>0. c.usage \in Nat
  BY UsageIsNatural DEF CacheOK, Accounts
<1>1. CASE Trimmed(c)
  <2>1. d = c
    BY <1>0, <1>1, CacheAssumption DEF EvictOne, Trimmed
  <2> QED BY <1>0, <1>1, <2>1 DEF EntriesOf
<1>2. CASE ~ Trimmed(c)
  <2> DEFINE h == Head(c.lru)
             f == c.entries[h].key
             L == Range(c.lru)
  <2>1. c.usage > Capacity /\ c.lru # <<>> /\ IsList(c.lru)
    BY <1>2 DEF Trimmed, CacheOK
  <2>2. h \in L /\ h \in Nat
    <3>1. c.lru \in Seq(Nat)
      BY <2>1 DEF IsList
    <3>2. h = c.lru[1] /\ 1 \in 1 .. Len(c.lru)
      BY <2>1, <3>1
    <3>3. c.lru[1] \in Range(c.lru)
      BY <3>1, <3>2, Distinct
    <3> QED BY <3>1, <3>2, <3>3
  <2>3. PICK e : e = LRURemove(c, h)
    OBVIOUS
  <2>4. PICK g : g = TableRemove(e, f)
    OBVIOUS
  <2>5. d = Unref(g, h)
    <3>1. ~ (c.usage <= Capacity \/ c.lru = <<>>)
      BY <1>0, <2>1, CacheAssumption
    <3>2. d = Unref(TableRemove(LRURemove(c, h), f), h)
      BY <3>1 DEF EvictOne
    <3> QED BY <2>3, <2>4, <3>2
  <2> HIDE DEF h, f, L
  <2>6. /\ IsCache(e) /\ e.entries = c.entries /\ e.table = c.table /\ e.elems = c.elems
        /\ e.usage = c.usage /\ e.allowed = c.allowed
        /\ IsList(e.lru)
        /\ Range(e.lru) = L \ {h} /\ Len(e.lru) = Len(c.lru) - 1
    <3>1. IsCache(c) /\ h \in Range(c.lru)
      BY <2>2 DEF CacheOK, L
    <3> QED BY <2>1, <2>3, <3>1, UnlistFields DEF L
  <2>7. ChainsOK(e.table, e.elems, e.entries, L)
    BY <2>6 DEF CacheOK, L
  <2>8. f \in Files
    <3>1. h \in DOMAIN c.entries
      BY <2>2 DEF CacheOK, ChainsOK, L
    <3> QED BY <3>1 DEF CacheOK, EntriesOK, f
  <2>9. EntriesOK(e.entries, Refs(held, L))
    BY <2>6 DEF CacheOK, L
  <2>10. TableLookup(e, f) = {h}
    <3>1. TableLookup(e, f) = {x \in L : e.entries[x].key = f}
      BY <2>7, <2>8, LookupFinds
    <3>2. \A x \in L : e.entries[x].key = f => x = h
      BY <2>2, <2>6, <2>7 DEF ChainsOK, f
    <3> QED BY <2>2, <2>6, <3>1, <3>2 DEF f
  <2>11. /\ IsCache(g) /\ SameButTable(g, e)
         /\ ChainsOK(g.table, g.elems, e.entries, L \ {h})
    BY <2>4, <2>6, <2>7, <2>8, <2>9, <2>10, RemoveKeeps
  <2>12. Accounts(g, m)
    <3>1. g.entries = c.entries /\ g.usage = c.usage /\ g.allowed = c.allowed
      BY <2>6, <2>11 DEF SameButTable
    <3>2. Accounts(c, m)
      BY DEF CacheOK
    <3> QED BY <3>1, <3>2, AccountsSame
  <2>13. /\ IsList(g.lru) /\ Range(g.lru) = L \ {h}
         /\ h \notin Range(g.lru) /\ Range(g.lru) \cup {h} = L
         /\ g.entries = e.entries /\ g.lru = e.lru /\ g.usage = c.usage
    BY <2>2, <2>6, <2>11 DEF SameButTable
  <2>14. /\ EntriesOK(g.entries, Refs(held, Range(g.lru) \cup {h}))
         /\ ChainsOK(g.table, g.elems, g.entries, Range(g.lru))
    BY <2>9, <2>11, <2>13
  <2>15. CacheOK(d, held, m) /\ d.lru = g.lru /\ d.usage <= g.usage /\ EntriesOf(d, g)
    <3>1. h \in Nat \ Range(g.lru)
      BY <2>2, <2>13
    <3> QED BY <2>5, <2>11, <2>12, <2>13, <2>14, <3>1, DropKeeps
  <2>16. EntriesOf(d, c)
    BY <2>6, <2>13, <2>15 DEF EntriesOf
  <2> QED BY <1>2, <2>6, <2>13, <2>15, <2>16
<1> QED BY <1>1, <1>2

(***************************************************************************)
(* The loop of Insert ends below the capacity or with an empty list.       *)
(***************************************************************************)
LEMMA EvictionRuns ==
    ASSUME NEW c, NEW N \in Nat
    PROVE  \E f : f = [n \in 0 .. N |-> IF n = 0 THEN c ELSE EvictOne(f[n - 1])]
<1> DEFINE Run(f, k) == /\ DOMAIN f = 0 .. k /\ f = [n \in DOMAIN f |-> f[n]]
                        /\ \A n \in 0 .. k : f[n] = IF n = 0 THEN c ELSE EvictOne(f[n - 1])
           T == {k \in 0 .. N : \E f : Run(f, k)}
<1>1. 0 \in T
  <2>1. PICK f : f = [n \in 0 .. 0 |-> c]
    OBVIOUS
  <2>2. Run(f, 0)
    BY <2>1
  <2>3. 0 \in 0 .. N
    OBVIOUS
  <2> HIDE DEF Run
  <2> QED BY <2>2, <2>3
<1>2. ASSUME NEW k \in 1 .. N, k - 1 \in T PROVE k \in T
  <2>1. PICK f : Run(f, k - 1)
    BY <1>2
  <2>2. PICK g : g = [n \in 0 .. k |-> IF n = k THEN EvictOne(f[k - 1]) ELSE f[n]]
    OBVIOUS
  <2>3. \A n \in 0 .. k - 1 : n \in 0 .. k /\ n # k /\ g[n] = f[n]
    BY <2>2
  <2>4. ASSUME NEW n \in 0 .. k PROVE g[n] = IF n = 0 THEN c ELSE EvictOne(g[n - 1])
    <3>1. CASE n = k
      <4>1. g[n] = EvictOne(f[k - 1]) /\ g[k - 1] = f[k - 1] /\ n # 0
        BY <2>2, <2>3, <3>1
      <4> QED BY <3>1, <4>1
    <3>2. CASE n # k
      <4>1. n \in 0 .. k - 1
        BY <3>2
      <4>2. f[n] = IF n = 0 THEN c ELSE EvictOne(f[n - 1])
        BY <2>1, <4>1
      <4>3. n # 0 => n - 1 \in 0 .. k - 1
        BY <4>1
      <4> QED BY <2>3, <4>1, <4>2, <4>3
    <3> QED BY <3>1, <3>2
  <2>5. DOMAIN g = 0 .. k /\ g = [n \in DOMAIN g |-> g[n]]
    BY <2>2
  <2>6. Run(g, k)
    BY <2>4, <2>5
  <2>7. k \in 0 .. N
    OBVIOUS
  <2> HIDE DEF Run
  <2> QED BY <2>6, <2>7
<1>3. N \in T
  <2>1. \A k \in 0 .. N : k \in T
    <3> HIDE DEF T
    <3> QED BY <1>1, <1>2, Upwards
  <2> QED BY <2>1
<1>4. PICK f : Run(f, N)
  BY <1>3
<1>5. f = [n \in 0 .. N |-> IF n = 0 THEN c ELSE EvictOne(f[n - 1])]
  BY <1>4
<1> QED BY <1>5

LEMMA EvictOldestKeeps ==
    ASSUME NEW held, Counts(held), NEW m, NEW c, CacheOK(c, held, m),
           NEW d, d = EvictOldest(c)
    PROVE  CacheOK(d, held, m) /\ Trimmed(d) /\ EntriesOf(d, c)
<1> DEFINE N == Len(c.lru)
           step(f) == [n \in 0 .. N |-> IF n = 0 THEN c ELSE EvictOne(f[n - 1])]
           after == CHOOSE f : f = step(f)
<1>1. c.lru \in Seq(Nat) /\ N \in Nat
  BY DEF CacheOK, IsList
<1>2. d = after[N]
  BY DEF EvictOldest
<1>3. after = step(after)
  <2>1. \E f : f = step(f)
    BY <1>1, EvictionRuns
  <2> HIDE DEF step
  <2> QED BY <2>1
<1>4. after[0] = c /\ \A i \in 1 .. N : after[i] = EvictOne(after[i - 1])
  <2> HIDE DEF after, N
  <2>1. \A i \in 0 .. N : after[i] = step(after)[i]
    BY <1>3
  <2> QED BY <1>1, <2>1
<1> HIDE DEF after
<1> DEFINE T == {i \in 0 .. N : /\ CacheOK(after[i], held, m) /\ EntriesOf(after[i], c)
                                /\ Trimmed(after[i]) \/ Len(after[i].lru) = N - i}
<1>5. 0 \in T
  BY <1>1, <1>4 DEF EntriesOf
<1>6. ASSUME NEW i \in 1 .. N, i - 1 \in T PROVE i \in T
  <2>1. PICK e : e = after[i - 1]
    OBVIOUS
  <2>2. after[i] = EvictOne(e) /\ CacheOK(e, held, m) /\ EntriesOf(e, c)
        /\ (Trimmed(e) \/ Len(e.lru) = N - (i - 1))
    BY <1>4, <1>6, <2>1
  <2>3. PICK g : g = after[i]
    OBVIOUS
  <2>4. /\ CacheOK(g, held, m) /\ EntriesOf(g, e)
        /\ Trimmed(e) => g = e
        /\ ~ Trimmed(e) => Len(g.lru) = Len(e.lru) - 1
    BY <2>2, <2>3, EvictOneKeeps
  <2>5. Trimmed(g) \/ Len(g.lru) = N - i
    <3>1. CASE Trimmed(e)
      BY <2>4, <3>1
    <3>2. CASE ~ Trimmed(e)
      <4>1. Len(g.lru) = Len(e.lru) - 1 /\ Len(e.lru) = N - (i - 1)
        BY <2>2, <2>4, <3>2
      <4>2. N \in Nat /\ i \in Nat
        BY <1>1
      <4> HIDE DEF N
      <4> QED BY <4>1, <4>2
    <3> QED BY <3>1, <3>2
  <2>6. EntriesOf(g, c)
    BY <2>2, <2>4 DEF EntriesOf
  <2> QED BY <2>3, <2>4, <2>5, <2>6
<1>7. N \in T
  <2>1. \A i \in 0 .. N : i \in T
    <3> HIDE DEF T
    <3> QED BY <1>1, <1>5, <1>6, Upwards
  <2> QED BY <1>1, <2>1
<1>8. CacheOK(d, held, m) /\ EntriesOf(d, c) /\ (Trimmed(d) \/ Len(d.lru) = 0)
  BY <1>1, <1>2, <1>7
<1>9. Len(d.lru) = 0 => Trimmed(d)
  BY <1>8 DEF CacheOK, IsList, Trimmed
<1> QED BY <1>8, <1>9

(***************************************************************************)
(* The operations: what each does to the readers' references and slots.    *)
(***************************************************************************)
LEMMA LookupKeeps ==
    ASSUME NEW held, Counts(held), NEW m, NEW c, CacheOK(c, held, m), Trimmed(c),
           NEW f \in Files, NEW h \in TableLookup(c, f), NEW d, d = LookupHit(c, h)
    PROVE  /\ CacheOK(d, [held EXCEPT ![h] = held[h] + 1], m) /\ Trimmed(d)
           /\ h \in Nat /\ h \in DOMAIN d.entries /\ d.entries[h].key = f
           /\ EntriesOf(d, c) /\ DOMAIN d.entries = DOMAIN c.entries
<1> DEFINE L == Range(c.lru)
           n == Refs(held, L)
<1>1. PICK more : more = [held EXCEPT ![h] = held[h] + 1]
  OBVIOUS
<1>2. IsCache(c) /\ IsList(c.lru) /\ EntriesOK(c.entries, n) /\ Accounts(c, m)
      /\ ChainsOK(c.table, c.elems, c.entries, L)
  BY DEF CacheOK
<1>3. h \in L /\ c.entries[h].key = f
  BY <1>2, LookupFinds
<1>4. h \in DOMAIN c.entries /\ h \in Nat
  BY <1>2, <1>3 DEF ChainsOK, EntriesOK
<1>5. PICK e : e = [c EXCEPT !.entries[h].refs = @ + 1]
  OBVIOUS
<1>6. /\ IsCache(e) /\ e.lru = c.lru /\ e.table = c.table /\ e.elems = c.elems
      /\ e.usage = c.usage /\ e.allowed = c.allowed
      /\ e.entries = [c.entries EXCEPT ![h].refs = @ + 1]
  BY <1>2, <1>5 DEF IsCache
<1>7. PICK g : g = LRURemove(e, h)
  OBVIOUS
<1>8. /\ IsCache(g) /\ g.entries = e.entries /\ g.table = e.table /\ g.elems = e.elems
      /\ g.usage = e.usage /\ g.allowed = e.allowed
      /\ IsList(g.lru) /\ Range(g.lru) = L \ {h}
  BY <1>2, <1>3, <1>6, <1>7, UnlistFields
<1>9. d = LRUAppend(g, h)
  BY <1>5, <1>7 DEF LookupHit
<1>10. d = [g EXCEPT !.lru = Append(g.lru, h)]
  BY <1>8, <1>9 DEF LRUAppend, IsCache
<1>11. /\ IsCache(d) /\ d.entries = e.entries /\ d.table = c.table /\ d.elems = c.elems
       /\ d.usage = c.usage /\ d.allowed = c.allowed /\ d.lru = Append(g.lru, h)
  BY <1>6, <1>8, <1>10 DEF IsCache
<1>12. IsList(d.lru) /\ Range(d.lru) = L
  <2>1. h \in Nat \ Range(g.lru)
    BY <1>4, <1>8
  <2>2. IsList(d.lru) /\ Range(d.lru) = Range(g.lru) \cup {h}
    BY <1>8, <1>11, <2>1, ListWith DEF IsList
  <2> QED BY <1>3, <1>8, <2>2
<1>13. \A x \in Nat : Refs(more, L)[x] = IF x = h THEN n[x] + 1 ELSE n[x]
  <2>1. held \in [Nat -> Nat]
    BY DEF Counts
  <2> QED BY <1>1, <1>4, <2>1 DEF Refs
<1>14. Counts(n)
  BY RefsType
<1> HIDE DEF n
<1>15. \A x \in DOMAIN c.entries : c.entries[x] \in [key : Files, refs : Nat, mmap : BOOLEAN]
                                   /\ c.entries[x].refs = n[x] /\ x \in Nat
  BY <1>2 DEF EntriesOK
<1>16. /\ DOMAIN d.entries = DOMAIN c.entries
       /\ \A x \in DOMAIN c.entries : /\ d.entries[x] \in [key : Files, refs : Nat, mmap : BOOLEAN]
                                      /\ d.entries[x].key = c.entries[x].key
                                      /\ d.entries[x].mmap = c.entries[x].mmap
                                      /\ d.entries[x].refs = Refs(more, L)[x]
  <2>1. d.entries = [c.entries EXCEPT ![h].refs = @ + 1]
    BY <1>6, <1>11
  <2>2. DOMAIN d.entries = DOMAIN c.entries
    BY <2>1
  <2>3. ASSUME NEW x \in DOMAIN c.entries, x # h
        PROVE  d.entries[x] = c.entries[x] /\ Refs(more, L)[x] = n[x]
    BY <1>13, <1>15, <2>1, <2>3
  <2>4. d.entries[h] = [c.entries[h] EXCEPT !.refs = @ + 1]
    BY <1>4, <2>1
  <2>5. /\ d.entries[h] \in [key : Files, refs : Nat, mmap : BOOLEAN]
        /\ d.entries[h].key = c.entries[h].key
        /\ d.entries[h].mmap = c.entries[h].mmap
        /\ d.entries[h].refs = c.entries[h].refs + 1
    BY <1>4, <1>15, <2>4
  <2>6. Refs(more, L)[h] = n[h] + 1
    BY <1>4, <1>13
  <2> QED BY <1>4, <1>15, <2>2, <2>3, <2>5, <2>6
<1>17. EntriesOK(d.entries, Refs(more, L))
  <2>1. DOMAIN c.entries = {x \in Nat : n[x] > 0} /\ IsFiniteSet(DOMAIN c.entries)
    BY <1>2 DEF EntriesOK
  <2>2. \A x \in Nat : n[x] > 0 <=> Refs(more, L)[x] > 0
    <3>1. n[h] > 0
      BY <1>4, <2>1
    <3>2. \A x \in Nat : n[x] \in Nat
      BY <1>14 DEF Counts
    <3> QED BY <1>4, <1>13, <3>1, <3>2
  <2>3. d.entries = [x \in DOMAIN d.entries |-> d.entries[x]]
    BY <1>6, <1>11
  <2> QED BY <1>16, <2>1, <2>2, <2>3 DEF EntriesOK
<1>18. Accounts(d, m)
  <2>1. KeysKept(d, c)
    BY <1>16 DEF KeysKept
  <2>2. Usage(d) = Usage(c)
    BY <1>2, <1>16, <1>17, <2>1, UsageSame
  <2>3. Mapped(d) = Mapped(c)
    BY <1>16 DEF Mapped
  <2> QED BY <1>2, <1>11, <2>2, <2>3 DEF Accounts
<1>19. ChainsOK(d.table, d.elems, d.entries, L)
  <2>1. L \subseteq DOMAIN c.entries
    BY <1>2 DEF ChainsOK
  <2>2. L \subseteq DOMAIN d.entries /\ \A x \in L : d.entries[x].key = c.entries[x].key
    BY <1>16, <2>1
  <2> QED BY <1>2, <1>11, <2>2, ChainsSame
<1>20. Trimmed(d)
  <2>1. c.lru # <<>>
    <3>1. \E j \in 1 .. Len(c.lru) : c.lru[j] = h
      BY <1>2, <1>3, Distinct DEF IsList
    <3> QED BY <3>1
  <2> QED BY <1>11, <2>1 DEF Trimmed
<1>21. EntriesOf(d, c)
  BY <1>16 DEF EntriesOf
<1>22. CacheOK(d, more, m)
  BY <1>11, <1>12, <1>17, <1>18, <1>19 DEF CacheOK
<1> QED BY <1>1, <1>3, <1>4, <1>16, <1>20, <1>21, <1>22

LEMMA ReleaseKeeps ==
    ASSUME NEW held, Counts(held), NEW m, NEW c, CacheOK(c, held, m), Trimmed(c),
           NEW h \in Nat, held[h] > 0, NEW d, d = Unref(c, h)
    PROVE  /\ CacheOK(d, [held EXCEPT ![h] = held[h] - 1], m) /\ Trimmed(d)
           /\ EntriesOf(d, c)
<1> DEFINE L == Range(c.lru)
           n == Refs(held, L)
<1>1. PICK fewer : fewer = [held EXCEPT ![h] = held[h] - 1]
  OBVIOUS
<1>2. PICK k : k = [n EXCEPT ![h] = n[h] - 1]
  OBVIOUS
<1>3. IsCache(c) /\ IsList(c.lru) /\ EntriesOK(c.entries, n) /\ Accounts(c, m)
      /\ ChainsOK(c.table, c.elems, c.entries, L)
  BY DEF CacheOK
<1>4. Counts(n) /\ n[h] > 0
  <2>1. Counts(n)
    BY RefsType
  <2>2. held[h] \in Nat /\ (n[h] = held[h] \/ n[h] = held[h] + 1)
    BY RefsType
  <2> QED BY <2>1, <2>2
<1>5. k = Refs(fewer, L) /\ Counts(fewer)
  <2>1. held \in [Nat -> Nat] /\ n \in [Nat -> Nat]
    BY <1>4 DEF Counts
  <2>2. \A x \in Nat : n[x] = held[x] + (IF x \in L THEN 1 ELSE 0)
    BY DEF Refs
  <2> HIDE DEF n, L
  <2>3. fewer \in [Nat -> Nat]
    BY <1>1, <2>1
  <2>4. \A x \in Nat : k[x] = fewer[x] + (IF x \in L THEN 1 ELSE 0)
    BY <1>1, <1>2, <2>1, <2>2
  <2>5. k = [x \in Nat |-> k[x]]
    BY <1>2, <2>1
  <2> QED BY <2>3, <2>4, <2>5 DEF Refs, Counts
<1> HIDE DEF n
<1>6. /\ IsCache(d) /\ EntriesOK(d.entries, k) /\ Accounts(d, m)
      /\ SameLists(d, c) /\ EntriesOf(d, c) /\ d.usage <= c.usage
  BY <1>2, <1>3, <1>4, UnrefKeeps
<1>7. L \subseteq DOMAIN d.entries
  <2>1. L \subseteq Nat
    BY <1>3, ListFinite DEF IsList
  <2>2. ASSUME NEW x \in L PROVE Refs(fewer, L)[x] > 0
    <3>1. Refs(fewer, L)[x] = fewer[x] + 1 /\ fewer[x] \in Nat
      BY <1>5, <2>1, RefsType
    <3> QED BY <3>1
  <2> QED BY <1>5, <1>6, <2>1, <2>2 DEF EntriesOK
<1>8. ChainsOK(c.table, c.elems, d.entries, L)
  <2>1. \A x \in L : d.entries[x].key = c.entries[x].key
    BY <1>6, <1>7 DEF EntriesOf
  <2> QED BY <1>3, <1>7, <2>1, ChainsSame
<1>9. CacheOK(d, fewer, m)
  BY <1>3, <1>5, <1>6, <1>8 DEF CacheOK, SameLists
<1>10. Trimmed(d)
  <2>1. c.usage \in Nat /\ d.usage \in Nat /\ Capacity \in Nat
    BY <1>3, <1>6, UsageIsNatural, CacheAssumption DEF Accounts
  <2> QED BY <1>6, <2>1 DEF Trimmed, SameLists
<1> QED BY <1>1, <1>6, <1>9, <1>10

(***************************************************************************)
(* What Insert and Erase do to a handle that has left the table.           *)
(***************************************************************************)
LEMMA ReplacedKeeps ==
    ASSUME NEW held, Counts(held), NEW m, NEW c, IsCache(c), IsList(c.lru),
           EntriesOK(c.entries, Refs(held, Range(c.lru))), Accounts(c, m),
           NEW h \in Range(c.lru), ChainsOK(c.table, c.elems, c.entries, Range(c.lru) \ {h}),
           NEW old, old = {h}, NEW d, d = Replaced(c, old)
    PROVE  CacheOK(d, held, m) /\ d.usage <= c.usage /\ EntriesOf(d, c)
           /\ Range(d.lru) = Range(c.lru) \ {h}
<1>1. (CHOOSE x \in old : TRUE) = h /\ old # {}
  OBVIOUS
<1>2. PICK g : g = LRURemove(c, h)
  OBVIOUS
<1>3. d = Unref(g, h)
  BY <1>1, <1>2 DEF Replaced
<1>4. /\ IsCache(g) /\ g.entries = c.entries /\ g.table = c.table /\ g.elems = c.elems
      /\ g.usage = c.usage /\ g.allowed = c.allowed
      /\ IsList(g.lru) /\ Range(g.lru) = Range(c.lru) \ {h}
  BY <1>2, UnlistFields
<1>5. h \in Nat \ Range(g.lru) /\ Range(g.lru) \cup {h} = Range(c.lru)
  BY <1>4, ListFinite DEF IsList
<1>6. Accounts(g, m)
  BY <1>4, AccountsSame
<1>7. CacheOK(d, held, m) /\ d.lru = g.lru /\ d.usage <= g.usage /\ EntriesOf(d, g)
  BY <1>3, <1>4, <1>5, <1>6, DropKeeps
<1> QED BY <1>4, <1>7 DEF EntriesOf

LEMMA EraseKeeps ==
    ASSUME NEW held, Counts(held), NEW m, NEW c, CacheOK(c, held, m), Trimmed(c),
           NEW f \in Files, NEW d, d = Erase(c, f)
    PROVE  CacheOK(d, held, m) /\ Trimmed(d) /\ EntriesOf(d, c)
<1> DEFINE L == Range(c.lru)
           old == TableLookup(c, f)
<1>1. IsCache(c) /\ IsList(c.lru) /\ EntriesOK(c.entries, Refs(held, L)) /\ Accounts(c, m)
      /\ ChainsOK(c.table, c.elems, c.entries, L)
  BY DEF CacheOK
<1>2. old = {h \in L : c.entries[h].key = f}
  BY <1>1, LookupFinds
<1>3. CASE old = {}
  <2>1. d = c
    BY <1>3 DEF Erase, Replaced, TableRemove
  <2> QED BY <2>1 DEF EntriesOf
<1>4. CASE old # {}
  <2>1. PICK h \in L : old = {h}
    BY <1>1, <1>2, <1>4 DEF ChainsOK
  <2>2. PICK g : g = TableRemove(c, f)
    OBVIOUS
  <2>3. IsCache(g) /\ SameButTable(g, c) /\ ChainsOK(g.table, g.elems, c.entries, L \ old)
    BY <1>1, <2>2, RemoveKeeps
  <2>4. d = Replaced(g, old)
    BY <2>2 DEF Erase
  <2>5. g.entries = c.entries /\ g.lru = c.lru /\ g.usage = c.usage /\ g.allowed = c.allowed
    BY <2>3 DEF SameButTable
  <2>6. Accounts(g, m)
    BY <1>1, <2>5, AccountsSame
  <2>7. CacheOK(d, held, m) /\ d.usage <= g.usage /\ EntriesOf(d, g)
        /\ Range(d.lru) = Range(g.lru) \ {h}
    <3>1. h \in Range(g.lru)
      BY <2>1, <2>5
    <3>2. ChainsOK(g.table, g.elems, g.entries, Range(g.lru) \ {h})
      BY <2>1, <2>3, <2>5
    <3>3. IsList(g.lru) /\ EntriesOK(g.entries, Refs(held, Range(g.lru)))
      BY <1>1, <2>5
    <3> HIDE DEF old, L
    <3> QED BY <2>1, <2>3, <2>4, <2>6, <3>1, <3>2, <3>3, ReplacedKeeps
  <2>8. Trimmed(d)
    <3>1. c.usage \in Nat /\ d.usage \in Nat /\ Capacity \in Nat
      BY <1>1, <2>7, UsageIsNatural, CacheAssumption DEF Accounts, CacheOK
    <3>2. c.lru # <<>>
      <4>1. \E j \in 1 .. Len(c.lru) : c.lru[j] = h
        BY <1>1, <2>1, Distinct DEF IsList
      <4> QED BY <4>1
    <3> QED BY <2>5, <2>7, <3>1, <3>2 DEF Trimmed
  <2> QED BY <2>5, <2>7, <2>8 DEF EntriesOf
<1> QED BY <1>3, <1>4

LEMMA NewHandleIsNew ==
    ASSUME NEW c, IsFiniteSet(DOMAIN c.entries), NEW h, h = NewHandle(c)
    PROVE  h \in Nat /\ h \notin DOMAIN c.entries
<1> DEFINE D == DOMAIN c.entries
           N == Cardinality(D) + 1
<1>1. Cardinality(D) \in Nat
  BY FS_CardinalityType
<1>2. \E x \in 1 .. N : x \notin D
  <2> SUFFICES ASSUME 1 .. N \subseteq D PROVE FALSE
    OBVIOUS
  <2>1. Cardinality(1 .. N) = N
    BY <1>1, FS_Interval
  <2>2. Cardinality(1 .. N) <= Cardinality(D)
    BY FS_Subset
  <2> QED BY <1>1, <2>1, <2>2
<1>3. h \in 1 .. N /\ h \notin D
  BY <1>2 DEF NewHandle
<1> QED BY <1>1, <1>3

LEMMA CacheInsertKeeps ==
    ASSUME NEW held, Counts(held), NEW m, NEW c, CacheOK(c, held, m),
           NEW f \in Files, NEW mm \in BOOLEAN, NEW d, d = Insert(c, f, mm),
           NEW h, h = NewHandle(c)
    PROVE  /\ h \in Nat /\ held[h] = 0
           /\ CacheOK(d, [held EXCEPT ![h] = 1], m + (IF mm THEN 1 ELSE 0)) /\ Trimmed(d)
           /\ \A x \in DOMAIN d.entries :
                 d.entries[x].key = IF x = h THEN f ELSE c.entries[x].key
           /\ h \in DOMAIN d.entries
<1> DEFINE L == Range(c.lru)
           n == Refs(held, L)
           K == L \cup {h}
           old == TableLookup(c, f)
<1>1. IsCache(c) /\ IsList(c.lru) /\ EntriesOK(c.entries, n) /\ Accounts(c, m)
      /\ ChainsOK(c.table, c.elems, c.entries, L)
  BY DEF CacheOK
<1>2. h \in Nat /\ h \notin DOMAIN c.entries /\ h \notin L
  BY <1>1, NewHandleIsNew DEF EntriesOK, ChainsOK
<1>3. Counts(n) /\ held[h] = 0 /\ n[h] = 0
  <2>1. Counts(n) /\ held[h] \in Nat /\ n[h] = held[h]
    BY <1>2, RefsType
  <2>2. ~ (n[h] > 0)
    BY <1>1, <1>2 DEF EntriesOK
  <2> QED BY <2>1, <2>2
<1>4. PICK more : more = [held EXCEPT ![h] = 1]
  OBVIOUS
<1>5. /\ Counts(more) /\ Refs(more, K)[h] = 2
      /\ \A x \in Nat : x # h => Refs(more, K)[x] = n[x]
      /\ Refs(more, K) = [x \in Nat |-> IF x = h THEN 2 ELSE n[x]]
  <2>1. held \in [Nat -> Nat] /\ \A x \in Nat : n[x] = held[x] + (IF x \in L THEN 1 ELSE 0)
    BY DEF Counts, Refs
  <2>2. more \in [Nat -> Nat] /\ \A x \in Nat : more[x] = IF x = h THEN 1 ELSE held[x]
    BY <1>2, <1>4, <2>1
  <2>3. \A x \in Nat : Refs(more, K)[x] = more[x] + (IF x \in K THEN 1 ELSE 0)
    BY DEF Refs
  <2> HIDE DEF n, L
  <2>4. \A x \in Nat : Refs(more, K)[x] = IF x = h THEN 2 ELSE n[x]
    <3>1. ASSUME NEW x \in Nat, x # h PROVE Refs(more, K)[x] = n[x]
      <4>1. x \in K <=> x \in L
        BY <3>1
      <4>2. more[x] = held[x]
        BY <2>2, <3>1
      <4> QED BY <2>1, <2>3, <4>1, <4>2
    <3>2. Refs(more, K)[h] = 2
      <4>1. more[h] = 1
        BY <1>2, <2>2
      <4>2. h \in K
        OBVIOUS
      <4>3. Refs(more, K)[h] = more[h] + 1
        BY <1>2, <2>3, <4>2
      <4> QED BY <4>1, <4>3
    <3> QED BY <3>1, <3>2
  <2>5. Refs(more, K) = [x \in Nat |-> IF x = h THEN 2 ELSE n[x]]
    <3>1. Refs(more, K) = [x \in Nat |-> Refs(more, K)[x]]
      BY DEF Refs
    <3> QED BY <2>4, <3>1
  <2> QED BY <1>2, <2>2, <2>4, <2>5 DEF Counts
<1> HIDE DEF n
<1>6. PICK e : e = NewEntry(c, f, mm)
  OBVIOUS
<1>7. PICK ents : ents = [x \in DOMAIN c.entries \cup {h} |->
                             IF x = h THEN [key |-> f, refs |-> 2, mmap |-> mm] ELSE c.entries[x]]
  OBVIOUS
<1>8. /\ IsCache(e) /\ e.entries = ents /\ e.usage = c.usage + Charge[f]
      /\ e.lru = c.lru /\ e.table = c.table /\ e.elems = c.elems /\ e.allowed = c.allowed
  <2>1. e = [c EXCEPT !.usage = @ + Charge[f], !.entries = ents]
    BY <1>1, <1>6, <1>7 DEF NewEntry, IsCache
  <2> QED BY <1>1, <2>1 DEF IsCache
<1>9. /\ DOMAIN ents = DOMAIN c.entries \cup {h}
      /\ ents[h] = [key |-> f, refs |-> 2, mmap |-> mm]
      /\ \A x \in DOMAIN c.entries : ents[x] = c.entries[x]
  BY <1>2, <1>7
<1>10. EntriesOK(ents, Refs(more, K))
  <2>1. DOMAIN c.entries = {x \in Nat : n[x] > 0} /\ IsFiniteSet(DOMAIN c.entries)
    BY <1>1 DEF EntriesOK
  <2>2. DOMAIN ents = {x \in Nat : Refs(more, K)[x] > 0}
    BY <1>2, <1>5, <1>9, <2>1
  <2>3. IsFiniteSet(DOMAIN ents)
    BY <1>9, <2>1, FS_AddElement
  <2>4. \A x \in DOMAIN ents : /\ ents[x] \in [key : Files, refs : Nat, mmap : BOOLEAN]
                               /\ ents[x].refs = Refs(more, K)[x]
    <3>1. ents[h] \in [key : Files, refs : Nat, mmap : BOOLEAN] /\ ents[h].refs = 2
      BY <1>9
    <3>2. ASSUME NEW x \in DOMAIN c.entries
          PROVE  /\ ents[x] \in [key : Files, refs : Nat, mmap : BOOLEAN]
                 /\ ents[x].refs = n[x] /\ x \in Nat /\ x # h
      BY <1>1, <1>2, <1>9 DEF EntriesOK
    <3> QED BY <1>5, <1>9, <3>1, <3>2
  <2>5. ents = [x \in DOMAIN ents |-> ents[x]]
    BY <1>7
  <2> QED BY <2>2, <2>3, <2>4, <2>5 DEF EntriesOK
<1>11. PICK k : k = m + (IF mm THEN 1 ELSE 0)
  OBVIOUS
<1>12. Accounts(e, k)
  <2>1. Usage(e) = Usage(c) + Charge[f]
    <3>1. KeysKept(e, c)
      BY <1>8, <1>9 DEF KeysKept
    <3>2. EntriesOK(e.entries, Refs(more, K)) /\ DOMAIN e.entries = DOMAIN c.entries \cup {h}
          /\ e.entries[h].key = f
      BY <1>8, <1>9, <1>10
    <3> QED BY <1>1, <1>2, <3>1, <3>2, UsageMore
  <2>2. Mapped(e) = IF mm THEN Mapped(c) \cup {h} ELSE Mapped(c)
    BY <1>2, <1>8, <1>9 DEF Mapped
  <2>3. IsFiniteSet(Mapped(c)) /\ Cardinality(Mapped(c)) \in Nat /\ h \notin Mapped(c)
        /\ c.allowed \in Nat /\ c.allowed + Cardinality(Mapped(c)) = m /\ c.usage = Usage(c)
    BY <1>1, <1>2, MappedFinite DEF Accounts, Mapped
  <2>4. Cardinality(Mapped(e)) = Cardinality(Mapped(c)) + (IF mm THEN 1 ELSE 0)
    <3>1. CASE mm
      BY <2>2, <2>3, <3>1, FS_AddElement
    <3>2. CASE ~ mm
      BY <2>2, <2>3, <3>2
    <3> QED BY <3>1, <3>2
  <2> QED BY <1>8, <1>11, <2>1, <2>3, <2>4 DEF Accounts
<1>13. PICK g : g = LRUAppend(e, h)
  OBVIOUS
<1>14. /\ IsCache(g) /\ g.entries = ents /\ g.usage = e.usage /\ g.allowed = e.allowed
       /\ g.table = c.table /\ g.elems = c.elems /\ g.lru = Append(c.lru, h)
  BY <1>8, <1>13 DEF LRUAppend, IsCache
<1>15. IsList(g.lru) /\ Range(g.lru) = K
  <2>1. h \in Nat \ Range(c.lru)
    BY <1>2
  <2> QED BY <1>1, <1>14, <2>1, ListWith DEF IsList
<1>16. ChainsOK(g.table, g.elems, g.entries, L)
  <2>1. L \subseteq DOMAIN c.entries
    BY <1>1 DEF ChainsOK
  <2>2. L \subseteq DOMAIN ents /\ \A x \in L : ents[x].key = c.entries[x].key
    BY <1>9, <2>1
  <2> QED BY <1>1, <1>14, <2>2, ChainsSame
<1>17. Accounts(g, k)
  <2>1. g.entries = e.entries /\ g.usage = e.usage /\ g.allowed = e.allowed
    BY <1>8, <1>14
  <2> QED BY <1>12, <2>1, AccountsSame
<1>18. old = TableLookup(g, f) /\ old \subseteq L /\ \A x, y \in old : x = y
  <2>1. old = {x \in L : c.entries[x].key = f}
    BY <1>1, LookupFinds
  <2>2. TableLookup(g, f) = {x \in L : g.entries[x].key = f}
    BY <1>16, LookupFinds
  <2>3. \A x \in L : g.entries[x].key = c.entries[x].key
    BY <1>1, <1>9, <1>14 DEF ChainsOK
  <2> QED BY <1>1, <2>1, <2>2, <2>3 DEF ChainsOK
<1> HIDE DEF old, K
<1>19. PICK q : q = TableInsert(g, h)
  OBVIOUS
<1>20. IsCache(q) /\ SameButTable(q, g) /\ ChainsOK(q.table, q.elems, g.entries, (L \ old) \cup {h})
  <2>1. h \in DOMAIN g.entries \ L /\ g.entries[h].key = f
    BY <1>2, <1>9, <1>14
  <2>2. EntriesOK(g.entries, Refs(more, K))
    BY <1>10, <1>14
  <2>3. old = TableLookup(g, g.entries[h].key)
    BY <1>18, <2>1
  <2> QED BY <1>14, <1>16, <1>19, <2>1, <2>2, <2>3, InsertKeeps
<1>21. q.entries = ents /\ q.lru = g.lru /\ q.usage = g.usage /\ q.allowed = g.allowed
       /\ IsList(q.lru) /\ Range(q.lru) = K
  BY <1>14, <1>15, <1>20 DEF SameButTable
<1>22. Accounts(q, k) /\ EntriesOK(q.entries, Refs(more, Range(q.lru)))
  <2>1. q.entries = g.entries
    BY <1>14, <1>21
  <2>2. Accounts(q, k)
    BY <1>17, <1>21, <2>1, AccountsSame
  <2> QED BY <1>10, <1>21, <2>2
<1>23. PICK p : p = Replaced(q, old)
  OBVIOUS
<1>24. CacheOK(p, more, k) /\ EntriesOf(p, q)
  <2>1. CASE old = {}
    <3>1. p = q
      BY <1>23, <2>1 DEF Replaced
    <3>2. (L \ old) \cup {h} = K
      BY <2>1 DEF K
    <3>3. ChainsOK(q.table, q.elems, q.entries, Range(q.lru))
      BY <1>14, <1>20, <1>21, <3>2
    <3> QED BY <1>20, <1>21, <1>22, <3>1, <3>3 DEF CacheOK, EntriesOf
  <2>2. CASE old # {}
    <3>1. PICK x \in L : old = {x}
      BY <1>18, <2>2
    <3>2. x \in Range(q.lru) /\ (L \ old) \cup {h} = Range(q.lru) \ {x}
      BY <1>2, <1>21, <3>1 DEF K
    <3>3. ChainsOK(q.table, q.elems, q.entries, Range(q.lru) \ {x})
      BY <1>14, <1>20, <1>21, <3>2
    <3>4. IsList(q.lru) /\ IsCache(q)
      BY <1>20, <1>21
    <3> QED BY <1>5, <1>22, <1>23, <3>1, <3>2, <3>3, <3>4, ReplacedKeeps
  <2> QED BY <2>1, <2>2
<1>25. d = EvictOldest(p)
  BY <1>6, <1>13, <1>19, <1>23 DEF Insert, old
<1>26. CacheOK(d, more, k) /\ Trimmed(d) /\ EntriesOf(d, p)
  BY <1>5, <1>24, <1>25, EvictOldestKeeps
<1>27. \A x \in DOMAIN d.entries : d.entries[x].key = IF x = h THEN f ELSE c.entries[x].key
  <2>1. ASSUME NEW x \in DOMAIN d.entries
        PROVE  x \in DOMAIN ents /\ d.entries[x].key = ents[x].key
    BY <1>21, <1>24, <1>26 DEF EntriesOf
  <2> QED BY <1>9, <2>1
<1>28. h \in DOMAIN d.entries
  <2>1. more[h] = 1
    <3>1. held \in [Nat -> Nat]
      BY DEF Counts
    <3> QED BY <1>2, <1>4, <3>1
  <2>2. Refs(more, Range(d.lru))[h] > 0
    <3>1. Refs(more, Range(d.lru))[h] = 1 \/ Refs(more, Range(d.lru))[h] = 2
      BY <1>2, <1>5, <2>1, RefsType
    <3> QED BY <3>1
  <2> QED BY <1>2, <1>26, <2>2 DEF CacheOK, EntriesOK
<1> QED BY <1>2, <1>3, <1>4, <1>11, <1>26, <1>27, <1>28

-----------------------------------------------------------------------------
(* The readers                                                             *)

(***************************************************************************)
(* Where a thread can be, what it then has, and when it has a mmap slot.   *)
(***************************************************************************)
ReaderStates ==
    [at : {"idle"}]
      \cup [at : {"open", "slot", "map"}, file : Files, name : {"ldb", "sst"}]
      \cup [at : {"table", "insert"}, file : Files, mmap : BOOLEAN]
      \cup [at : {"using"}, file : Files, handle : Nat]

HasSlot(x) == x.at = "map" \/ (x.at \in {"table", "insert"} /\ x.mmap)

(* Holders, their numbers, and Opening, for the readers of s. *)
HoldersOf(s, h) == {r \in Readers : s[r].at = "using" /\ s[r].handle = h}
HeldBy(s) == [h \in Nat |-> Cardinality(HoldersOf(s, h))]
OpeningOf(s) == {r \in Readers : HasSlot(s[r])}

Slot(x) == IF HasSlot(x) THEN 1 ELSE 0

LEMMA HeldIsCount ==
    ASSUME NEW s
    PROVE  /\ Counts(HeldBy(s))
           /\ \A h \in Nat : /\ HeldBy(s)[h] = Cardinality(HoldersOf(s, h))
                             /\ IsFiniteSet(HoldersOf(s, h))
           /\ IsFiniteSet(OpeningOf(s)) /\ Cardinality(OpeningOf(s)) \in Nat
<1>1. ASSUME NEW h PROVE IsFiniteSet(HoldersOf(s, h)) /\ Cardinality(HoldersOf(s, h)) \in Nat
  <2>1. HoldersOf(s, h) \subseteq Readers
    BY DEF HoldersOf
  <2> QED BY <2>1, CacheAssumption, FS_Subset, FS_CardinalityType
<1>2. IsFiniteSet(OpeningOf(s)) /\ Cardinality(OpeningOf(s)) \in Nat
  <2>1. OpeningOf(s) \subseteq Readers
    BY DEF OpeningOf
  <2> QED BY <2>1, CacheAssumption, FS_Subset, FS_CardinalityType
<1> QED BY <1>1, <1>2 DEF HeldBy, Counts

(* One reader moves to x. *)
Moves(s, t, r, x) == DOMAIN s = Readers /\ r \in Readers /\ t = [s EXCEPT ![r] = x]

LEMMA HoldersMove ==
    ASSUME NEW s, NEW t, NEW r, NEW x, Moves(s, t, r, x),
           NEW h
    PROVE  /\ (x.at = "using" /\ x.handle = h) => HoldersOf(t, h) = HoldersOf(s, h) \cup {r}
           /\ (x.at # "using" \/ x.handle # h) => HoldersOf(t, h) = HoldersOf(s, h) \ {r}
<1>1. t[r] = x /\ \A p \in Readers : p # r => t[p] = s[p]
  BY DEF Moves
<1> QED BY <1>1 DEF HoldersOf, Moves

LEMMA HeldSame ==
    ASSUME NEW s, NEW t, NEW r, NEW x, Moves(s, t, r, x),
           s[r].at # "using", x.at # "using"
    PROVE  HeldBy(t) = HeldBy(s)
<1>1. \A h : HoldersOf(t, h) = HoldersOf(s, h) \ {r}
  BY HoldersMove
<1>2. \A h : r \notin HoldersOf(s, h)
  BY DEF HoldersOf
<1>3. \A h : HoldersOf(t, h) = HoldersOf(s, h)
  BY <1>1, <1>2
<1> QED BY <1>3 DEF HeldBy

LEMMA HeldMore ==
    ASSUME NEW s, NEW t, NEW r, NEW x, Moves(s, t, r, x),
           s[r].at # "using", x.at = "using", x.handle \in Nat
    PROVE  HeldBy(t) = [HeldBy(s) EXCEPT ![x.handle] = HeldBy(s)[x.handle] + 1]
<1> DEFINE h == x.handle
<1>1. \A p : r \notin HoldersOf(s, p)
  BY DEF HoldersOf
<1>2. HoldersOf(t, h) = HoldersOf(s, h) \cup {r}
  BY HoldersMove
<1>3. \A p : p # h => HoldersOf(t, p) = HoldersOf(s, p)
  <2>1. \A p : p # h => HoldersOf(t, p) = HoldersOf(s, p) \ {r}
    BY HoldersMove
  <2> QED BY <1>1, <2>1
<1> HIDE DEF h
<1>4. Cardinality(HoldersOf(t, h)) = Cardinality(HoldersOf(s, h)) + 1
  <2>1. IsFiniteSet(HoldersOf(s, h))
    BY HeldIsCount DEF h
  <2> QED BY <1>1, <1>2, <2>1, FS_AddElement
<1>5. \A p \in Nat : Cardinality(HoldersOf(t, p))
                       = IF p = h THEN Cardinality(HoldersOf(s, h)) + 1 ELSE Cardinality(HoldersOf(s, p))
  BY <1>3, <1>4
<1>6. h \in Nat
  BY DEF h
<1> QED BY <1>5, <1>6 DEF HeldBy, h

LEMMA HeldFewer ==
    ASSUME NEW s, NEW t, NEW r, NEW x, Moves(s, t, r, x),
           s[r].at = "using", x.at # "using", s[r].handle \in Nat
    PROVE  /\ HeldBy(t) = [HeldBy(s) EXCEPT ![s[r].handle] = HeldBy(s)[s[r].handle] - 1]
           /\ HeldBy(s)[s[r].handle] > 0
<1> DEFINE h == s[r].handle
<1>1. r \in HoldersOf(s, h) /\ \A p : p # h => r \notin HoldersOf(s, p)
  BY DEF HoldersOf, Moves
<1>2. \A p : HoldersOf(t, p) = HoldersOf(s, p) \ {r}
  BY HoldersMove
<1>3. \A p : p # h => HoldersOf(t, p) = HoldersOf(s, p)
  BY <1>1, <1>2
<1>6. h \in Nat
  OBVIOUS
<1> HIDE DEF h
<1>4. /\ Cardinality(HoldersOf(t, h)) = Cardinality(HoldersOf(s, h)) - 1
      /\ Cardinality(HoldersOf(t, h)) \in Nat /\ Cardinality(HoldersOf(s, h)) \in Nat
  <2>1. IsFiniteSet(HoldersOf(s, h)) /\ IsFiniteSet(HoldersOf(t, h))
    BY <1>6, HeldIsCount
  <2> QED BY <1>1, <1>2, <2>1, FS_RemoveElement, FS_CardinalityType
<1>5. \A p \in Nat : Cardinality(HoldersOf(t, p))
                       = IF p = h THEN Cardinality(HoldersOf(s, h)) - 1 ELSE Cardinality(HoldersOf(s, p))
  BY <1>3, <1>4
<1>7. HeldBy(s)[h] > 0
  BY <1>4, <1>6 DEF HeldBy
<1>8. HeldBy(t) = [HeldBy(s) EXCEPT ![h] = HeldBy(s)[h] - 1]
  BY <1>5, <1>6 DEF HeldBy
<1> QED BY <1>7, <1>8 DEF h

LEMMA OpeningMoves ==
    ASSUME NEW s, NEW t, NEW r, NEW x, Moves(s, t, r, x)
    PROVE  Cardinality(OpeningOf(t)) = Cardinality(OpeningOf(s)) - Slot(s[r]) + Slot(x)
<1>1. t[r] = x /\ \A p \in Readers : p # r => t[p] = s[p]
  BY DEF Moves
<1>2. IsFiniteSet(OpeningOf(s)) /\ Cardinality(OpeningOf(s)) \in Nat
  BY HeldIsCount
<1>3. PICK rest : rest = OpeningOf(s) \ {r}
  OBVIOUS
<1>4. /\ IsFiniteSet(rest) /\ Cardinality(rest) \in Nat
      /\ Cardinality(rest) = Cardinality(OpeningOf(s)) - Slot(s[r])
  <2>1. CASE HasSlot(s[r])
    <3>1. r \in OpeningOf(s) /\ Slot(s[r]) = 1
      BY <2>1 DEF OpeningOf, Slot, Moves
    <3> QED BY <1>2, <1>3, <3>1, FS_RemoveElement, FS_CardinalityType
  <2>2. CASE ~ HasSlot(s[r])
    <3>1. rest = OpeningOf(s) /\ Slot(s[r]) = 0
      BY <1>3, <2>2 DEF OpeningOf, Slot
    <3> QED BY <1>2, <3>1
  <2> QED BY <2>1, <2>2
<1>5. Cardinality(OpeningOf(t)) = Cardinality(rest) + Slot(x)
  <2>1. CASE HasSlot(x)
    <3>1. OpeningOf(t) = rest \cup {r} /\ r \notin rest /\ Slot(x) = 1
      BY <1>1, <1>3, <2>1 DEF OpeningOf, Slot, Moves
    <3> QED BY <1>4, <3>1, FS_AddElement
  <2>2. CASE ~ HasSlot(x)
    <3>1. OpeningOf(t) = rest /\ Slot(x) = 0
      BY <1>1, <1>3, <2>2 DEF OpeningOf, Slot
    <3> QED BY <1>4, <3>1
  <2> QED BY <2>1, <2>2
<1> QED BY <1>4, <1>5

-----------------------------------------------------------------------------
(* The inductive invariant                                                 *)

(* A reader's handle is the table it asked for. *)
UsingOK(s, e) ==
    \A r \in Readers : s[r].at = "using" => /\ s[r].handle \in DOMAIN e
                                            /\ e[s[r].handle].key = s[r].file

CacheStateOK(s, c) ==
    /\ s \in [Readers -> ReaderStates]
    /\ CacheOK(c, HeldBy(s), MmapLimit - Cardinality(OpeningOf(s)))
    /\ Trimmed(c)
    /\ UsingOK(s, c.entries)

CacheInv == CacheStateOK(reader, lruCache)

(***************************************************************************)
(* A handle that a reader holds is an entry.                               *)
(***************************************************************************)
LEMMA HeldIsEntry ==
    ASSUME NEW s, NEW m, NEW c, CacheOK(c, HeldBy(s), m),
           NEW r \in Readers, s[r].at = "using", s[r].handle \in Nat
    PROVE  s[r].handle \in DOMAIN c.entries
<1> DEFINE h == s[r].handle
           n == Refs(HeldBy(s), Range(c.lru))
<1>1. IsFiniteSet(HoldersOf(s, h)) /\ HeldBy(s)[h] = Cardinality(HoldersOf(s, h))
  BY HeldIsCount
<1>2. r \in HoldersOf(s, h)
  BY DEF HoldersOf
<1>3. HeldBy(s)[h] > 0 /\ HeldBy(s)[h] \in Nat
  <2>1. Cardinality(HoldersOf(s, h)) # 0 /\ Cardinality(HoldersOf(s, h)) \in Nat
    BY <1>1, <1>2, FS_EmptySet, FS_CardinalityType
  <2> QED BY <1>1, <2>1
<1>4. n[h] = HeldBy(s)[h] \/ n[h] = HeldBy(s)[h] + 1
  BY RefsType, HeldIsCount
<1>5. n[h] > 0
  BY <1>3, <1>4
<1> HIDE DEF n
<1>6. EntriesOK(c.entries, n)
  BY DEF CacheOK, n
<1> QED BY <1>5, <1>6 DEF EntriesOK

LEMMA AllowedKeeps ==
    ASSUME NEW held, NEW m, NEW c, CacheOK(c, held, m), Trimmed(c), NEW a \in Nat,
           NEW d, d = [c EXCEPT !.allowed = a]
    PROVE  /\ CacheOK(d, held, m - c.allowed + a) /\ Trimmed(d) /\ d.entries = c.entries
<1>1. IsCache(d) /\ d.entries = c.entries /\ d.table = c.table /\ d.elems = c.elems
      /\ d.lru = c.lru /\ d.usage = c.usage /\ d.allowed = a
  BY DEF CacheOK, IsCache
<1>2. Accounts(d, m - c.allowed + a)
  <2>1. Usage(d) = Usage(c) /\ Mapped(d) = Mapped(c)
    BY <1>1 DEF Usage, Mapped
  <2>2. Cardinality(Mapped(c)) \in Nat
    BY MappedFinite DEF CacheOK
  <2> QED BY <1>1, <2>1, <2>2 DEF CacheOK, Accounts
<1> QED BY <1>1, <1>2 DEF CacheOK, Trimmed

-----------------------------------------------------------------------------
(* The actions                                                             *)

(***************************************************************************)
(* What a thread has, by where it is.                                      *)
(***************************************************************************)
LEMMA StateShape ==
    ASSUME NEW x \in ReaderStates
    PROVE  /\ x.at \in {"open", "slot", "map"} =>
                 /\ x = [at |-> x.at, file |-> x.file, name |-> x.name]
                 /\ x.file \in Files /\ x.name \in {"ldb", "sst"}
           /\ x.at \in {"table", "insert"} =>
                 /\ x = [at |-> x.at, file |-> x.file, mmap |-> x.mmap]
                 /\ x.file \in Files /\ x.mmap \in BOOLEAN
           /\ x.at = "using" => x.file \in Files /\ x.handle \in Nat
BY DEF ReaderStates

LEMMA MovesStays ==
    ASSUME NEW s \in [Readers -> ReaderStates], NEW r \in Readers, NEW x \in ReaderStates,
           NEW t, t = [s EXCEPT ![r] = x]
    PROVE  Moves(s, t, r, x) /\ t \in [Readers -> ReaderStates]
           /\ t[r] = x /\ \A p \in Readers : p # r => t[p] = s[p]
BY DEF Moves

(***************************************************************************)
(* A reader that has no table yet moves, and slots pass between it and the *)
(* limiter, which has a of them afterwards.                                *)
(***************************************************************************)
LEMMA OpeningKeeps ==
    ASSUME NEW s, NEW c, CacheStateOK(s, c), NEW r \in Readers, NEW x \in ReaderStates,
           NEW t, t = [s EXCEPT ![r] = x], s[r].at # "using", x.at # "using",
           NEW a \in Nat, a + Slot(x) = c.allowed + Slot(s[r]),
           NEW d, d = [c EXCEPT !.allowed = a]
    PROVE  CacheStateOK(t, d)
<1>1. /\ s \in [Readers -> ReaderStates] /\ Trimmed(c) /\ UsingOK(s, c.entries)
      /\ CacheOK(c, HeldBy(s), MmapLimit - Cardinality(OpeningOf(s)))
  BY DEF CacheStateOK
<1>2. /\ Moves(s, t, r, x) /\ t \in [Readers -> ReaderStates]
      /\ t[r] = x /\ \A p \in Readers : p # r => t[p] = s[p]
  BY <1>1, MovesStays
<1>3. HeldBy(t) = HeldBy(s)
  BY <1>2, HeldSame
<1>4. Cardinality(OpeningOf(t)) = Cardinality(OpeningOf(s)) - Slot(s[r]) + Slot(x)
  BY <1>2, OpeningMoves
<1>5. /\ CacheOK(d, HeldBy(s), MmapLimit - Cardinality(OpeningOf(s)) - c.allowed + a)
      /\ Trimmed(d) /\ d.entries = c.entries
  BY <1>1, AllowedKeeps
<1>6. MmapLimit - Cardinality(OpeningOf(s)) - c.allowed + a = MmapLimit - Cardinality(OpeningOf(t))
  <2>1. Slot(s[r]) \in Nat /\ Slot(x) \in Nat
    BY DEF Slot
  <2>2. c.allowed \in Nat
    BY <1>1 DEF CacheOK, Accounts
  <2>3. Cardinality(OpeningOf(s)) \in Nat
    BY HeldIsCount
  <2> QED BY <1>4, <2>1, <2>2, <2>3, CacheAssumption
<1>7. UsingOK(t, d.entries)
  BY <1>1, <1>2, <1>5 DEF UsingOK
<1> QED BY <1>2, <1>3, <1>5, <1>6, <1>7 DEF CacheStateOK

(***************************************************************************)
(* The same with the cache as it is.                                       *)
(***************************************************************************)
LEMMA ReaderKeeps ==
    ASSUME NEW s, NEW c, CacheStateOK(s, c), NEW r \in Readers, NEW x \in ReaderStates,
           NEW t, t = [s EXCEPT ![r] = x], s[r].at # "using", x.at # "using",
           Slot(x) = Slot(s[r])
    PROVE  CacheStateOK(t, c)
<1>1. PICK a : a = c.allowed
  OBVIOUS
<1>2. a \in Nat /\ c = [c EXCEPT !.allowed = a]
  BY <1>1 DEF CacheStateOK, CacheOK, Accounts, IsCache
<1>3. a + Slot(x) = c.allowed + Slot(s[r])
  BY <1>1
<1> QED BY <1>2, <1>3, OpeningKeeps

LEMMA FindTableKeeps ==
    ASSUME NEW r \in Readers, NEW f \in Files, CacheInv, FindTable(r, f)
    PROVE  CacheInv'
<1>1. /\ reader \in [Readers -> ReaderStates] /\ Trimmed(lruCache)
      /\ UsingOK(reader, lruCache.entries)
      /\ CacheOK(lruCache, HeldBy(reader), MmapLimit - Cardinality(OpeningOf(reader)))
  BY DEF CacheInv, CacheStateOK
<1>2. reader[r].at = "idle" /\ Slot(reader[r]) = 0
  BY DEF FindTable, At, Slot, HasSlot
<1>3. CASE /\ reader' = [reader EXCEPT ![r] = [at |-> "open", file |-> f, name |-> "ldb"]]
           /\ lruCache' = lruCache
  <2>1. PICK x : x = [at |-> "open", file |-> f, name |-> "ldb"]
    OBVIOUS
  <2>2. x \in ReaderStates /\ x.at # "using" /\ Slot(x) = 0
    BY <2>1 DEF ReaderStates, Slot, HasSlot
  <2>3. CacheStateOK(reader', lruCache)
    BY <1>2, <1>3, <2>1, <2>2, ReaderKeeps DEF CacheInv
  <2> QED BY <1>3, <2>3 DEF CacheInv
<1>4. ASSUME NEW h \in TableLookup(lruCache, f),
             reader' = [reader EXCEPT ![r] = [at |-> "using", file |-> f, handle |-> h]],
             lruCache' = LookupHit(lruCache, h)
      PROVE  CacheInv'
  <2>1. PICK x : x = [at |-> "using", file |-> f, handle |-> h]
    OBVIOUS
  <2>2. PICK t : t = [reader EXCEPT ![r] = x]
    OBVIOUS
  <2>3. PICK d : d = LookupHit(lruCache, h)
    OBVIOUS
  <2>4. /\ CacheOK(d, [HeldBy(reader) EXCEPT ![h] = HeldBy(reader)[h] + 1],
                   MmapLimit - Cardinality(OpeningOf(reader)))
        /\ Trimmed(d) /\ h \in Nat /\ h \in DOMAIN d.entries /\ d.entries[h].key = f
        /\ EntriesOf(d, lruCache) /\ DOMAIN d.entries = DOMAIN lruCache.entries
    BY <1>1, <2>3, HeldIsCount, LookupKeeps
  <2>5. /\ x \in ReaderStates /\ x.at = "using" /\ x.handle = h /\ x.file = f
        /\ Slot(x) = 0
    BY <2>1, <2>4 DEF ReaderStates, Slot, HasSlot
  <2>6. /\ Moves(reader, t, r, x) /\ t \in [Readers -> ReaderStates]
        /\ t[r] = x /\ \A p \in Readers : p # r => t[p] = reader[p]
    BY <1>1, <2>2, <2>5, MovesStays
  <2>7. HeldBy(t) = [HeldBy(reader) EXCEPT ![h] = HeldBy(reader)[h] + 1]
    BY <1>2, <2>4, <2>5, <2>6, HeldMore
  <2>8. Cardinality(OpeningOf(t)) = Cardinality(OpeningOf(reader))
    BY <1>2, <2>5, <2>6, OpeningMoves, HeldIsCount
  <2>9. UsingOK(t, d.entries)
    <3>1. ASSUME NEW p \in Readers, t[p].at = "using"
          PROVE  t[p].handle \in DOMAIN d.entries /\ d.entries[t[p].handle].key = t[p].file
      <4>1. CASE p = r
        BY <2>4, <2>5, <2>6, <4>1
      <4>2. CASE p # r
        BY <1>1, <2>4, <2>6, <3>1, <4>2 DEF UsingOK, EntriesOf
      <4> QED BY <4>1, <4>2
    <3> QED BY <3>1 DEF UsingOK
  <2>10. CacheStateOK(t, d)
    BY <2>4, <2>6, <2>7, <2>8, <2>9 DEF CacheStateOK
  <2> QED BY <1>4, <2>1, <2>2, <2>3, <2>10 DEF CacheInv
<1> QED BY <1>3, <1>4 DEF FindTable

(***************************************************************************)
(* Where a failed or a successful open leaves the reader.                  *)
(***************************************************************************)
LEMMA OpenLeaves ==
    ASSUME NEW r \in Readers, reader \in [Readers -> ReaderStates],
           reader[r].at \in {"open", "slot", "map"}
    PROVE  /\ OpenFailed(r) => \E x \in ReaderStates :
                 /\ x.at # "using" /\ Slot(x) = 0 /\ reader' = [reader EXCEPT ![r] = x]
           /\ \A how \in BOOLEAN : Opened(r, how) => \E x \in ReaderStates :
                 /\ x.at # "using" /\ Slot(x) = (IF how THEN 1 ELSE 0)
                 /\ reader' = [reader EXCEPT ![r] = x]
           /\ \A where \in {"slot", "map"} : \E x \in ReaderStates :
                 /\ x.at = where /\ [reader EXCEPT ![r].at = where] = [reader EXCEPT ![r] = x]
<1>1. PICK y \in ReaderStates : y = reader[r]
  OBVIOUS
<1>2. /\ y = [at |-> y.at, file |-> y.file, name |-> y.name]
      /\ y.file \in Files /\ y.name \in {"ldb", "sst"}
  BY <1>1, StateShape
<1>3. OpenFailed(r) => \E x \in ReaderStates :
         /\ x.at # "using" /\ Slot(x) = 0 /\ reader' = [reader EXCEPT ![r] = x]
  <2>1. CASE y.name = "ldb"
    <3>1. PICK x : x = [at |-> "open", file |-> y.file, name |-> "sst"]
      OBVIOUS
    <3>2. x \in ReaderStates /\ x.at # "using" /\ Slot(x) = 0
      BY <1>2, <3>1 DEF ReaderStates, Slot, HasSlot
    <3> QED BY <1>1, <2>1, <3>1, <3>2 DEF OpenFailed
  <2>2. CASE y.name # "ldb"
    <3>1. Idle \in ReaderStates /\ Idle.at # "using" /\ Slot(Idle) = 0
      BY DEF ReaderStates, Slot, HasSlot, Idle
    <3> QED BY <1>1, <2>2, <3>1 DEF OpenFailed
  <2> QED BY <2>1, <2>2
<1>4. ASSUME NEW how \in BOOLEAN, Opened(r, how)
      PROVE  \E x \in ReaderStates :
                 /\ x.at # "using" /\ Slot(x) = (IF how THEN 1 ELSE 0)
                 /\ reader' = [reader EXCEPT ![r] = x]
  <2>1. PICK x : x = [at |-> "table", file |-> y.file, mmap |-> how]
    OBVIOUS
  <2>2. x \in ReaderStates /\ x.at # "using" /\ Slot(x) = (IF how THEN 1 ELSE 0)
    BY <1>2, <2>1 DEF ReaderStates, Slot, HasSlot
  <2>3. reader' = [reader EXCEPT ![r] = x]
    BY <1>1, <1>4, <2>1 DEF Opened
  <2> QED BY <2>2, <2>3
<1>5. ASSUME NEW where \in {"slot", "map"}
      PROVE  \E x \in ReaderStates :
                 /\ x.at = where /\ [reader EXCEPT ![r].at = where] = [reader EXCEPT ![r] = x]
  <2>1. PICK x : x = [at |-> where, file |-> y.file, name |-> y.name]
    OBVIOUS
  <2>2. x \in ReaderStates /\ x.at = where
    BY <1>2, <2>1 DEF ReaderStates
  <2>3. [reader EXCEPT ![r].at = where] = [reader EXCEPT ![r] = x]
    <3>1. x = [y EXCEPT !.at = where]
      BY <1>2, <2>1
    <3> QED BY <1>1, <3>1
  <2> QED BY <2>2, <2>3
<1> QED BY <1>3, <1>4, <1>5

LEMMA OpenFileKeeps ==
    ASSUME NEW r \in Readers, CacheInv, OpenFile(r)
    PROVE  CacheInv'
<1>1. reader \in [Readers -> ReaderStates]
  BY DEF CacheInv, CacheStateOK
<1>2. /\ reader[r].at = "open" /\ Slot(reader[r]) = 0 /\ lruCache' = lruCache
      /\ reader[r].at \in {"open", "slot", "map"} /\ reader[r].at # "using"
  BY DEF OpenFile, At, Slot, HasSlot
<1>3. \E x \in ReaderStates : /\ x.at # "using" /\ Slot(x) = 0
                              /\ reader' = [reader EXCEPT ![r] = x]
  <2>1. CASE OpenFailed(r)
    BY <1>1, <1>2, <2>1, OpenLeaves
  <2>2. CASE Opened(r, FALSE)
    BY <1>1, <1>2, <2>2, OpenLeaves
  <2>3. CASE reader' = [reader EXCEPT ![r].at = "slot"]
    <3>1. PICK x \in ReaderStates : /\ x.at = "slot"
                                    /\ [reader EXCEPT ![r].at = "slot"] = [reader EXCEPT ![r] = x]
      BY <1>1, <1>2, OpenLeaves
    <3>2. x.at # "using" /\ Slot(x) = 0
      BY <3>1 DEF Slot, HasSlot
    <3> QED BY <2>3, <3>1, <3>2
  <2> QED BY <2>1, <2>2, <2>3 DEF OpenFile
<1>4. PICK x \in ReaderStates : /\ x.at # "using" /\ Slot(x) = 0
                                /\ reader' = [reader EXCEPT ![r] = x]
  BY <1>3
<1>5. CacheStateOK(reader', lruCache)
  BY <1>2, <1>4, ReaderKeeps DEF CacheInv
<1> QED BY <1>2, <1>5 DEF CacheInv

LEMMA AcquireSlotKeeps ==
    ASSUME NEW r \in Readers, CacheInv, AcquireSlot(r)
    PROVE  CacheInv'
<1>1. reader \in [Readers -> ReaderStates] /\ lruCache.allowed \in Nat
  BY DEF CacheInv, CacheStateOK, CacheOK, Accounts
<1>2. /\ reader[r].at = "slot" /\ Slot(reader[r]) = 0
      /\ reader[r].at \in {"open", "slot", "map"} /\ reader[r].at # "using"
  BY DEF AcquireSlot, At, Slot, HasSlot
<1>3. CASE Opened(r, FALSE) /\ lruCache' = lruCache
  <2>1. PICK x \in ReaderStates : /\ x.at # "using" /\ Slot(x) = 0
                                  /\ reader' = [reader EXCEPT ![r] = x]
    BY <1>1, <1>2, <1>3, OpenLeaves
  <2>2. CacheStateOK(reader', lruCache)
    BY <1>2, <2>1, ReaderKeeps DEF CacheInv
  <2> QED BY <1>3, <2>2 DEF CacheInv
<1>4. CASE /\ ~ (lruCache.allowed <= 0)
           /\ reader' = [reader EXCEPT ![r].at = "map"]
           /\ lruCache' = [lruCache EXCEPT !.allowed = @ - 1]
  <2>1. PICK x \in ReaderStates : /\ x.at = "map"
                                  /\ [reader EXCEPT ![r].at = "map"] = [reader EXCEPT ![r] = x]
    BY <1>1, <1>2, OpenLeaves
  <2>2. x.at # "using" /\ Slot(x) = 1
    BY <2>1 DEF Slot, HasSlot
  <2>3. PICK a : a = lruCache.allowed - 1
    OBVIOUS
  <2>4. /\ a \in Nat /\ a + Slot(x) = lruCache.allowed + Slot(reader[r])
        /\ lruCache' = [lruCache EXCEPT !.allowed = a]
    BY <1>1, <1>2, <1>4, <2>2, <2>3
  <2>5. reader' = [reader EXCEPT ![r] = x]
    BY <1>4, <2>1
  <2>6. CacheStateOK(reader', lruCache')
    BY <1>2, <2>2, <2>4, <2>5, OpeningKeeps DEF CacheInv
  <2> QED BY <2>6 DEF CacheInv
<1> QED BY <1>3, <1>4 DEF AcquireSlot

LEMMA MapFileKeeps ==
    ASSUME NEW r \in Readers, CacheInv, MapFile(r)
    PROVE  CacheInv'
<1>1. reader \in [Readers -> ReaderStates] /\ lruCache.allowed \in Nat
  BY DEF CacheInv, CacheStateOK, CacheOK, Accounts
<1>2. /\ reader[r].at = "map" /\ Slot(reader[r]) = 1
      /\ reader[r].at \in {"open", "slot", "map"} /\ reader[r].at # "using"
  BY DEF MapFile, At, Slot, HasSlot
<1>3. CASE Opened(r, TRUE) /\ lruCache' = lruCache
  <2>1. PICK x \in ReaderStates : /\ x.at # "using" /\ Slot(x) = 1
                                  /\ reader' = [reader EXCEPT ![r] = x]
    BY <1>1, <1>2, <1>3, OpenLeaves
  <2>2. CacheStateOK(reader', lruCache)
    BY <1>2, <2>1, ReaderKeeps DEF CacheInv
  <2> QED BY <1>3, <2>2 DEF CacheInv
<1>4. CASE OpenFailed(r) /\ lruCache' = CloseFile(lruCache, TRUE)
  <2>1. PICK x \in ReaderStates : /\ x.at # "using" /\ Slot(x) = 0
                                  /\ reader' = [reader EXCEPT ![r] = x]
    BY <1>1, <1>2, <1>4, OpenLeaves
  <2>2. PICK a : a = lruCache.allowed + 1
    OBVIOUS
  <2>3. /\ a \in Nat /\ a + Slot(x) = lruCache.allowed + Slot(reader[r])
        /\ lruCache' = [lruCache EXCEPT !.allowed = a]
    BY <1>1, <1>2, <1>4, <2>1, <2>2 DEF CloseFile
  <2>4. CacheStateOK(reader', lruCache')
    BY <1>2, <2>1, <2>3, OpeningKeeps DEF CacheInv
  <2> QED BY <2>4 DEF CacheInv
<1> QED BY <1>3, <1>4 DEF MapFile

LEMMA OpenTableKeeps ==
    ASSUME NEW r \in Readers, CacheInv, OpenTable(r)
    PROVE  CacheInv'
<1>1. /\ reader \in [Readers -> ReaderStates] /\ lruCache.allowed \in Nat
      /\ lruCache = [lruCache EXCEPT !.allowed = lruCache.allowed]
  BY DEF CacheInv, CacheStateOK, CacheOK, Accounts, IsCache
<1>2. PICK y \in ReaderStates : y = reader[r]
  BY <1>1
<1>3. /\ y = [at |-> "table", file |-> y.file, mmap |-> y.mmap]
      /\ y.file \in Files /\ y.mmap \in BOOLEAN /\ y.at = "table"
  BY <1>2, StateShape DEF OpenTable, At
<1>4. y.at # "using" /\ Slot(y) = (IF y.mmap THEN 1 ELSE 0)
  BY <1>3 DEF Slot, HasSlot
<1>5. CASE reader' = [reader EXCEPT ![r].at = "insert"] /\ lruCache' = lruCache
  <2>1. PICK x : x = [at |-> "insert", file |-> y.file, mmap |-> y.mmap]
    OBVIOUS
  <2>2. x \in ReaderStates /\ x.at # "using" /\ Slot(x) = Slot(y)
    BY <1>3, <1>4, <2>1 DEF ReaderStates, Slot, HasSlot
  <2>3. reader' = [reader EXCEPT ![r] = x]
    <3>1. x = [y EXCEPT !.at = "insert"]
      BY <1>3, <2>1
    <3> QED BY <1>2, <1>5, <3>1
  <2>4. CacheStateOK(reader', lruCache)
    BY <1>2, <1>4, <2>2, <2>3, ReaderKeeps DEF CacheInv
  <2> QED BY <1>5, <2>4 DEF CacheInv
<1>6. CASE /\ reader' = [reader EXCEPT ![r] = Idle]
           /\ lruCache' = CloseFile(lruCache, reader[r].mmap)
  <2>1. PICK x : x = Idle
    OBVIOUS
  <2>2. x \in ReaderStates /\ x.at # "using" /\ Slot(x) = 0
    BY <2>1 DEF ReaderStates, Slot, HasSlot, Idle
  <2>3. PICK a : a = lruCache.allowed + Slot(y)
    OBVIOUS
  <2>4. a \in Nat /\ a + Slot(x) = lruCache.allowed + Slot(y)
    BY <1>1, <1>4, <2>2, <2>3
  <2>5. lruCache' = [lruCache EXCEPT !.allowed = a]
    <3>1. CASE y.mmap
      BY <1>2, <1>4, <1>6, <2>3, <3>1 DEF CloseFile
    <3>2. CASE ~ y.mmap
      <4>1. a = lruCache.allowed
        BY <1>1, <1>4, <2>3, <3>2
      <4>2. lruCache' = lruCache
        BY <1>2, <1>6, <3>2 DEF CloseFile
      <4> QED BY <1>1, <4>1, <4>2
    <3> QED BY <3>1, <3>2
  <2>6. /\ reader' = [reader EXCEPT ![r] = x] /\ reader[r].at # "using"
        /\ a + Slot(x) = lruCache.allowed + Slot(reader[r])
    BY <1>2, <1>4, <1>6, <2>1, <2>4
  <2>7. CacheStateOK(reader', lruCache')
    BY <2>2, <2>4, <2>5, <2>6, OpeningKeeps DEF CacheInv
  <2> QED BY <2>7 DEF CacheInv
<1> QED BY <1>5, <1>6 DEF OpenTable

LEMMA InsertTableKeeps ==
    ASSUME NEW r \in Readers, CacheInv, InsertTable(r)
    PROVE  CacheInv'
<1> DEFINE held == HeldBy(reader)
           m == MmapLimit - Cardinality(OpeningOf(reader))
<1>1. /\ reader \in [Readers -> ReaderStates] /\ UsingOK(reader, lruCache.entries)
      /\ CacheOK(lruCache, held, m)
  BY DEF CacheInv, CacheStateOK
<1>2. PICK y \in ReaderStates : y = reader[r]
  BY <1>1
<1>3. y.file \in Files /\ y.mmap \in BOOLEAN /\ y.at = "insert"
  BY <1>2, StateShape DEF InsertTable, At
<1>4. y.at # "using" /\ Slot(y) = (IF y.mmap THEN 1 ELSE 0)
  BY <1>3 DEF Slot, HasSlot
<1>5. PICK h : h = NewHandle(lruCache)
  OBVIOUS
<1>6. PICK d : d = Insert(lruCache, y.file, y.mmap)
  OBVIOUS
<1>7. /\ h \in Nat /\ held[h] = 0
      /\ CacheOK(d, [held EXCEPT ![h] = 1], m + (IF y.mmap THEN 1 ELSE 0)) /\ Trimmed(d)
      /\ \A x \in DOMAIN d.entries :
            d.entries[x].key = IF x = h THEN y.file ELSE lruCache.entries[x].key
      /\ h \in DOMAIN d.entries
  <2>1. Counts(held)
    BY HeldIsCount
  <2> QED BY <1>1, <1>3, <1>5, <1>6, <2>1, CacheInsertKeeps
<1>8. PICK x : x = [at |-> "using", file |-> y.file, handle |-> h]
  OBVIOUS
<1>9. /\ x \in ReaderStates /\ x.at = "using" /\ x.handle = h /\ x.file = y.file
      /\ Slot(x) = 0
  BY <1>3, <1>7, <1>8 DEF ReaderStates, Slot, HasSlot
<1>10. PICK t : t = [reader EXCEPT ![r] = x]
  OBVIOUS
<1>11. /\ Moves(reader, t, r, x) /\ t \in [Readers -> ReaderStates]
       /\ t[r] = x /\ \A p \in Readers : p # r => t[p] = reader[p]
  BY <1>1, <1>9, <1>10, MovesStays
<1>12. HeldBy(t) = [held EXCEPT ![h] = 1]
  <2>1. HeldBy(t) = [held EXCEPT ![h] = held[h] + 1]
    BY <1>2, <1>4, <1>7, <1>9, <1>11, HeldMore
  <2> QED BY <1>7, <2>1
<1>13. m + (IF y.mmap THEN 1 ELSE 0) = MmapLimit - Cardinality(OpeningOf(t))
  <2>1. Cardinality(OpeningOf(t)) = Cardinality(OpeningOf(reader)) - Slot(y) + Slot(x)
    BY <1>2, <1>11, OpeningMoves
  <2>2. Cardinality(OpeningOf(reader)) \in Nat
    BY HeldIsCount
  <2> QED BY <1>4, <1>9, <2>1, <2>2, CacheAssumption
<1> HIDE DEF m
<1>14. CacheOK(d, HeldBy(t), MmapLimit - Cardinality(OpeningOf(t)))
  BY <1>7, <1>12, <1>13
<1>15. UsingOK(t, d.entries)
  <2>1. ASSUME NEW p \in Readers, t[p].at = "using"
        PROVE  t[p].handle \in DOMAIN d.entries /\ d.entries[t[p].handle].key = t[p].file
    <3>1. CASE p = r
      BY <1>7, <1>9, <1>11, <3>1
    <3>2. CASE p # r
      <4>1. /\ t[p] = reader[p] /\ t[p].handle \in DOMAIN lruCache.entries
            /\ lruCache.entries[t[p].handle].key = t[p].file
        BY <1>1, <1>11, <2>1, <3>2 DEF UsingOK
      <4>2. t[p].handle \in Nat
        BY <1>11, <2>1, StateShape
      <4>3. t[p].handle \in DOMAIN d.entries
        BY <1>14, <2>1, <4>2, HeldIsEntry
      <4>4. h \notin DOMAIN lruCache.entries
        <5>1. IsFiniteSet(DOMAIN lruCache.entries)
          BY <1>1 DEF CacheOK, EntriesOK
        <5> QED BY <1>5, <5>1, NewHandleIsNew
      <4> QED BY <1>7, <4>1, <4>3, <4>4
    <3> QED BY <3>1, <3>2
  <2> QED BY <2>1 DEF UsingOK
<1>16. CacheStateOK(t, d)
  BY <1>7, <1>11, <1>14, <1>15 DEF CacheStateOK
<1>17. lruCache' = d /\ reader' = t
  BY <1>2, <1>5, <1>6, <1>8, <1>10 DEF InsertTable
<1> QED BY <1>16, <1>17 DEF CacheInv

LEMMA ReleaseTableKeeps ==
    ASSUME NEW r \in Readers, CacheInv, ReleaseTable(r)
    PROVE  CacheInv'
<1> DEFINE held == HeldBy(reader)
           m == MmapLimit - Cardinality(OpeningOf(reader))
<1>1. /\ reader \in [Readers -> ReaderStates] /\ UsingOK(reader, lruCache.entries)
      /\ CacheOK(lruCache, held, m) /\ Trimmed(lruCache)
  BY DEF CacheInv, CacheStateOK
<1>2. PICK h : h = reader[r].handle
  OBVIOUS
<1>3. reader[r].at = "using" /\ h \in Nat /\ Slot(reader[r]) = 0
  BY <1>1, <1>2, StateShape DEF ReleaseTable, At, Slot, HasSlot
<1>4. PICK d : d = Unref(lruCache, h)
  OBVIOUS
<1>5. PICK x : x = Idle
  OBVIOUS
<1>6. x \in ReaderStates /\ x.at # "using" /\ Slot(x) = 0
  BY <1>5 DEF ReaderStates, Slot, HasSlot, Idle
<1>7. PICK t : t = [reader EXCEPT ![r] = x]
  OBVIOUS
<1>8. /\ Moves(reader, t, r, x) /\ t \in [Readers -> ReaderStates]
      /\ t[r] = x /\ \A p \in Readers : p # r => t[p] = reader[p]
  BY <1>1, <1>6, <1>7, MovesStays
<1>9. HeldBy(t) = [held EXCEPT ![h] = held[h] - 1] /\ held[h] > 0
  BY <1>2, <1>3, <1>6, <1>8, HeldFewer
<1>10. Cardinality(OpeningOf(t)) = Cardinality(OpeningOf(reader))
  BY <1>3, <1>6, <1>8, OpeningMoves, HeldIsCount
<1>11. /\ CacheOK(d, [held EXCEPT ![h] = held[h] - 1], m) /\ Trimmed(d)
       /\ EntriesOf(d, lruCache)
  <2>1. Counts(held)
    BY HeldIsCount
  <2> QED BY <1>1, <1>3, <1>4, <1>9, <2>1, ReleaseKeeps
<1>12. CacheOK(d, HeldBy(t), MmapLimit - Cardinality(OpeningOf(t)))
  BY <1>9, <1>10, <1>11
<1>13. UsingOK(t, d.entries)
  <2>1. ASSUME NEW p \in Readers, t[p].at = "using"
        PROVE  t[p].handle \in DOMAIN d.entries /\ d.entries[t[p].handle].key = t[p].file
    <3>1. t[p].handle \in Nat
      BY <1>8, <2>1, StateShape
    <3>2. t[p].handle \in DOMAIN d.entries
      BY <1>12, <2>1, <3>1, HeldIsEntry
    <3>3. p # r
      BY <1>6, <1>8, <2>1
    <3> QED BY <1>1, <1>8, <1>11, <2>1, <3>2, <3>3 DEF UsingOK, EntriesOf
  <2> QED BY <2>1 DEF UsingOK
<1>14. CacheStateOK(t, d)
  BY <1>8, <1>11, <1>12, <1>13 DEF CacheStateOK
<1>15. lruCache' = d /\ reader' = t
  BY <1>2, <1>4, <1>5, <1>7 DEF ReleaseTable
<1> QED BY <1>14, <1>15 DEF CacheInv

LEMMA EvictKeeps ==
    ASSUME NEW f \in Files, CacheInv, Evict(f)
    PROVE  CacheInv'
<1> DEFINE held == HeldBy(reader)
           m == MmapLimit - Cardinality(OpeningOf(reader))
<1>1. /\ reader \in [Readers -> ReaderStates] /\ UsingOK(reader, lruCache.entries)
      /\ CacheOK(lruCache, held, m) /\ Trimmed(lruCache)
  BY DEF CacheInv, CacheStateOK
<1>2. PICK d : d = Erase(lruCache, f)
  OBVIOUS
<1>3. CacheOK(d, held, m) /\ Trimmed(d) /\ EntriesOf(d, lruCache)
  <2>1. Counts(held)
    BY HeldIsCount
  <2> QED BY <1>1, <1>2, <2>1, EraseKeeps
<1>4. UsingOK(reader, d.entries)
  <2>1. ASSUME NEW p \in Readers, reader[p].at = "using"
        PROVE  /\ reader[p].handle \in DOMAIN d.entries
               /\ d.entries[reader[p].handle].key = reader[p].file
    <3>1. reader[p].handle \in Nat
      BY <1>1, <2>1, StateShape
    <3>2. reader[p].handle \in DOMAIN d.entries
      BY <1>3, <2>1, <3>1, HeldIsEntry
    <3> QED BY <1>1, <1>3, <2>1, <3>2 DEF UsingOK, EntriesOf
  <2> QED BY <2>1 DEF UsingOK
<1>5. CacheStateOK(reader, d)
  BY <1>1, <1>3, <1>4 DEF CacheStateOK
<1> QED BY <1>2, <1>5 DEF Evict, CacheInv

LEMMA CacheInitHolds ==
    ASSUME CacheInit
    PROVE  CacheInv
<1>1. PICK c : c = EmptyCache
  OBVIOUS
<1>2. PICK s : s = [r \in Readers |-> Idle]
  OBVIOUS
<1>3. /\ s \in [Readers -> ReaderStates]
      /\ \A r \in Readers : s[r].at = "idle" /\ ~ HasSlot(s[r])
  BY <1>2 DEF ReaderStates, Idle, HasSlot
<1>4. HeldBy(s) = [h \in Nat |-> 0]
  <2>1. \A h \in Nat : HoldersOf(s, h) = {}
    BY <1>3 DEF HoldersOf
  <2> QED BY <2>1, FS_EmptySet DEF HeldBy
<1>5. Cardinality(OpeningOf(s)) = 0
  <2>1. OpeningOf(s) = {}
    BY <1>3 DEF OpeningOf
  <2> QED BY <2>1, FS_EmptySet
<1>6. /\ IsCache(c) /\ c.entries = <<>> /\ c.lru = <<>> /\ c.elems = 0
      /\ c.usage = 0 /\ c.allowed = MmapLimit
      /\ c.table = [b \in 1 .. MinBuckets |-> {}]
  BY <1>1 DEF EmptyCache, IsCache
<1>7. Range(c.lru) = {} /\ IsList(c.lru)
  BY <1>6 DEF Range, IsList, IsInjective
<1>8. EntriesOK(c.entries, Refs(HeldBy(s), Range(c.lru)))
  <2>1. DOMAIN c.entries = {} /\ c.entries = [h \in DOMAIN c.entries |-> c.entries[h]]
    BY <1>6
  <2>2. \A h \in Nat : Refs(HeldBy(s), Range(c.lru))[h] = 0
    BY <1>4, <1>7 DEF Refs
  <2> QED BY <2>1, <2>2, FS_EmptySet DEF EntriesOK
<1>9. Accounts(c, MmapLimit)
  <2>1. Usage(c) = 0
    <3>1. PICK g : /\ IsTotal(g, Weights(c.entries), DOMAIN c.entries)
                   /\ Usage(c) = g[DOMAIN c.entries]
      BY <1>8, UsageIsTotal
    <3>2. DOMAIN c.entries = {}
      BY <1>6
    <3> QED BY <3>1, <3>2 DEF IsTotal
  <2>2. Cardinality(Mapped(c)) = 0
    <3>1. Mapped(c) = {}
      BY <1>6 DEF Mapped
    <3> QED BY <3>1, FS_EmptySet
  <2> QED BY <1>6, <2>1, <2>2, CacheAssumption DEF Accounts
<1>10. ChainsOK(c.table, c.elems, c.entries, Range(c.lru))
  <2>1. c.table \in Seq(SUBSET Nat) /\ Len(c.table) = MinBuckets
    BY <1>6, CacheAssumption
  <2>2. \A b \in 1 .. Len(c.table) : c.table[b] = {}
    BY <1>6, <2>1
  <2>3. PICK L : L = Range(c.lru)
    OBVIOUS
  <2>4. L = {} /\ Cardinality(L) = 0 /\ IsFiniteSet(L)
    BY <1>7, <2>3, FS_EmptySet
  <2>5. /\ L \subseteq DOMAIN c.entries
        /\ \A g, h \in L : c.entries[g].key = c.entries[h].key => g = h
        /\ \A b \in 1 .. Len(c.table) :
              c.table[b] = {h \in L : Bucket(c.table, c.entries[h].key) = b}
    BY <2>2, <2>4
  <2>6. Len(c.table) > 0
    BY <2>1, CacheAssumption
  <2>7. c.elems = Cardinality(L)
    BY <1>6, <2>4
  <2>8. ChainsOK(c.table, c.elems, c.entries, L)
    BY <2>1, <2>4, <2>5, <2>6, <2>7 DEF ChainsOK
  <2> QED BY <2>3, <2>8
<1>11. Trimmed(c) /\ UsingOK(s, c.entries)
  BY <1>3, <1>6 DEF Trimmed, UsingOK
<1>12. CacheStateOK(s, c)
  <2>1. MmapLimit - Cardinality(OpeningOf(s)) = MmapLimit
    BY <1>5, CacheAssumption
  <2> QED BY <1>3, <1>6, <1>7, <1>8, <1>9, <1>10, <1>11, <2>1 DEF CacheStateOK, CacheOK
<1> QED BY <1>1, <1>2, <1>12 DEF CacheInit, CacheInv

LEMMA CacheStepKeeps ==
    ASSUME CacheInv, [CacheNext]_cacheVars
    PROVE  CacheInv'
<1>1. CASE UNCHANGED cacheVars
  BY <1>1 DEF CacheInv, cacheVars
<1>2. ASSUME NEW r \in Readers, NEW f \in Files, FindTable(r, f) PROVE CacheInv'
  BY <1>2, FindTableKeeps
<1>3. ASSUME NEW r \in Readers, OpenFile(r) PROVE CacheInv'
  BY <1>3, OpenFileKeeps
<1>4. ASSUME NEW r \in Readers, AcquireSlot(r) PROVE CacheInv'
  BY <1>4, AcquireSlotKeeps
<1>5. ASSUME NEW r \in Readers, MapFile(r) PROVE CacheInv'
  BY <1>5, MapFileKeeps
<1>6. ASSUME NEW r \in Readers, OpenTable(r) PROVE CacheInv'
  BY <1>6, OpenTableKeeps
<1>7. ASSUME NEW r \in Readers, InsertTable(r) PROVE CacheInv'
  BY <1>7, InsertTableKeeps
<1>8. ASSUME NEW r \in Readers, ReleaseTable(r) PROVE CacheInv'
  BY <1>8, ReleaseTableKeeps
<1>9. ASSUME NEW f \in Files, Evict(f) PROVE CacheInv'
  BY <1>9, EvictKeeps
<1> QED BY <1>1, <1>2, <1>3, <1>4, <1>5, <1>6, <1>7, <1>8, <1>9 DEF CacheNext

(***************************************************************************)
(* The properties, from the invariant.                                     *)
(***************************************************************************)
LEMMA InvOutlives ==
    ASSUME CacheInv
    PROVE  TablesOutliveReaders
<1> DEFINE c == lruCache
<1>1. /\ reader \in [Readers -> ReaderStates] /\ UsingOK(reader, c.entries)
      /\ IsList(c.lru) /\ EntriesOK(c.entries, Refs(HeldBy(reader), Range(c.lru)))
      /\ ChainsOK(c.table, c.elems, c.entries, Range(c.lru))
  BY DEF CacheInv, CacheStateOK, CacheOK
<1>2. Listed = Range(c.lru)
  BY DEF Listed
<1>3. ASSUME NEW h \in DOMAIN c.entries
      PROVE  /\ c.entries[h].refs = Cardinality(Holders(h)) + (IF h \in Listed THEN 1 ELSE 0)
             /\ h \in Listed <=> TableLookup(c, c.entries[h].key) = {h}
  <2>1. h \in Nat /\ c.entries[h].refs = Refs(HeldBy(reader), Range(c.lru))[h]
        /\ c.entries[h].key \in Files
    BY <1>1 DEF EntriesOK
  <2>2. Holders(h) = HoldersOf(reader, h)
    BY DEF Holders, HoldersOf, At
  <2>3. Refs(HeldBy(reader), Range(c.lru))[h]
          = Cardinality(Holders(h)) + (IF h \in Listed THEN 1 ELSE 0)
    BY <1>2, <2>1, <2>2 DEF Refs, HeldBy
  <2>4. TableLookup(c, c.entries[h].key) = {x \in Range(c.lru) : c.entries[x].key = c.entries[h].key}
    BY <1>1, <2>1, LookupFinds
  <2>5. h \in Listed <=> TableLookup(c, c.entries[h].key) = {h}
    BY <1>1, <1>2, <2>4 DEF ChainsOK
  <2> QED BY <2>1, <2>3, <2>5
<1>4. \A r \in Readers : At(r, "using") =>
         /\ reader[r].handle \in DOMAIN c.entries
         /\ c.entries[reader[r].handle].key = reader[r].file
  BY <1>1 DEF UsingOK, At
<1>5. Listed \subseteq DOMAIN c.entries /\ IsInjective(c.lru) /\ c.elems = Cardinality(Listed)
  BY <1>1, <1>2 DEF ChainsOK, IsList
<1> QED BY <1>3, <1>4, <1>5 DEF TablesOutliveReaders

LEMMA InvAccounts ==
    ASSUME CacheInv
    PROVE  ResourcesAccounted
<1> DEFINE c == lruCache
<1>1. /\ Accounts(c, MmapLimit - Cardinality(OpeningOf(reader))) /\ Trimmed(c)
      /\ EntriesOK(c.entries, Refs(HeldBy(reader), Range(c.lru)))
  BY DEF CacheInv, CacheStateOK, CacheOK
<1>2. Opening = OpeningOf(reader)
  BY DEF Opening, OpeningOf, HasSlot, At
<1>3. Cardinality(Opening) \in Nat /\ Cardinality(Mapped(c)) \in Nat
  BY <1>1, <1>2, HeldIsCount, MappedFinite
<1>4. c.allowed \in Nat /\ c.allowed + Cardinality(Mapped(c)) = MmapLimit - Cardinality(Opening)
  BY <1>1, <1>2 DEF Accounts
<1>5. c.allowed + Cardinality(Mapped(c)) + Cardinality(Opening) = MmapLimit /\ c.allowed >= 0
  BY <1>3, <1>4, CacheAssumption
<1>6. c.usage = Usage(c) /\ (c.usage > Capacity => c.lru = <<>>)
  BY <1>1 DEF Accounts, Trimmed
<1> QED BY <1>5, <1>6 DEF ResourcesAccounted

(***************************************************************************)
(* The invariant holds of every execution: the reference count of a handle *)
(* is the number of its readers, one more while it is listed; the chains   *)
(* of the hash table are the list, by bucket; usage_ is the charge of the  *)
(* open tables; and every mmap slot is in the limiter or with one file.    *)
(***************************************************************************)
THEOREM CacheInvariant == CacheSpec => []CacheInv
<1>1. CacheInit => CacheInv
  BY CacheInitHolds
<1>2. CacheInv /\ [CacheNext]_cacheVars => CacheInv'
  BY CacheStepKeeps
<1> QED BY <1>1, <1>2, PTL DEF CacheSpec

(***************************************************************************)
(* A table is closed exactly when the cache and every reader have dropped  *)
(* it, and a reader's handle stays the table it asked for, whatever was    *)
(* evicted, replaced or rehashed meanwhile (LRUCache::Unref, Insert,       *)
(* Erase; TableCache::FindTable), for every number of threads and files,   *)
(* every hash and every capacity.                                          *)
(***************************************************************************)
THEOREM CacheTablesOutliveReaders == CacheSpec => []TablesOutliveReaders
<1>1. CacheInv => TablesOutliveReaders
  BY InvOutlives
<1> QED BY <1>1, CacheInvariant, PTL

(***************************************************************************)
(* usage_ is exact and above capacity_ only when nothing is left to evict  *)
(* (LRUCache::Insert); no mmap slot is lost or given out twice, whichever  *)
(* way an open fails (MmapLimiter, NewRandomAccessFile, Table::Open).      *)
(***************************************************************************)
THEOREM CacheResourcesAccounted == CacheSpec => []ResourcesAccounted
<1>1. CacheInv => ResourcesAccounted
  BY InvAccounts
<1> QED BY <1>1, CacheInvariant, PTL
==============================================================================
