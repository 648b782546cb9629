-------------------------- MODULE VersionSet_proofs --------------------------
(***************************************************************************)
(* Proofs about VersionSet: below level 0 the tables of a level do not     *)
(* overlap, for every number of keys, levels, tables and entries, and in   *)
(* whatever order writes, flushes and compactions come.                    *)
(***************************************************************************)
EXTENDS VersionSet, Induction, SequenceTheorems

-----------------------------------------------------------------------------
(* Entries                                                                 *)

(* Finitely many entries, each with a sequence number of its own. *)
Sound(E) == /\ IsFiniteSet(E)
            /\ \A e \in E : e.key \in Nat /\ e.seq \in Nat
            /\ \A a, b \in E : a.seq = b.seq => a = b
ByKey(E) == {p \in E \X E : Precedes(p[1], p[2])}

(* A part of sound entries is sound. *)
LEMMA SoundPart ==
    ASSUME NEW E, Sound(E), NEW T, T \subseteq E
    PROVE  Sound(T)
<1>1. IsFiniteSet(T)
  BY FS_Subset DEF Sound
<1> QED BY <1>1 DEF Sound

(* The order of internal keys is strict and total. *)
LEMMA KeyOrder ==
    ASSUME NEW E, Sound(E)
    PROVE  /\ \A a \in E : ~ Precedes(a, a)
           /\ \A a, b \in E : a = b \/ Precedes(a, b) \/ Precedes(b, a)
           /\ \A a, b \in E : Precedes(a, b) => ~ Precedes(b, a)
           /\ \A a, b, c \in E : Precedes(a, b) /\ Precedes(b, c) => Precedes(a, c)
           /\ Orders(ByKey(E), E)
<1>1. /\ \A e \in E : e.key \in Nat /\ e.seq \in Nat
      /\ \A a, b \in E : a.seq = b.seq => a = b
  BY DEF Sound
<1>2. /\ \A a \in E : ~ Precedes(a, a)
      /\ \A a, b \in E : a = b \/ Precedes(a, b) \/ Precedes(b, a)
      /\ \A a, b \in E : Precedes(a, b) => ~ Precedes(b, a)
      /\ \A a, b, c \in E : Precedes(a, b) /\ Precedes(b, c) => Precedes(a, c)
  BY <1>1 DEF Precedes
<1>3. \A a, b \in E : <<a, b>> \in ByKey(E) <=> Precedes(a, b)
  BY DEF ByKey
<1>4. Orders(ByKey(E), E)
  BY <1>2, <1>3 DEF Orders
<1> QED BY <1>2, <1>4

(***************************************************************************)
(* The merging iterator comes to the entries in order.                     *)
(***************************************************************************)
LEMMA EntriesInOrder ==
    ASSUME NEW E, Sound(E)
    PROVE  /\ IsInOrder(Merged(E), E, ByKey(E))
           /\ Merged(E) \in Seq(E)
           /\ Len(Merged(E)) = Cardinality(E)
<1> DEFINE s == Merged(E)
           N == Cardinality(E)
<1>1. IsFiniteSet(E) /\ Orders(ByKey(E), E) /\ N \in Nat
  BY KeyOrder, FS_CardinalityType DEF Sound
<1>2. \A e \in E : BelowIn(ByKey(E), E, e) = {o \in E : Precedes(o, e)}
  BY DEF BelowIn, ByKey
<1>3. \A i \in 1 .. N : \E e \in E : Cardinality({o \in E : Precedes(o, e)}) = i - 1
  <2> SUFFICES ASSUME NEW i \in 1 .. N
               PROVE  \E e \in E : Cardinality({o \in E : Precedes(o, e)}) = i - 1
    OBVIOUS
  <2>1. PICK e \in E : Cardinality(BelowIn(ByKey(E), E, e)) = i - 1
    BY <1>1, RankExists
  <2> QED BY <1>2, <2>1
<1>4. s = [i \in 1 .. N |-> CHOOSE e \in E : Cardinality({o \in E : Precedes(o, e)}) = i - 1]
  BY DEF InOrder, Merged
<1>5. \A i \in 1 .. N : s[i] \in E /\ Cardinality({o \in E : Precedes(o, s[i])}) = i - 1
  <2> SUFFICES ASSUME NEW i \in 1 .. N
               PROVE  s[i] \in E /\ Cardinality({o \in E : Precedes(o, s[i])}) = i - 1
    OBVIOUS
  <2>1. s[i] = CHOOSE e \in E : Cardinality({o \in E : Precedes(o, e)}) = i - 1
    BY <1>4
  <2> HIDE DEF s
  <2> QED BY <1>3, <2>1
<1> HIDE DEF s
<1>6. s \in [1 .. N -> E]
  BY <1>4, <1>5
<1>7. \A i \in 1 .. N : Cardinality(BelowIn(ByKey(E), E, s[i])) = i - 1
  BY <1>2, <1>5
<1>8. IsInOrder(s, E, ByKey(E))
  BY <1>1, <1>6, <1>7, SortedByRank
<1>9. s \in Seq(E) /\ Len(s) = N
  BY <1>1, <1>6
<1> QED BY <1>8, <1>9 DEF s

(***************************************************************************)
(* Numbers in order.                                                       *)
(***************************************************************************)
Under(S) == {p \in S \X S : p[1] < p[2]}

(* Ascending lists the numbers of a finite set. *)
LEMMA NumbersInOrder ==
    ASSUME NEW S, IsFiniteSet(S), S \subseteq Nat, NEW s, s = Ascending(S)
    PROVE  /\ IsInOrder(s, S, Under(S))
           /\ s \in Seq(S) /\ Len(s) = Cardinality(S) /\ DOMAIN s = 1 .. Cardinality(S)
           /\ \A i, j \in DOMAIN s : i < j => s[i] < s[j]
<1> DEFINE N == Cardinality(S)
<1>1. Orders(Under(S), S) /\ N \in Nat
  <2>1. \A a, b \in S : <<a, b>> \in Under(S) <=> a < b
    BY DEF Under
  <2>2. \A a, b, c \in S : ~ (a < a) /\ (a = b \/ a < b \/ b < a) /\ (a < b /\ b < c => a < c)
    OBVIOUS
  <2> QED BY <2>1, <2>2, FS_CardinalityType DEF Orders
<1>2. \A e \in S : BelowIn(Under(S), S, e) = {o \in S : o < e}
  BY DEF BelowIn, Under
<1>3. \A i \in 1 .. N : \E e \in S : Cardinality({o \in S : o < e}) = i - 1
  <2> SUFFICES ASSUME NEW i \in 1 .. N
               PROVE  \E e \in S : Cardinality({o \in S : o < e}) = i - 1
    OBVIOUS
  <2>1. PICK e \in S : Cardinality(BelowIn(Under(S), S, e)) = i - 1
    BY <1>1, RankExists
  <2> QED BY <1>2, <2>1
<1>4. s = [i \in 1 .. N |-> CHOOSE e \in S : Cardinality({o \in S : o < e}) = i - 1]
  BY DEF InOrder, Ascending
<1>5. \A i \in 1 .. N : s[i] \in S /\ Cardinality({o \in S : o < s[i]}) = i - 1
  <2> SUFFICES ASSUME NEW i \in 1 .. N
               PROVE  s[i] \in S /\ Cardinality({o \in S : o < s[i]}) = i - 1
    OBVIOUS
  <2>1. s[i] = CHOOSE e \in S : Cardinality({o \in S : o < e}) = i - 1
    BY <1>4
  <2> QED BY <1>3, <2>1
<1>6. s \in [1 .. N -> S]
  BY <1>4, <1>5
<1>7. \A i \in 1 .. N : Cardinality(BelowIn(Under(S), S, s[i])) = i - 1
  BY <1>2, <1>5
<1>8. IsInOrder(s, S, Under(S))
  BY <1>1, <1>6, <1>7, SortedByRank
<1>9. s \in Seq(S) /\ Len(s) = N /\ DOMAIN s = 1 .. N
  BY <1>1, <1>6
<1>10. \A i, j \in 1 .. N : i < j => s[i] < s[j]
  BY <1>6, <1>8 DEF IsInOrder, Under
<1> QED BY <1>8, <1>9, <1>10

(***************************************************************************)
(* The elements of a sequence at some indices.                             *)
(***************************************************************************)
LEMMA ElementsKept ==
    ASSUME NEW S, NEW fs \in Seq(S), NEW I, I \subseteq DOMAIN fs, NEW z, z = ElementsAt(fs, I)
    PROVE  /\ z \in Seq(S) /\ Len(z) = Cardinality(I) /\ IsFiniteSet(I)
           /\ Range(z) = {fs[i] : i \in I}
           /\ z = <<>> <=> I = {}
<1>1. DOMAIN fs = 1 .. Len(fs) /\ Len(fs) \in Nat /\ I \subseteq Nat
  OBVIOUS
<1>2. IsFiniteSet(I)
  <2>1. IsFiniteSet(1 .. Len(fs))
    BY <1>1, FS_Interval
  <2> QED BY <1>1, <2>1, FS_Subset
<1>3. PICK at : at = Ascending(I)
  OBVIOUS
<1>4. /\ IsInOrder(at, I, Under(I))
      /\ at \in Seq(I) /\ DOMAIN at = 1 .. Cardinality(I)
  BY <1>1, <1>2, <1>3, NumbersInOrder
<1>5. z = [n \in 1 .. Cardinality(I) |-> fs[at[n]]]
  BY <1>3, <1>4 DEF ElementsAt
<1>6. Cardinality(I) \in Nat /\ (Cardinality(I) = 0 <=> I = {})
  BY <1>2, FS_CardinalityType, FS_EmptySet
<1>7. \A n \in 1 .. Cardinality(I) : at[n] \in I /\ fs[at[n]] \in S
  <2>1. at \in [1 .. Cardinality(I) -> I]
    BY <1>4 DEF IsInOrder
  <2>2. \A i \in I : fs[i] \in S
    BY <1>1
  <2> QED BY <2>1, <2>2
<1>8. z \in Seq(S) /\ Len(z) = Cardinality(I) /\ DOMAIN z = 1 .. Cardinality(I)
  BY <1>5, <1>6, <1>7
<1>9. \A i \in I : \E n \in DOMAIN z : z[n] = fs[i]
  <2> SUFFICES ASSUME NEW i \in I PROVE \E n \in DOMAIN z : z[n] = fs[i]
    OBVIOUS
  <2>1. PICK n \in 1 .. Cardinality(I) : at[n] = i
    BY <1>4 DEF IsInOrder
  <2> QED BY <1>5, <1>8, <2>1
<1>10. Range(z) = {fs[i] : i \in I}
  <2>1. \A n \in DOMAIN z : z[n] \in {fs[i] : i \in I}
    BY <1>5, <1>7, <1>8
  <2> QED BY <1>9, <2>1 DEF Range
<1>11. z = <<>> <=> I = {}
  BY <1>6, <1>8
<1> QED BY <1>2, <1>8, <1>10, <1>11

-----------------------------------------------------------------------------
(* Tables                                                                  *)

Low(f)  == SmallestEntry(f).key
High(f) == LargestEntry(f).key

(* f has some of the entries E. *)
IsTable(f, E) == f.entries \subseteq E /\ f.entries # {}

(* A table has a smallest and a largest entry, and its keys lie between. *)
LEMMA Ends ==
    ASSUME NEW E, Sound(E), NEW f, IsTable(f, E)
    PROVE  /\ SmallestEntry(f) \in f.entries /\ LargestEntry(f) \in f.entries
           /\ \A o \in f.entries : o = SmallestEntry(f) \/ Precedes(SmallestEntry(f), o)
           /\ \A o \in f.entries : o = LargestEntry(f) \/ Precedes(o, LargestEntry(f))
           /\ Low(f) \in Nat /\ High(f) \in Nat /\ Low(f) <= High(f)
           /\ \A o \in f.entries : Low(f) <= o.key /\ o.key <= High(f)
<1> DEFINE F == f.entries
           N == Cardinality(F)
<1>1. Sound(F) /\ F # {} /\ IsFiniteSet(F) /\ \A e \in F : e.key \in Nat /\ e.seq \in Nat
  BY SoundPart DEF IsTable, Sound
<1>2. N \in Nat /\ N # 0
  BY <1>1, FS_CardinalityType, FS_EmptySet
<1> HIDE DEF F
<1>3. PICK s : IsInOrder(s, F, ByKey(F))
  BY <1>1, EntriesInOrder
<1>4. /\ s \in [1 .. N -> F]
      /\ \A i, j \in 1 .. N : i < j <=> <<s[i], s[j]>> \in ByKey(F)
      /\ \A e \in F : \E i \in 1 .. N : s[i] = e
  BY <1>3 DEF IsInOrder
<1>5. 1 \in 1 .. N /\ N \in 1 .. N
  BY <1>2
<1>6. s[1] \in F /\ \A o \in F : o = s[1] \/ Precedes(s[1], o)
  <2> SUFFICES ASSUME NEW o \in F PROVE o = s[1] \/ Precedes(s[1], o)
    BY <1>4, <1>5
  <2>1. PICK i \in 1 .. N : s[i] = o
    BY <1>4
  <2>2. i = 1 \/ 1 < i
    BY <2>1
  <2> QED BY <1>4, <1>5, <2>1, <2>2 DEF ByKey
<1>7. s[N] \in F /\ \A o \in F : o = s[N] \/ Precedes(o, s[N])
  <2> SUFFICES ASSUME NEW o \in F PROVE o = s[N] \/ Precedes(o, s[N])
    BY <1>4, <1>5
  <2>1. PICK i \in 1 .. N : s[i] = o
    BY <1>4
  <2>2. i = N \/ i < N
    BY <1>2, <2>1
  <2> QED BY <1>4, <1>5, <2>1, <2>2 DEF ByKey
<1>8. SmallestEntry(f) \in F /\ \A o \in F : o = SmallestEntry(f) \/ Precedes(SmallestEntry(f), o)
  BY <1>6 DEF SmallestEntry, F
<1>9. LargestEntry(f) \in F /\ \A o \in F : o = LargestEntry(f) \/ Precedes(o, LargestEntry(f))
  BY <1>7 DEF LargestEntry, F
<1>10. \A o \in F : Low(f) <= o.key /\ o.key <= High(f) /\ Low(f) \in Nat /\ High(f) \in Nat
  BY <1>1, <1>8, <1>9 DEF Precedes, Low, High
<1>11. Low(f) \in Nat /\ High(f) \in Nat /\ Low(f) <= High(f)
  BY <1>1, <1>8, <1>10
<1> QED BY <1>8, <1>9, <1>10, <1>11 DEF F

(***************************************************************************)
(* One table before another: all entries, or the ones at the ends.         *)
(***************************************************************************)
LiesBefore(A, B) == \A a \in A, b \in B : Precedes(a, b)

(* The ends of two tables tell which of them lies before the other. *)
LEMMA EndsTell ==
    ASSUME NEW E, Sound(E), NEW f, IsTable(f, E), NEW g, IsTable(g, E)
    PROVE  LiesBefore(f.entries, g.entries) <=> Precedes(LargestEntry(f), SmallestEntry(g))
<1>1. /\ SmallestEntry(g) \in g.entries /\ LargestEntry(f) \in f.entries
      /\ \A o \in g.entries : o = SmallestEntry(g) \/ Precedes(SmallestEntry(g), o)
      /\ \A o \in f.entries : o = LargestEntry(f) \/ Precedes(o, LargestEntry(f))
  BY Ends
<1>2. \A a, b, c \in E : Precedes(a, b) /\ Precedes(b, c) => Precedes(a, c)
  BY KeyOrder
<1>3. f.entries \subseteq E /\ g.entries \subseteq E
  BY DEF IsTable
<1>4. ASSUME Precedes(LargestEntry(f), SmallestEntry(g)),
             NEW a \in f.entries, NEW b \in g.entries
      PROVE  Precedes(a, b)
  <2>1. Precedes(a, SmallestEntry(g))
    BY <1>1, <1>2, <1>3, <1>4
  <2> QED BY <1>1, <1>2, <1>3, <2>1
<1> QED BY <1>1, <1>4 DEF LiesBefore

(* Of tables one after the other, the ranges of keys are in order. *)
LEMMA LiesBeforeOrder ==
    ASSUME NEW E, Sound(E), NEW f, IsTable(f, E), NEW g, IsTable(g, E)
    PROVE  /\ LiesBefore(f.entries, g.entries) => Low(f) <= Low(g) /\ High(f) <= High(g)
                                                  /\ High(f) <= Low(g)
           /\ LiesBefore(f.entries, g.entries) => ~ LiesBefore(g.entries, f.entries)
           /\ LiesBefore(f.entries, g.entries) => Precedes(SmallestEntry(f), SmallestEntry(g))
           /\ High(f) < Low(g) => LiesBefore(f.entries, g.entries)
<1>1. /\ SmallestEntry(f) \in f.entries /\ LargestEntry(f) \in f.entries
      /\ Low(f) \in Nat /\ High(f) \in Nat /\ Low(f) <= High(f)
      /\ \A o \in f.entries : Low(f) <= o.key /\ o.key <= High(f)
  BY Ends
<1>2. /\ SmallestEntry(g) \in g.entries /\ LargestEntry(g) \in g.entries
      /\ Low(g) \in Nat /\ High(g) \in Nat /\ Low(g) <= High(g)
      /\ \A o \in g.entries : Low(g) <= o.key /\ o.key <= High(g)
  BY Ends
<1>3. f.entries \subseteq E /\ g.entries \subseteq E /\ \A e \in E : e.key \in Nat /\ e.seq \in Nat
  BY DEF IsTable, Sound
<1>4. \A a, b \in E : Precedes(a, b) => a.key <= b.key /\ ~ Precedes(b, a)
  BY <1>3 DEF Precedes
<1>5. ASSUME LiesBefore(f.entries, g.entries)
      PROVE  /\ Low(f) <= Low(g) /\ High(f) <= High(g) /\ High(f) <= Low(g)
             /\ ~ LiesBefore(g.entries, f.entries)
             /\ Precedes(SmallestEntry(f), SmallestEntry(g))
  <2>1. Precedes(LargestEntry(f), SmallestEntry(g)) /\ Precedes(SmallestEntry(f), SmallestEntry(g))
    BY <1>1, <1>2, <1>5 DEF LiesBefore
  <2>2. High(f) <= Low(g)
    BY <1>1, <1>2, <1>3, <1>4, <2>1 DEF High, Low
  <2>3. ~ Precedes(SmallestEntry(g), SmallestEntry(f))
    BY <1>1, <1>2, <1>3, <1>4, <2>1
  <2>4. ~ LiesBefore(g.entries, f.entries)
    BY <1>1, <1>2, <2>3 DEF LiesBefore
  <2> QED BY <1>1, <1>2, <2>1, <2>2, <2>4
<1>6. ASSUME High(f) < Low(g) PROVE LiesBefore(f.entries, g.entries)
  <2> SUFFICES ASSUME NEW a \in f.entries, NEW b \in g.entries PROVE Precedes(a, b)
    BY DEF LiesBefore
  <2>1. a.key \in Nat /\ b.key \in Nat
    BY <1>3
  <2>2. a.key < b.key
    BY <1>1, <1>2, <1>6, <2>1
  <2> QED BY <2>2 DEF Precedes
<1> QED BY <1>5, <1>6

(* Every table of the level comes before every later one. *)
Chained(fs) == \A i, j \in DOMAIN fs : i < j => LiesBefore(fs[i].entries, fs[j].entries)
(* Of any two tables one comes before the other. *)
Apart(F) == \A f, g \in F : f = g \/ LiesBefore(f.entries, g.entries)
                                  \/ LiesBefore(g.entries, f.entries)

(* Neighbours in order, as the code asserts, means all tables in order. *)
LEMMA ChainedMeansDisjoint ==
    ASSUME NEW E, Sound(E), NEW S, \A f \in S : IsTable(f, E), NEW fs \in Seq(S)
    PROVE  Chained(fs) <=> Disjoint(fs)
<1>1. DOMAIN fs = 1 .. Len(fs) /\ Len(fs) \in Nat /\ \A i \in DOMAIN fs : fs[i] \in S
  OBVIOUS
<1>2. \A i, j \in DOMAIN fs : LiesBefore(fs[i].entries, fs[j].entries)
                                <=> Precedes(LargestEntry(fs[i]), SmallestEntry(fs[j]))
  BY <1>1, EndsTell
<1>3. ASSUME Chained(fs) PROVE Disjoint(fs)
  <2> SUFFICES ASSUME NEW i \in 1 .. Len(fs) - 1
               PROVE  Precedes(LargestEntry(fs[i]), SmallestEntry(fs[i + 1]))
    BY DEF Disjoint
  <2>1. i \in DOMAIN fs /\ i + 1 \in DOMAIN fs /\ i < i + 1
    BY <1>1
  <2>2. LiesBefore(fs[i].entries, fs[i + 1].entries)
    BY <1>3, <2>1 DEF Chained
  <2> QED BY <1>2, <2>1, <2>2
<1>4. ASSUME Disjoint(fs) PROVE Chained(fs)
  <2> DEFINE T == {d \in 0 .. Len(fs) : \A i \in DOMAIN fs :
                      d # 0 /\ i + d \in DOMAIN fs => LiesBefore(fs[i].entries, fs[i + d].entries)}
  <2>1. 0 \in T
    BY <1>1
  <2>2. ASSUME NEW d \in 1 .. Len(fs), d - 1 \in T PROVE d \in T
    <3> SUFFICES ASSUME NEW i \in DOMAIN fs, i + d \in DOMAIN fs
                 PROVE  LiesBefore(fs[i].entries, fs[i + d].entries)
      BY <1>1
    <3>1. PICK j : j = i + d - 1
      OBVIOUS
    <3>2. j \in DOMAIN fs /\ j + 1 = i + d /\ j \in 1 .. Len(fs) - 1 /\ j = i + (d - 1)
      BY <1>1, <3>1
    <3>3. LiesBefore(fs[j].entries, fs[j + 1].entries)
      BY <1>1, <1>2, <1>4, <3>2 DEF Disjoint
    <3>4. CASE d = 1
      <4>1. i = j
        BY <1>1, <3>2, <3>4
      <4> QED BY <3>2, <3>3, <4>1
    <3>5. CASE d # 1
      <4>1. LiesBefore(fs[i].entries, fs[j].entries)
        BY <1>1, <2>2, <3>2, <3>5
      <4>2. /\ IsTable(fs[i], E) /\ IsTable(fs[j], E) /\ IsTable(fs[j + 1], E)
        BY <1>1, <3>2
      <4>3. \A a, b, c \in E : Precedes(a, b) /\ Precedes(b, c) => Precedes(a, c)
        BY KeyOrder
      <4>4. PICK m : m \in fs[j].entries
        BY <4>2 DEF IsTable
      <4>5. LiesBefore(fs[i].entries, fs[j + 1].entries)
        BY <3>3, <4>1, <4>2, <4>3, <4>4 DEF LiesBefore, IsTable
      <4> QED BY <3>2, <4>5
    <3> QED BY <3>4, <3>5
  <2>3. \A d \in 0 .. Len(fs) : d \in T
    <3> HIDE DEF T
    <3> QED BY <1>1, <2>1, <2>2, Upwards
  <2>4. ASSUME NEW i \in DOMAIN fs, NEW j \in DOMAIN fs, i < j
        PROVE  LiesBefore(fs[i].entries, fs[j].entries)
    <3>1. j - i \in 0 .. Len(fs) /\ j - i # 0 /\ i + (j - i) = j
      BY <1>1, <2>4
    <3>2. j - i \in T
      BY <2>3, <3>1
    <3> QED BY <3>1, <3>2
  <2> QED BY <2>4 DEF Chained
<1> QED BY <1>3, <1>4

-----------------------------------------------------------------------------
(* The tables of a level                                                   *)

BySmallest(F) == {p \in F \X F : BySmallestKey(p[1], p[2])}
(* Tables that start at the same entry have different numbers. *)
Numbered(F) == \A f, g \in F : /\ f.number \in Nat
                               /\ SmallestEntry(f) = SmallestEntry(g) /\ f.number = g.number
                                     => f = g

(***************************************************************************)
(* A level has the tables it is made of, in the order of where they start. *)
(***************************************************************************)
LEMMA TablesInOrder ==
    ASSUME NEW E, Sound(E), NEW F, IsFiniteSet(F), \A f \in F : IsTable(f, E), Numbered(F),
           NEW z, z = Sorted(F)
    PROVE  /\ z \in Seq(F) /\ Range(z) = F
           /\ \A i, j \in DOMAIN z : i < j => BySmallestKey(z[i], z[j])
<1> DEFINE N == Cardinality(F)
<1>1. N \in Nat
  BY FS_CardinalityType
<1>2. \A f \in F : SmallestEntry(f) \in E /\ f.number \in Nat
  BY Ends DEF IsTable, Numbered
<1>3. /\ \A a \in E : ~ Precedes(a, a)
      /\ \A a, b \in E : a = b \/ Precedes(a, b) \/ Precedes(b, a)
      /\ \A a, b \in E : Precedes(a, b) => ~ Precedes(b, a)
      /\ \A a, b, c \in E : Precedes(a, b) /\ Precedes(b, c) => Precedes(a, c)
  BY KeyOrder
<1>4. \A f, g \in F : <<f, g>> \in BySmallest(F) <=> BySmallestKey(f, g)
  BY DEF BySmallest
<1>5. Orders(BySmallest(F), F)
  <2>1. \A f \in F : ~ BySmallestKey(f, f)
    BY <1>2, <1>3 DEF BySmallestKey
  <2>2. \A f, g \in F : f = g \/ BySmallestKey(f, g) \/ BySmallestKey(g, f)
    <3> SUFFICES ASSUME NEW f \in F, NEW g \in F, ~ BySmallestKey(f, g), ~ BySmallestKey(g, f)
                 PROVE  f = g
      OBVIOUS
    <3>1. SmallestEntry(f) = SmallestEntry(g)
      BY <1>2, <1>3 DEF BySmallestKey
    <3>2. ~ (f.number < g.number) /\ ~ (g.number < f.number)
      BY <3>1 DEF BySmallestKey
    <3>3. f.number = g.number
      BY <1>2, <3>2
    <3> QED BY <3>1, <3>3 DEF Numbered
  <2>3. \A f, g, h \in F : BySmallestKey(f, g) /\ BySmallestKey(g, h) => BySmallestKey(f, h)
    BY <1>2, <1>3 DEF BySmallestKey
  <2> QED BY <1>4, <2>1, <2>2, <2>3 DEF Orders
<1>6. \A f \in F : BelowIn(BySmallest(F), F, f) = {o \in F : BySmallestKey(o, f)}
  BY DEF BelowIn, BySmallest
<1>7. \A i \in 1 .. N : \E f \in F : Cardinality({o \in F : BySmallestKey(o, f)}) = i - 1
  <2> SUFFICES ASSUME NEW i \in 1 .. N
               PROVE  \E f \in F : Cardinality({o \in F : BySmallestKey(o, f)}) = i - 1
    OBVIOUS
  <2>1. PICK f \in F : Cardinality(BelowIn(BySmallest(F), F, f)) = i - 1
    BY <1>5, RankExists
  <2> QED BY <1>6, <2>1
<1>8. z = [i \in 1 .. N |-> CHOOSE f \in F : Cardinality({o \in F : BySmallestKey(o, f)}) = i - 1]
  BY DEF InOrder, Sorted
<1>9. \A i \in 1 .. N : z[i] \in F /\ Cardinality({o \in F : BySmallestKey(o, z[i])}) = i - 1
  <2> SUFFICES ASSUME NEW i \in 1 .. N
               PROVE  z[i] \in F /\ Cardinality({o \in F : BySmallestKey(o, z[i])}) = i - 1
    OBVIOUS
  <2>1. z[i] = CHOOSE f \in F : Cardinality({o \in F : BySmallestKey(o, f)}) = i - 1
    BY <1>8
  <2> QED BY <1>7, <2>1
<1>10. z \in [1 .. N -> F]
  BY <1>8, <1>9
<1>11. \A i \in 1 .. N : Cardinality(BelowIn(BySmallest(F), F, z[i])) = i - 1
  BY <1>6, <1>9
<1>12. IsInOrder(z, F, BySmallest(F))
  BY <1>5, <1>10, <1>11, SortedByRank
<1>13. z \in Seq(F) /\ DOMAIN z = 1 .. N
  BY <1>1, <1>10
<1>14. Range(z) = F
  BY <1>10, <1>12 DEF IsInOrder, Range
<1>15. \A i, j \in 1 .. N : i < j => BySmallestKey(z[i], z[j])
  BY <1>4, <1>10, <1>12 DEF IsInOrder
<1> QED BY <1>13, <1>14, <1>15

(***************************************************************************)
(* Tables that are apart follow each other in order.                       *)
(***************************************************************************)
LEMMA ApartInOrder ==
    ASSUME NEW E, Sound(E), NEW F, IsFiniteSet(F), \A f \in F : IsTable(f, E) /\ f.number \in Nat,
           Apart(F), NEW z, z = Sorted(F)
    PROVE  z \in Seq(F) /\ Range(z) = F /\ Chained(z)
<1>1. \A f, g \in F : LiesBefore(f.entries, g.entries)
                        => Precedes(SmallestEntry(f), SmallestEntry(g))
  BY LiesBeforeOrder
<1>2. /\ \A f \in F : SmallestEntry(f) \in E
      /\ \A a \in E : ~ Precedes(a, a)
      /\ \A a, b \in E : Precedes(a, b) => ~ Precedes(b, a)
  BY Ends, KeyOrder DEF IsTable
<1>3. Numbered(F)
  <2> SUFFICES ASSUME NEW f \in F, NEW g \in F, SmallestEntry(f) = SmallestEntry(g)
               PROVE  f = g
    BY DEF Numbered
  <2> QED BY <1>1, <1>2 DEF Apart
<1>4. /\ z \in Seq(F) /\ Range(z) = F
      /\ \A i, j \in DOMAIN z : i < j => BySmallestKey(z[i], z[j])
  BY <1>3, TablesInOrder
<1>5. ASSUME NEW i \in DOMAIN z, NEW j \in DOMAIN z, i < j
      PROVE  LiesBefore(z[i].entries, z[j].entries)
  <2>1. z[i] \in F /\ z[j] \in F /\ BySmallestKey(z[i], z[j])
    BY <1>4, <1>5
  <2>2. z[i].number \in Nat /\ z[j].number \in Nat
    BY <2>1
  <2>3. z[i] # z[j]
    BY <1>2, <2>1, <2>2 DEF BySmallestKey
  <2>4. ~ Precedes(SmallestEntry(z[j]), SmallestEntry(z[i]))
    BY <1>2, <2>1 DEF BySmallestKey
  <2> QED BY <1>1, <2>1, <2>3, <2>4 DEF Apart
<1> QED BY <1>4, <1>5 DEF Chained

-----------------------------------------------------------------------------
(* Ranges of user keys                                                     *)

Ranges == {r \in [lo : Nat, hi : Nat] : r.lo <= r.hi}
AllTables(S, E) == Sound(E) /\ \A f \in S : IsTable(f, E)

(* Finitely many entries have bounded keys. *)
LEMMA KeysBounded ==
    ASSUME NEW E, Sound(E)
    PROVE  \E b \in Nat : \A e \in E : e.key <= b
<1> DEFINE F == {T \in SUBSET E : \E b \in Nat : \A e \in T : e.key <= b}
<1>1. {} \in F
  OBVIOUS
<1>2. ASSUME NEW T \in SUBSET E, NEW x \in E \ T, T \in F PROVE T \cup {x} \in F
  <2>1. PICK b \in Nat : \A e \in T : e.key <= b
    BY <1>2
  <2>2. x.key \in Nat /\ \A e \in T : e.key \in Nat
    BY DEF Sound
  <2>3. b + x.key \in Nat /\ x.key <= b + x.key /\ \A e \in T : e.key <= b + x.key
    BY <2>1, <2>2
  <2>4. PICK c : c = b + x.key
    OBVIOUS
  <2>5. c \in Nat /\ \A e \in T \cup {x} : e.key <= c
    BY <2>3, <2>4
  <2> QED BY <2>5
<1>3. E \in F
  <2> HIDE DEF F
  <2> QED BY <1>1, <1>2, ElementByElement DEF Sound
<1> QED BY <1>3

(* LeastOf is the least element, *)
LEMMA LeastIs ==
    ASSUME NEW S, S \subseteq Nat, S # {}, NEW x, x = LeastOf(S)
    PROVE  x \in S /\ \A y \in S : x <= y
BY LeastExists DEF LeastOf

(* and GreatestOf the greatest. *)
LEMMA GreatestIs ==
    ASSUME NEW S, S \subseteq Nat, S # {}, NEW b \in Nat, \A y \in S : y <= b,
           NEW x, x = GreatestOf(S)
    PROVE  x \in S /\ \A y \in S : y <= x
<1>1. \E z \in S : \A y \in S : z >= y
  BY GreatestExists
<1> QED BY <1>1 DEF GreatestOf

(***************************************************************************)
(* The range of some tables is the smallest that has them all.             *)
(***************************************************************************)
IsRangeOf(r, F) == /\ r \in Ranges
                   /\ \A f \in F : r.lo <= Low(f) /\ High(f) <= r.hi
                   /\ \E f \in F : r.lo = Low(f)
                   /\ \E f \in F : r.hi = High(f)

(* RangeOf spans its tables. *)
LEMMA RangeOfTables ==
    ASSUME NEW E, NEW S, AllTables(S, E), NEW fs \in Seq(S), fs # <<>>
    PROVE  IsRangeOf(RangeOf(fs), Range(fs))
<1>1. \A f \in Range(fs) : f \in S /\ Low(f) \in Nat /\ High(f) \in Nat /\ Low(f) <= High(f)
  BY Ends DEF AllTables, Range
<1>2. fs[1] \in Range(fs)
  BY DEF Range
<1>3. PICK L : L = {SmallestEntry(f).key : f \in Range(fs)}
  OBVIOUS
<1>4. PICK H : H = {LargestEntry(f).key : f \in Range(fs)}
  OBVIOUS
<1>5. PICK b \in Nat : \A e \in E : e.key <= b
  BY KeysBounded DEF AllTables
<1>6. \A f \in Range(fs) : High(f) <= b
  <2> SUFFICES ASSUME NEW f \in Range(fs) PROVE High(f) <= b
    OBVIOUS
  <2>1. LargestEntry(f) \in f.entries /\ f.entries \subseteq E
    BY <1>1, Ends DEF AllTables, IsTable
  <2> QED BY <1>5, <2>1 DEF High
<1>7. L \subseteq Nat /\ L # {} /\ H \subseteq Nat /\ H # {} /\ \A y \in H : y <= b
  BY <1>1, <1>2, <1>3, <1>4, <1>6 DEF Low, High
<1>8. PICK r : r = RangeOf(fs)
  OBVIOUS
<1>9. r = [lo |-> LeastOf(L), hi |-> GreatestOf(H)]
  BY <1>3, <1>4, <1>8 DEF RangeOf
<1>10. r.lo \in L /\ \A y \in L : r.lo <= y
  BY <1>7, <1>9, LeastIs
<1>11. r.hi \in H /\ \A y \in H : y <= r.hi
  BY <1>7, <1>9, GreatestIs
<1>12. \A f \in Range(fs) : r.lo <= Low(f) /\ High(f) <= r.hi
  BY <1>3, <1>4, <1>10, <1>11 DEF Low, High
<1>13. (\E f \in Range(fs) : r.lo = Low(f)) /\ (\E f \in Range(fs) : r.hi = High(f))
  BY <1>3, <1>4, <1>10, <1>11 DEF Low, High
<1>14. r.lo \in Nat /\ r.hi \in Nat
  BY <1>7, <1>10, <1>11
<1>15. r.lo <= r.hi
  BY <1>1, <1>2, <1>12, <1>14
<1>16. r \in Ranges
  BY <1>9, <1>14, <1>15 DEF Ranges
<1> QED BY <1>8, <1>12, <1>13, <1>16 DEF IsRangeOf

(***************************************************************************)
(* A range that takes in some tables.                                      *)
(***************************************************************************)
LEMMA HullOf ==
    ASSUME NEW E, NEW S, AllTables(S, E), NEW fs \in Seq(S), NEW r \in Ranges,
           NEW g, g = Hull(r, fs)
    PROVE  /\ g \in Ranges /\ g.lo <= r.lo /\ r.hi <= g.hi
           /\ g.lo = r.lo \/ \E f \in Range(fs) : g.lo = Low(f)
           /\ g.hi = r.hi \/ \E f \in Range(fs) : g.hi = High(f)
<1>1. \A f \in Range(fs) : f \in S /\ Low(f) \in Nat /\ High(f) \in Nat /\ Low(f) <= High(f)
  BY Ends DEF AllTables, Range
<1>2. r.lo \in Nat /\ r.hi \in Nat /\ r.lo <= r.hi
  BY DEF Ranges
<1>3. PICK L : L = {r.lo} \cup {SmallestEntry(f).key : f \in Range(fs)}
  OBVIOUS
<1>4. PICK H : H = {r.hi} \cup {LargestEntry(f).key : f \in Range(fs)}
  OBVIOUS
<1>5. PICK b \in Nat : \A e \in E : e.key <= b
  BY KeysBounded DEF AllTables
<1>6. \A f \in Range(fs) : High(f) <= b
  <2> SUFFICES ASSUME NEW f \in Range(fs) PROVE High(f) <= b
    OBVIOUS
  <2>1. LargestEntry(f) \in f.entries /\ f.entries \subseteq E
    BY <1>1, Ends DEF AllTables, IsTable
  <2> QED BY <1>5, <2>1 DEF High
<1>7. PICK c \in Nat : b <= c /\ r.hi <= c
  <2>1. b + r.hi \in Nat /\ b <= b + r.hi /\ r.hi <= b + r.hi
    BY <1>2
  <2> QED BY <2>1
<1>8. \A f \in Range(fs) : High(f) <= c
  BY <1>1, <1>6, <1>7
<1>9. L \subseteq Nat /\ L # {} /\ H \subseteq Nat /\ H # {} /\ \A y \in H : y <= c
  BY <1>1, <1>2, <1>3, <1>4, <1>7, <1>8 DEF Low, High
<1>10. g = [lo |-> LeastOf(L), hi |-> GreatestOf(H)]
  BY <1>3, <1>4 DEF Hull
<1>11. g.lo \in L /\ g.lo <= r.lo
  <2>1. g.lo = LeastOf(L) /\ r.lo \in L
    BY <1>3, <1>10
  <2> QED BY <1>9, <2>1, LeastIs
<1>12. g.hi \in H /\ r.hi <= g.hi
  <2>1. g.hi = GreatestOf(H) /\ r.hi \in H
    BY <1>4, <1>10
  <2> QED BY <1>9, <2>1, GreatestIs
<1>13. g.lo = r.lo \/ \E f \in Range(fs) : g.lo = Low(f)
  BY <1>3, <1>11 DEF Low
<1>14. g.hi = r.hi \/ \E f \in Range(fs) : g.hi = High(f)
  BY <1>4, <1>12 DEF High
<1>15. g.lo \in Nat /\ g.hi \in Nat
  BY <1>9, <1>11, <1>12
<1>16. g \in Ranges
  BY <1>2, <1>10, <1>11, <1>12, <1>15 DEF Ranges
<1> QED BY <1>11, <1>12, <1>13, <1>14, <1>16

(* Meeting finds exactly the tables that meet the range. *)
LEMMA MeetingTables ==
    ASSUME NEW S, NEW fs \in Seq(S), NEW r, NEW z, z = Meeting(fs, r)
    PROVE  z \in Seq(S) /\ Range(z) = {f \in Range(fs) : Meets(f, r)}
<1>1. PICK I : I = {i \in DOMAIN fs : Meets(fs[i], r)}
  OBVIOUS
<1>2. z = ElementsAt(fs, I) /\ I \subseteq DOMAIN fs
  BY <1>1 DEF Meeting
<1>3. z \in Seq(S) /\ Range(z) = {fs[i] : i \in I}
  BY <1>2, ElementsKept
<1>4. {fs[i] : i \in I} = {f \in Range(fs) : Meets(f, r)}
  BY <1>1 DEF Range
<1> QED BY <1>3, <1>4

-----------------------------------------------------------------------------
(* Ranges without a gap                                                    *)

Misses(x, T) == \A t \in T : ~ Meets(t, x)
OneSide(x, T) == (\A t \in T : x.hi < Low(t)) \/ (\A t \in T : High(t) < x.lo)

(* What meets none of the tables is on one side of them all; of r.         *)
Gapless(T) == \A x \in Ranges : Misses(x, T) => OneSide(x, T)
Covered(T, r) == \A x \in Ranges : Misses(x, T) => x.hi < r.lo \/ r.hi < x.lo

(* A range beside r that misses a table which meets r is beside that table. *)
LEMMA MissedTable ==
    ASSUME NEW E, NEW S, AllTables(S, E), NEW t \in S, NEW r \in Ranges, Meets(t, r),
           NEW x \in Ranges, ~ Meets(t, x)
    PROVE  /\ x.hi < r.lo => x.hi < Low(t)
           /\ r.hi < x.lo => High(t) < x.lo
<1>1. Low(t) \in Nat /\ High(t) \in Nat /\ Low(t) <= High(t)
  BY Ends DEF AllTables
<1>2. r.lo \in Nat /\ r.hi \in Nat /\ x.lo \in Nat /\ x.hi \in Nat /\ x.lo <= x.hi
  BY DEF Ranges
<1>3. High(t) >= r.lo /\ Low(t) <= r.hi /\ ~ (High(t) >= x.lo /\ Low(t) <= x.hi)
  BY DEF Meets, High, Low
<1> QED BY <1>1, <1>2, <1>3

(* Tables that cover a range they all meet leave no gap. *)
LEMMA CoveredIsGapless ==
    ASSUME NEW E, NEW S, AllTables(S, E), NEW T, T \subseteq S, NEW r \in Ranges,
           Covered(T, r), \A t \in T : Meets(t, r)
    PROVE  Gapless(T)
<1> SUFFICES ASSUME NEW x \in Ranges, Misses(x, T) PROVE OneSide(x, T)
  BY DEF Gapless
<1>1. x.hi < r.lo \/ r.hi < x.lo
  BY DEF Covered
<1>2. \A t \in T : /\ x.hi < r.lo => x.hi < Low(t)
                   /\ r.hi < x.lo => High(t) < x.lo
  BY MissedTable DEF Misses
<1> QED BY <1>1, <1>2 DEF OneSide

(* Tables that cover a range cover what it grows to by tables that meet it. *)
LEMMA CoveredHull ==
    ASSUME NEW E, NEW S, AllTables(S, E), NEW T, T \subseteq S, NEW r \in Ranges, Covered(T, r),
           NEW M, M \subseteq T, \A t \in M : Meets(t, r), NEW g \in Ranges,
           g.lo = r.lo \/ \E t \in M : g.lo = Low(t),
           g.hi = r.hi \/ \E t \in M : g.hi = High(t)
    PROVE  Covered(T, g)
<1> SUFFICES ASSUME NEW x \in Ranges, Misses(x, T) PROVE x.hi < g.lo \/ g.hi < x.lo
  BY DEF Covered
<1>1. x.hi < r.lo \/ r.hi < x.lo
  BY DEF Covered
<1>2. \A t \in M : /\ x.hi < r.lo => x.hi < Low(t)
                   /\ r.hi < x.lo => High(t) < x.lo
  BY MissedTable DEF Misses
<1> QED BY <1>1, <1>2

(* More tables cover what some of them cover. *)
LEMMA CoveredMore ==
    ASSUME NEW T, NEW r, Covered(T, r), NEW U, T \subseteq U
    PROVE  Covered(U, r)
BY DEF Covered, Misses

(* A table covers its own range. *)
LEMMA RangeCoversOne ==
    ASSUME NEW E, NEW f, Sound(E), IsTable(f, E), NEW r, IsRangeOf(r, {f})
    PROVE  Covered({f}, r) /\ Meets(f, r)
<1>1. r \in Ranges /\ r.lo = Low(f) /\ r.hi = High(f)
  BY DEF IsRangeOf
<1>2. Low(f) \in Nat /\ High(f) \in Nat /\ Low(f) <= High(f)
  BY Ends
<1>3. Meets(f, r)
  BY <1>1, <1>2 DEF Meets, Low, High
<1>4. ASSUME NEW x \in Ranges, ~ Meets(f, x) PROVE x.hi < r.lo \/ r.hi < x.lo
  <2>1. x.lo \in Nat /\ x.hi \in Nat
    BY DEF Ranges
  <2>2. ~ (High(f) >= x.lo /\ Low(f) <= x.hi)
    BY <1>4 DEF Meets, High, Low
  <2> QED BY <1>1, <1>2, <2>1, <2>2
<1> QED BY <1>3, <1>4 DEF Covered, Misses

(* Every table meets the range that spans it. *)
LEMMA WithinMeets ==
    ASSUME NEW E, NEW S, AllTables(S, E), NEW F, F \subseteq S, NEW r, IsRangeOf(r, F)
    PROVE  \A f \in F : Meets(f, r)
<1> SUFFICES ASSUME NEW f \in F PROVE Meets(f, r)
  OBVIOUS
<1>1. Low(f) \in Nat /\ High(f) \in Nat /\ Low(f) <= High(f)
  BY Ends DEF AllTables
<1>2. r.lo \in Nat /\ r.hi \in Nat /\ r.lo <= Low(f) /\ High(f) <= r.hi
  BY DEF IsRangeOf, Ranges
<1>3. High(f) >= r.lo /\ Low(f) <= r.hi
  BY <1>1, <1>2
<1> QED BY <1>3 DEF Meets, High, Low

-----------------------------------------------------------------------------
(* Loops                                                                   *)

(* The rounds, by which loop they are of, over x. *)
RoundOf(which, x, n, z) ==
    IF which = "grown" THEN Grown(x, z)
    ELSE IF which = "best" THEN BetterOf(n, z)
    ELSE IF which = "bytes" THEN 10 * z
    ELSE MergeStep(x.c, z, x.merged[n])
LoopStep(which, x, a, N, f) ==
    [n \in 0 .. N |-> IF n = 0 THEN a ELSE RoundOf(which, x, n, f[n - 1])]

(* Each of the loops over levels or tables has a value at every round, *)
LEMMA LevelLoopRuns ==
    ASSUME NEW which, NEW x, NEW a, NEW N \in Nat
    PROVE  \E f : f = LoopStep(which, x, a, N, f)
<1> DEFINE Run(f, k) ==
              /\ DOMAIN f = 0 .. k /\ f = [n \in DOMAIN f |-> f[n]]
              /\ \A n \in 0 .. k : f[n] = IF n = 0 THEN a ELSE RoundOf(which, x, n, f[n - 1])
           T == {k \in 0 .. N : \E f : Run(f, k)}
<1>1. 0 \in T
  <2>1. PICK f : f = [n \in 0 .. 0 |-> a]
    OBVIOUS
  <2>2. Run(f, 0)
    BY <2>1
  <2>3. 0 \in 0 .. N
    OBVIOUS
  <2> HIDE DEF Run
  <2> QED BY <2>2, <2>3
<1>2. ASSUME NEW k \in 1 .. N, k - 1 \in T PROVE k \in T
  <2>1. PICK f : Run(f, k - 1)
    BY <1>2
  <2>2. PICK g : g = [n \in 0 .. k |-> IF n = k THEN RoundOf(which, x, k, f[k - 1]) ELSE f[n]]
    OBVIOUS
  <2>3. \A n \in 0 .. k - 1 : n \in 0 .. k /\ n # k /\ g[n] = f[n]
    BY <2>2
  <2>4. ASSUME NEW n \in 0 .. k
        PROVE  g[n] = IF n = 0 THEN a ELSE RoundOf(which, x, n, g[n - 1])
    <3>1. CASE n = k
      <4>1. g[n] = RoundOf(which, x, n, f[k - 1]) /\ g[k - 1] = f[k - 1] /\ n # 0
        BY <2>2, <2>3, <3>1
      <4> QED BY <3>1, <4>1
    <3>2. CASE n # k
      <4>1. n \in 0 .. k - 1
        BY <3>2
      <4>2. f[n] = IF n = 0 THEN a ELSE RoundOf(which, x, n, f[n - 1])
        BY <2>1, <4>1
      <4>3. n # 0 => n - 1 \in 0 .. k - 1
        BY <4>1
      <4> QED BY <2>3, <4>1, <4>2, <4>3
    <3> QED BY <3>1, <3>2
  <2>5. DOMAIN g = 0 .. k /\ g = [n \in DOMAIN g |-> g[n]]
    BY <2>2
  <2>6. Run(g, k)
    BY <2>4, <2>5
  <2>7. k \in 0 .. N
    OBVIOUS
  <2> HIDE DEF Run
  <2> QED BY <2>6, <2>7
<1>3. N \in T
  <2>1. \A k \in 0 .. N : k \in T
    <3> HIDE DEF T
    <3> QED BY <1>1, <1>2, Upwards
  <2> QED BY <2>1
<1>4. PICK f : Run(f, N)
  BY <1>3
<1>5. f = LoopStep(which, x, a, N, f)
  BY <1>4 DEF LoopStep
<1> QED BY <1>5

(* A loop's result: the last of N + 1 states of which each follows a round. *)
LoopOf(which, x, a, N) ==
    (CHOOSE f : f = [n \in 0 .. N |-> IF n = 0 THEN a ELSE RoundOf(which, x, n, f[n - 1])])[N]
LoopEnds(which, x, a, N, z) ==
    \E f : /\ f[0] = a /\ f[N] = z
           /\ \A i \in 1 .. N : f[i] = RoundOf(which, x, i, f[i - 1])

(* so its result is reached step by step from its start. *)
LEMMA LevelLoopResult ==
    ASSUME NEW which, NEW x, NEW a, NEW N \in Nat, NEW z, z = LoopOf(which, x, a, N)
    PROVE  LoopEnds(which, x, a, N, z)
<1>1. PICK loop : loop = CHOOSE f : f = LoopStep(which, x, a, N, f)
  OBVIOUS
<1>2. z = loop[N]
  BY <1>1 DEF LoopOf, LoopStep
<1>3. loop = LoopStep(which, x, a, N, loop)
  BY <1>1, LevelLoopRuns, Zenon
<1>4. loop[0] = a /\ \A i \in 1 .. N : loop[i] = RoundOf(which, x, i, loop[i - 1])
  <2>1. \A i \in 0 .. N :
           loop[i] = LoopStep(which, x, a, N, loop)[i]
    BY <1>3
  <2> QED BY <2>1 DEF LoopStep
<1> QED BY <1>2, <1>4 DEF LoopEnds

(***************************************************************************)
(* On level 0 the range grows while there are tables that meet it: what it *)
(* has grown to is covered if what it grew from was.                       *)
(***************************************************************************)
LEMMA GrownRangeCovers ==
    ASSUME NEW E, NEW S, AllTables(S, E), NEW fs \in Seq(S), NEW r \in Ranges,
           NEW T, T \subseteq S, NEW z, z = GrownRange(fs, r)
    PROVE  /\ z \in Ranges /\ z.lo <= r.lo /\ r.hi <= z.hi
           /\ Covered(T, r) => Covered(T \cup {f \in Range(fs) : Meets(f, z)}, z)
<1>1. Len(fs) \in Nat /\ \A f \in Range(fs) : f \in S
  BY DEF Range
<1>2. z = LoopOf("grown", fs, r, Len(fs))
  BY DEF GrownRange, LoopOf, RoundOf
<1>3. PICK a : /\ a[0] = r /\ a[Len(fs)] = z
               /\ \A i \in 1 .. Len(fs) : a[i] = RoundOf("grown", fs, i, a[i - 1])
  BY <1>1, <1>2, LevelLoopResult DEF LoopEnds
<1>4. \A i \in 1 .. Len(fs) : a[i] = Grown(fs, a[i - 1])
  BY <1>3 DEF RoundOf
<1> DEFINE At(y) == T \cup {f \in Range(fs) : Meets(f, y)}
           Fine(y) == /\ y \in Ranges /\ y.lo <= r.lo /\ r.hi <= y.hi
                      /\ Covered(T, r) => Covered(At(y), y)
           I == {i \in 0 .. Len(fs) : Fine(a[i])}
<1>5. 0 \in I
  <2>1. r.lo \in Nat /\ r.hi \in Nat
    BY DEF Ranges
  <2>2. Covered(T, r) => Covered(At(r), r)
    BY CoveredMore
  <2>3. Fine(a[0])
    BY <1>3, <2>1, <2>2
  <2> QED BY <1>1, <2>3
<1>6. ASSUME NEW i \in 1 .. Len(fs), i - 1 \in I PROVE i \in I
  <2>1. PICK y : y = a[i - 1]
    OBVIOUS
  <2>2. Fine(y)
    BY <1>6, <2>1
  <2>3. PICK ms : ms = Meeting(fs, y)
    OBVIOUS
  <2>4. ms \in Seq(S) /\ Range(ms) = {f \in Range(fs) : Meets(f, y)}
    BY <2>3, MeetingTables
  <2>5. PICK g : g = Hull(y, ms)
    OBVIOUS
  <2>6. a[i] = g
    BY <1>4, <2>1, <2>3, <2>5 DEF Grown
  <2>7. /\ g \in Ranges /\ g.lo <= y.lo /\ y.hi <= g.hi
        /\ g.lo = y.lo \/ \E f \in Range(ms) : g.lo = Low(f)
        /\ g.hi = y.hi \/ \E f \in Range(ms) : g.hi = High(f)
    BY <2>2, <2>4, <2>5, HullOf
  <2>8. /\ g.lo \in Nat /\ g.hi \in Nat /\ y.lo \in Nat /\ y.hi \in Nat
        /\ r.lo \in Nat /\ r.hi \in Nat
    BY <2>2, <2>7 DEF Ranges
  <2>9. g.lo <= r.lo /\ r.hi <= g.hi
    BY <2>2, <2>7, <2>8
  <2>10. ASSUME Covered(T, r) PROVE Covered(At(g), g)
    <3>1. PICK U : U = At(y)
      OBVIOUS
    <3>2. Covered(U, y) /\ U \subseteq S /\ Range(ms) \subseteq U /\ \A t \in Range(ms) : Meets(t, y)
      BY <1>1, <2>2, <2>4, <2>10, <3>1
    <3>3. Covered(U, g)
      BY <2>2, <2>7, <3>2, CoveredHull
    <3>4. U \subseteq At(g)
      <4> SUFFICES ASSUME NEW f \in Range(fs), Meets(f, y) PROVE Meets(f, g)
        BY <3>1
      <4>1. Low(f) \in Nat /\ High(f) \in Nat
        BY <1>1, Ends DEF AllTables
      <4>2. High(f) >= y.lo /\ Low(f) <= y.hi
        BY DEF Meets, High, Low
      <4>3. High(f) >= g.lo /\ Low(f) <= g.hi
        BY <2>7, <2>8, <4>1, <4>2
      <4> QED BY <4>3 DEF Meets, High, Low
    <3> QED BY <3>3, <3>4, CoveredMore
  <2>11. Fine(a[i])
    BY <2>6, <2>7, <2>9, <2>10
  <2> QED BY <1>1, <2>11
<1>7. \A i \in 0 .. Len(fs) : i \in I
  <2> HIDE DEF I
  <2> QED BY <1>1, <1>5, <1>6, Upwards
<1>8. Fine(z)
  <2>1. Len(fs) \in I
    BY <1>1, <1>7
  <2>2. Fine(a[Len(fs)])
    BY <2>1
  <2> HIDE DEF Fine
  <2> QED BY <1>3, <2>2
<1> QED BY <1>8

-----------------------------------------------------------------------------
(* The levels                                                              *)

WritesOK(W) == W \in Seq([key : Keys, type : {"value", "deletion"}])

(***************************************************************************)
(* The tables of F are made of the writes W and have numbers below n; on   *)
(* level 0 no two have the same, below it they follow each other.          *)
(***************************************************************************)
FilesOK(F, W, n) ==
    /\ F \in [Levels -> Seq(TablesOf(W, n))]
    /\ \A f, g \in Range(F[0]) : f.number = g.number => f = g
    /\ \A l \in Levels \ {0} : Chained(F[l])

(* The writes make sound entries, numbered up to the last sequence number. *)
LEMMA WritesSound ==
    ASSUME NEW W, WritesOK(W)
    PROVE  /\ Sound(EntriesOf(W))
           /\ \A e \in EntriesOf(W) : e.seq \in Nat /\ e.seq <= Len(W)
           /\ Len(W) \in Nat
<1> DEFINE E == EntriesOf(W)
           number == [e \in E |-> e.seq]
<1>1. /\ Len(W) \in Nat /\ DOMAIN W = 1 .. Len(W)
      /\ \A i \in 1 .. Len(W) : W[i].key \in Nat
  <2>1. Keys \subseteq Nat
    BY LevelsAssumption
  <2>2. PICK K : K = [key : Keys, type : {"value", "deletion"}]
    OBVIOUS
  <2>3. \A k \in K : k.key \in Nat
    BY <2>1, <2>2
  <2>4. W \in Seq(K)
    BY <2>2 DEF WritesOK
  <2>5. Len(W) \in Nat /\ DOMAIN W = 1 .. Len(W) /\ \A i \in 1 .. Len(W) : W[i] \in K
    BY <2>4
  <2> QED BY <2>3, <2>5
<1>2. \A e \in E : e.seq \in 1 .. Len(W) /\ e.key \in Nat
                   /\ e = [key |-> W[e.seq].key, seq |-> e.seq, type |-> W[e.seq].type]
  BY <1>1 DEF EntriesOf
<1> HIDE DEF E
<1>3. \A a, b \in E : a.seq = b.seq => a = b
  BY <1>2
<1>4. IsFiniteSet(E)
  <2>1. number \in Injection(E, 1 .. Len(W))
    BY <1>2, <1>3 DEF Injection, IsInjective
  <2>2. IsFiniteSet(1 .. Len(W))
    BY <1>1, FS_Interval
  <2> QED BY <2>1, <2>2, FS_Injection
<1>5. \A e \in E : e.key \in Nat /\ e.seq \in Nat /\ e.seq <= Len(W)
  BY <1>1, <1>2
<1>6. Sound(E)
  BY <1>3, <1>4, <1>5 DEF Sound
<1> QED BY <1>1, <1>5, <1>6 DEF E

(* Tables of these entries are tables. *)
LEMMA TablesSound ==
    ASSUME NEW W, WritesOK(W), NEW n
    PROVE  /\ AllTables(TablesOf(W, n), EntriesOf(W))
           /\ \A f \in TablesOf(W, n) : (f.number \in Int /\ f.number < n) \/ n \notin Int
<1>1. Sound(EntriesOf(W))
  BY WritesSound
<1>2. \A f \in TablesOf(W, n) : IsTable(f, EntriesOf(W))
  <2>1. PICK S : S = (SUBSET EntriesOf(W)) \ {{}}
    OBVIOUS
  <2>2. \A f \in TablesOf(W, n) : f.entries \in S
    BY <2>1 DEF TablesOf
  <2>3. ASSUME NEW f \in TablesOf(W, n) PROVE f.entries \subseteq EntriesOf(W) /\ f.entries # {}
    BY <2>1, <2>2, Zenon
  <2> QED BY <2>3 DEF IsTable
<1>3. ASSUME n \in Int, NEW f \in TablesOf(W, n) PROVE f.number \in Int /\ f.number < n
  BY <1>3 DEF TablesOf
<1> QED BY <1>1, <1>2, <1>3 DEF AllTables

(* What FindFile returns, on any sequence of tables. *)
LEMMA FindFileFinds ==
    ASSUME NEW S, NEW fs \in Seq(S), NEW ikey, NEW i, i = FindFile(fs, ikey)
    PROVE  /\ i \in 1 .. Len(fs) + 1
           /\ \A j \in 1 .. i - 1 : Precedes(LargestEntry(fs[j]), ikey)
           /\ i <= Len(fs) => ~ Precedes(LargestEntry(fs[i]), ikey)
<1> DEFINE T == {m \in 1 .. Len(fs) + 1 : m <= Len(fs) => ~ Precedes(LargestEntry(fs[m]), ikey)}
<1>1. Len(fs) \in Nat
  OBVIOUS
<1>2. T \subseteq Nat /\ Len(fs) + 1 \in T
  BY <1>1
<1>3. PICK m \in T : \A y \in T : m <= y
  <2> HIDE DEF T
  <2> QED BY <1>2, LeastExists
<1>4. \A j \in 1 .. m - 1 : Precedes(LargestEntry(fs[j]), ikey)
  <2> SUFFICES ASSUME NEW j \in 1 .. m - 1 PROVE Precedes(LargestEntry(fs[j]), ikey)
    OBVIOUS
  <2>1. m \in 1 .. Len(fs) + 1
    BY <1>3
  <2>2. j \in 1 .. Len(fs) + 1 /\ ~ (m <= j)
    BY <1>1, <2>1
  <2>3. j \notin T
    BY <1>3, <2>2
  <2> QED BY <2>2, <2>3
<1>5. m \in 1 .. Len(fs) + 1 /\ (m <= Len(fs) => ~ Precedes(LargestEntry(fs[m]), ikey))
  BY <1>3
<1> QED BY <1>4, <1>5 DEF FindFile

(***************************************************************************)
(* A level without overlap has no table that meets the range.              *)
(***************************************************************************)
LEMMA NoOverlap ==
    ASSUME NEW W, WritesOK(W), Len(W) <= MaxSequence, NEW n, FilesOK(files_, W, n),
           NEW l \in Levels, NEW r \in Ranges, ~ OverlapInLevel(l, r)
    PROVE  Misses(r, Range(files_[l]))
<1>1. /\ AllTables(TablesOf(W, n), EntriesOf(W)) /\ files_[l] \in Seq(TablesOf(W, n))
      /\ MaxSequence \in Nat /\ 0 \in Levels
  BY TablesSound, LevelsAssumption DEF FilesOK, Levels
<1>2. CASE l = 0
  <2>1. PICK z : z = Meeting(files_[0], r)
    OBVIOUS
  <2>2. z = <<>>
    BY <1>2, <2>1 DEF OverlapInLevel
  <2>3. Range(z) = {f \in Range(files_[0]) : Meets(f, r)}
    BY <1>1, <1>2, <2>1, MeetingTables
  <2>4. Range(z) = {}
    BY <2>2 DEF Range
  <2> QED BY <1>2, <2>3, <2>4 DEF Misses
<1>3. CASE l # 0
  <2>1. PICK fs : fs = files_[l]
    OBVIOUS
  <2>2. fs \in Seq(TablesOf(W, n)) /\ Chained(fs) /\ Len(fs) \in Nat /\ DOMAIN fs = 1 .. Len(fs)
    BY <1>1, <1>3, <2>1 DEF FilesOK
  <2>3. PICK k : k = [key |-> r.lo, seq |-> MaxSequence]
    OBVIOUS
  <2>4. PICK i : i = FindFile(fs, k)
    OBVIOUS
  <2>5. ~ (i <= Len(fs) /\ Low(fs[i]) <= r.hi)
    BY <1>3, <2>1, <2>3, <2>4 DEF OverlapInLevel, Low
  <2>6. /\ i \in 1 .. Len(fs) + 1
        /\ \A j \in 1 .. i - 1 : Precedes(LargestEntry(fs[j]), k)
    BY <2>2, <2>4, FindFileFinds
  <2> SUFFICES ASSUME NEW j \in 1 .. Len(fs), Meets(fs[j], r) PROVE FALSE
    BY <2>1, <2>2 DEF Misses, Range
  <2>7. IsTable(fs[j], EntriesOf(W)) /\ Sound(EntriesOf(W))
    BY <1>1, <2>2 DEF AllTables
  <2>8. /\ High(fs[j]) \in Nat /\ Low(fs[j]) \in Nat /\ LargestEntry(fs[j]) \in EntriesOf(W)
    BY <2>7, Ends DEF IsTable
  <2>9. r.lo \in Nat /\ r.hi \in Nat /\ High(fs[j]) >= r.lo /\ Low(fs[j]) <= r.hi
    BY DEF Ranges, Meets, High, Low
  <2>10. LargestEntry(fs[j]).seq \in Nat /\ LargestEntry(fs[j]).seq <= MaxSequence
    <3>1. LargestEntry(fs[j]).seq \in Nat /\ LargestEntry(fs[j]).seq <= Len(W) /\ Len(W) \in Nat
      BY <2>8, WritesSound
    <3> QED BY <1>1, <3>1
  <2>11. CASE j < i
    <3>1. Precedes(LargestEntry(fs[j]), k)
      BY <2>6, <2>11
    <3>2. k.key = r.lo /\ k.seq = MaxSequence
      BY <2>3
    <3>3. High(fs[j]) < r.lo \/ LargestEntry(fs[j]).seq > MaxSequence
      BY <3>1, <3>2 DEF Precedes, High
    <3> QED BY <1>1, <2>8, <2>9, <2>10, <3>3
  <2>12. CASE ~ (j < i)
    <3>1. i \in 1 .. Len(fs) /\ Low(fs[i]) \in Nat /\ ~ (Low(fs[i]) <= r.hi)
      <4>1. i \in 1 .. Len(fs)
        BY <2>2, <2>6, <2>12
      <4>2. IsTable(fs[i], EntriesOf(W))
        BY <1>1, <2>2, <4>1 DEF AllTables
      <4> QED BY <2>5, <2>7, <4>1, <4>2, Ends
    <3>2. Low(fs[i]) <= Low(fs[j])
      <4>1. CASE i = j
        BY <3>1, <4>1
      <4>2. CASE i # j
        <5>1. LiesBefore(fs[i].entries, fs[j].entries)
          BY <2>2, <2>12, <3>1, <4>2 DEF Chained
        <5>2. IsTable(fs[i], EntriesOf(W))
          BY <1>1, <2>2, <3>1 DEF AllTables
        <5> QED BY <2>7, <5>1, <5>2, LiesBeforeOrder
      <4> QED BY <4>1, <4>2
    <3> QED BY <2>8, <2>9, <3>1, <3>2
  <2> QED BY <2>6, <2>11, <2>12
<1> QED BY <1>2, <1>3

(***************************************************************************)
(* A memtable is put at a level that has no table it overlaps, nor has any *)
(* level above it.                                                         *)
(***************************************************************************)
LEMMA FlushLevel ==
    ASSUME NEW W, WritesOK(W), Len(W) <= MaxSequence, NEW n, FilesOK(files_, W, n),
           NEW r \in Ranges, NEW m, m = PickLevelForMemTableOutput(r)
    PROVE  /\ m \in Levels
           /\ m # 0 => \A l \in 0 .. m : Misses(r, Range(files_[l]))
<1> DEFINE MayPass(l) ==
              /\ ~ OverlapInLevel(l + 1, r)
              /\ l + 2 < kNumLevels =>
                    TotalFileSize(GetOverlappingInputs(l + 2, r)) <= kMaxGrandParentOverlap
           K == kMaxMemCompactLevel
           T == {l \in 0 .. K : l = K \/ ~ MayPass(l)}
<1>1. kNumLevels \in Nat /\ kNumLevels >= 2 /\ K \in 0 .. kNumLevels - 1 /\ 0 \in Levels
  BY LevelsAssumption DEF Levels
<1>2. CASE OverlapInLevel(0, r)
  BY <1>1, <1>2 DEF PickLevelForMemTableOutput
<1>3. CASE ~ OverlapInLevel(0, r)
  <2>1. PICK t \in T : \A y \in T : t <= y
    <3>1. T \subseteq Nat /\ K \in T
      BY <1>1
    <3> HIDE DEF T
    <3> QED BY <3>1, LeastExists
  <2>2. t \in 0 .. K /\ (t = K \/ ~ MayPass(t)) /\ \A l \in 0 .. t - 1 : MayPass(l)
    <3>1. t \in 0 .. K /\ (t = K \/ ~ MayPass(t))
      BY <2>1
    <3>2. ASSUME NEW l \in 0 .. t - 1 PROVE MayPass(l)
      <4>1. l \in 0 .. K /\ ~ (t <= l)
        BY <1>1, <3>1
      <4>2. l \notin T
        BY <2>1, <4>1
      <4> QED BY <4>1, <4>2
    <3> QED BY <3>1, <3>2
  <2>3. /\ m \in 0 .. K
        /\ \A l \in 0 .. m - 1 : MayPass(l)
    <3>1. m = CHOOSE l \in 0 .. K : /\ \A y \in 0 .. l - 1 : MayPass(y)
                                    /\ l = K \/ ~ MayPass(l)
      BY <1>3 DEF PickLevelForMemTableOutput
    <3> HIDE DEF MayPass, K
    <3> QED BY <2>2, <3>1
  <2>4. \A l \in 0 .. m : l \in Levels /\ ~ OverlapInLevel(l, r)
    <3> SUFFICES ASSUME NEW l \in 0 .. m PROVE l \in Levels /\ ~ OverlapInLevel(l, r)
      OBVIOUS
    <3>1. l \in Levels
      BY <1>1, <2>3 DEF Levels
    <3>2. CASE l = 0
      BY <1>3, <3>1, <3>2
    <3>3. CASE l # 0
      <4>1. PICK y : y = l - 1
        OBVIOUS
      <4>2. y \in 0 .. m - 1 /\ l = y + 1
        BY <1>1, <2>3, <3>3, <4>1
      <4>3. ~ OverlapInLevel(y + 1, r)
        BY <2>3, <4>2
      <4> QED BY <3>1, <4>2, <4>3
    <3> QED BY <3>2, <3>3
  <2>5. \A l \in 0 .. m : Misses(r, Range(files_[l]))
    BY <2>4, NoOverlap
  <2> QED BY <1>1, <2>3, <2>5 DEF Levels
<1> QED BY <1>2, <1>3

-----------------------------------------------------------------------------
(* The tables that overlap a range                                         *)

LEMMA SpanCovers ==
    ASSUME NEW T, NEW r, IsRangeOf(r, T), Gapless(T)
    PROVE  Covered(T, r)
<1> SUFFICES ASSUME NEW x \in Ranges, Misses(x, T) PROVE x.hi < r.lo \/ r.hi < x.lo
  BY DEF Covered
<1>1. OneSide(x, T)
  BY DEF Gapless
<1> QED BY <1>1 DEF OneSide, IsRangeOf

(* Tables that meet the range of some without a gap leave none either. *)
LEMMA GaplessMore ==
    ASSUME NEW E, NEW S, AllTables(S, E), NEW T, T \subseteq S, Gapless(T),
           NEW F, F \subseteq T, NEW r, IsRangeOf(r, F),
           NEW G, G \subseteq S, \A g \in G : Meets(g, r)
    PROVE  Gapless(T \cup G)
<1> SUFFICES ASSUME NEW x \in Ranges, Misses(x, T \cup G) PROVE OneSide(x, T \cup G)
  BY DEF Gapless
<1>1. OneSide(x, T)
  BY DEF Gapless, Misses
<1>2. r \in Ranges
  BY DEF IsRangeOf
<1>3. \A g \in G : /\ x.hi < r.lo => x.hi < Low(g)
                   /\ r.hi < x.lo => High(g) < x.lo
  BY <1>2, MissedTable DEF Misses
<1>4. (\E f \in F : r.lo = Low(f)) /\ (\E f \in F : r.hi = High(f))
  BY DEF IsRangeOf
<1>5. CASE \A t \in T : x.hi < Low(t)
  <2>1. x.hi < r.lo
    BY <1>4, <1>5
  <2>2. \A t \in T \cup G : x.hi < Low(t)
    BY <1>3, <1>5, <2>1
  <2> QED BY <2>2 DEF OneSide
<1>6. CASE \A t \in T : High(t) < x.lo
  <2>1. r.hi < x.lo
    BY <1>4, <1>6
  <2>2. \A t \in T \cup G : High(t) < x.lo
    BY <1>3, <1>6, <2>1
  <2> QED BY <2>2 DEF OneSide
<1> QED BY <1>1, <1>5, <1>6 DEF OneSide

(* GetOverlappingInputs returns tables of the level. *)
LEMMA OverlappingWithin ==
    ASSUME NEW S, NEW l, files_[l] \in Seq(S), NEW r, NEW z, z = GetOverlappingInputs(l, r)
    PROVE  /\ z \in Seq(S) /\ Range(z) \subseteq Range(files_[l])
           /\ l # 0 => Range(z) = {f \in Range(files_[l]) : Meets(f, r)}
<1>1. PICK y : y = IF l = 0 THEN GrownRange(files_[0], r) ELSE r
  OBVIOUS
<1>2. z = Meeting(files_[l], y)
  BY <1>1 DEF GetOverlappingInputs
<1>3. z \in Seq(S) /\ Range(z) = {f \in Range(files_[l]) : Meets(f, y)}
  BY <1>2, MeetingTables
<1>4. l # 0 => y = r
  BY <1>1
<1> QED BY <1>3, <1>4

(***************************************************************************)
(* All tables of the level that meet the range are found, and with tables  *)
(* that cover the range they leave no gap.                                 *)
(***************************************************************************)
LEMMA OverlappingAll ==
    ASSUME NEW E, NEW S, AllTables(S, E), NEW l, files_[l] \in Seq(S), NEW r \in Ranges,
           NEW z, z = GetOverlappingInputs(l, r), NEW T, T \subseteq S
    PROVE  /\ \A f \in Range(files_[l]) : Meets(f, r) => f \in Range(z)
           /\ Covered(T, r) /\ (\A t \in T : Meets(t, r)) => Gapless(T \cup Range(z))
<1>1. PICK y : y = IF l = 0 THEN GrownRange(files_[0], r) ELSE r
  OBVIOUS
<1>2. z = Meeting(files_[l], y)
  BY <1>1 DEF GetOverlappingInputs
<1>3. Range(z) = {f \in Range(files_[l]) : Meets(f, y)} /\ \A f \in Range(files_[l]) : f \in S
  <2>1. Range(z) = {f \in Range(files_[l]) : Meets(f, y)}
    BY <1>2, MeetingTables
  <2>2. \A f \in Range(files_[l]) : f \in S
    BY DEF Range
  <2> QED BY <2>1, <2>2
<1>4. /\ y \in Ranges /\ y.lo <= r.lo /\ r.hi <= y.hi
      /\ Covered(T, r) => Covered(T \cup {f \in Range(files_[l]) : Meets(f, y)}, y)
  <2>1. CASE l = 0
    <3>1. PICK fs : fs = files_[l]
      OBVIOUS
    <3>2. fs \in Seq(S) /\ y = GrownRange(fs, r)
      BY <1>1, <2>1, <3>1
    <3>3. /\ y \in Ranges /\ y.lo <= r.lo /\ r.hi <= y.hi
          /\ Covered(T, r) => Covered(T \cup {f \in Range(fs) : Meets(f, y)}, y)
      <4>1. y \in Ranges /\ y.lo <= r.lo /\ r.hi <= y.hi
        BY <3>2, GrownRangeCovers
      <4>2. PICK g : g = GrownRange(fs, r)
        OBVIOUS
      <4>3. Covered(T, r) => Covered(T \cup {f \in Range(fs) : Meets(f, g)}, g)
        BY <3>2, <4>2, GrownRangeCovers
      <4>4. y = g
        BY <3>2, <4>2
      <4> QED BY <4>1, <4>3, <4>4
    <3> QED BY <3>1, <3>3
  <2>2. CASE l # 0
    <3>1. y = r /\ r.lo \in Nat /\ r.hi \in Nat
      BY <1>1, <2>2 DEF Ranges
    <3> QED BY <3>1, CoveredMore
  <2> QED BY <2>1, <2>2
<1>5. \A t \in S : Meets(t, r) => Meets(t, y)
  <2> SUFFICES ASSUME NEW t \in S, Meets(t, r) PROVE Meets(t, y)
    OBVIOUS
  <2>1. Low(t) \in Nat /\ High(t) \in Nat
    BY Ends DEF AllTables
  <2>2. r.lo \in Nat /\ r.hi \in Nat /\ y.lo \in Nat /\ y.hi \in Nat
    BY <1>4 DEF Ranges
  <2>3. High(t) >= r.lo /\ Low(t) <= r.hi
    BY DEF Meets, High, Low
  <2>4. High(t) >= y.lo /\ Low(t) <= y.hi
    BY <1>4, <2>1, <2>2, <2>3
  <2> QED BY <2>4 DEF Meets, High, Low
<1>6. ASSUME Covered(T, r), \A t \in T : Meets(t, r) PROVE Gapless(T \cup Range(z))
  <2>1. PICK U : U = T \cup Range(z)
    OBVIOUS
  <2>2. Covered(U, y)
    BY <1>3, <1>4, <1>6, <2>1
  <2>3. U \subseteq S /\ \A t \in U : Meets(t, y)
    BY <1>3, <1>5, <1>6, <2>1
  <2> QED BY <1>4, <2>1, <2>2, <2>3, CoveredIsGapless
<1> QED BY <1>3, <1>5, <1>6

(* f is on one side of all of T. *)
Beside(f, T) == \/ \A t \in T : LiesBefore(f.entries, t.entries)
                \/ \A t \in T : LiesBefore(t.entries, f.entries)

(* In a chained level any two tables are apart. *)
LEMMA ChainedApart ==
    ASSUME NEW S, NEW fs \in Seq(S), Chained(fs)
    PROVE  Apart(Range(fs))
<1> SUFFICES ASSUME NEW i \in DOMAIN fs, NEW j \in DOMAIN fs
             PROVE  \/ fs[i] = fs[j] \/ LiesBefore(fs[i].entries, fs[j].entries)
                    \/ LiesBefore(fs[j].entries, fs[i].entries)
  BY DEF Apart, Range
<1>1. i = j \/ i < j \/ j < i
  OBVIOUS
<1> QED BY <1>1 DEF Chained

(* What does not meet the range of some tables is beside them. *)
LEMMA MissingIsBeside ==
    ASSUME NEW E, NEW S, AllTables(S, E), NEW T, T \subseteq S, NEW r, r \in Ranges,
           \A t \in T : r.lo <= Low(t) /\ High(t) <= r.hi,
           NEW g \in S, ~ Meets(g, r)
    PROVE  Beside(g, T)
<1>1. \A t \in S : Low(t) \in Nat /\ High(t) \in Nat /\ Low(t) <= High(t)
  BY Ends DEF AllTables
<1>2. r.lo \in Nat /\ r.hi \in Nat
  BY DEF Ranges
<1>3. High(g) < r.lo \/ r.hi < Low(g)
  BY <1>1, <1>2 DEF Meets, High, Low
<1>4. \A t \in T : /\ High(g) < r.lo => High(g) < Low(t)
                   /\ r.hi < Low(g) => High(t) < Low(g)
  BY <1>1, <1>2
<1>5. \A t \in T : /\ High(g) < Low(t) => LiesBefore(g.entries, t.entries)
                   /\ High(t) < Low(g) => LiesBefore(t.entries, g.entries)
  BY LiesBeforeOrder DEF AllTables
<1> QED BY <1>3, <1>4, <1>5 DEF Beside

(***************************************************************************)
(* A table of the output level that does not meet the range of the inputs  *)
(* of the upper level is beside all the inputs.                            *)
(***************************************************************************)
LEMMA BesideInputs ==
    ASSUME NEW E, NEW S, AllTables(S, E), NEW G, G \subseteq S, Apart(G),
           NEW T, T \subseteq S, NEW r, IsRangeOf(r, T),
           NEW g \in G, ~ Meets(g, r)
    PROVE  Beside(g, T \cup {f \in G : Meets(f, r)})
<1>1. \A t \in S : Low(t) \in Nat /\ High(t) \in Nat /\ Low(t) <= High(t)
  BY Ends DEF AllTables
<1>2. r \in Ranges /\ r.lo \in Nat /\ r.hi \in Nat /\ \A t \in T : r.lo <= Low(t) /\ High(t) <= r.hi
  BY DEF Ranges, IsRangeOf
<1>3. High(g) < r.lo \/ r.hi < Low(g)
  BY <1>1, <1>2 DEF Meets, High, Low
<1>4. \A f \in G : LiesBefore(f.entries, g.entries) => High(f) <= High(g) /\ High(f) <= Low(g)
  BY LiesBeforeOrder DEF AllTables
<1>5. \A f \in G : LiesBefore(g.entries, f.entries) => High(g) <= Low(f)
  BY LiesBeforeOrder DEF AllTables
<1>6. \A t \in T : /\ High(g) < Low(t) => LiesBefore(g.entries, t.entries)
                   /\ High(t) < Low(g) => LiesBefore(t.entries, g.entries)
  BY LiesBeforeOrder DEF AllTables
<1>7. \A f \in G : f = g \/ LiesBefore(f.entries, g.entries) \/ LiesBefore(g.entries, f.entries)
  BY DEF Apart
<1>8. \A f \in G : Meets(f, r) => f # g /\ High(f) >= r.lo /\ Low(f) <= r.hi
  BY DEF Meets, High, Low
<1>9. CASE High(g) < r.lo
  <2>1. \A t \in T : LiesBefore(g.entries, t.entries)
    BY <1>1, <1>2, <1>6, <1>9
  <2>2. ASSUME NEW f \in G, Meets(f, r) PROVE LiesBefore(g.entries, f.entries)
    <3>1. ~ LiesBefore(f.entries, g.entries)
      BY <1>1, <1>2, <1>4, <1>8, <1>9, <2>2
    <3> QED BY <1>7, <1>8, <2>2, <3>1
  <2> QED BY <2>1, <2>2 DEF Beside
<1>10. CASE r.hi < Low(g)
  <2>1. \A t \in T : LiesBefore(t.entries, g.entries)
    BY <1>1, <1>2, <1>6, <1>10
  <2>2. ASSUME NEW f \in G, Meets(f, r) PROVE LiesBefore(f.entries, g.entries)
    <3>1. ~ LiesBefore(g.entries, f.entries)
      <4>1. Low(f) <= High(f) /\ Low(g) <= High(g) /\ Low(f) <= r.hi
        BY <1>1, <1>8, <2>2
      <4>2. ASSUME LiesBefore(g.entries, f.entries) PROVE FALSE
        BY <1>1, <1>2, <1>5, <1>10, <4>1, <4>2
      <4> QED BY <4>2
    <3> QED BY <1>7, <1>8, <2>2, <3>1
  <2> QED BY <2>1, <2>2 DEF Beside
<1> QED BY <1>3, <1>9, <1>10

-----------------------------------------------------------------------------
(* What is compacted                                                       *)

LEMMA BytesPositive ==
    ASSUME NEW l \in Nat \ {0}
    PROVE  MaxBytesForLevel(l) \in Nat \ {0}
<1>1. PICK M : M = MaxBytesForLevel1
  OBVIOUS
<1>2. M \in Nat \ {0} /\ l - 1 \in Nat
  BY <1>1, LevelsAssumption
<1>3. PICK z : z = MaxBytesForLevel(l)
  OBVIOUS
<1>4. z = LoopOf("bytes", 0, M, l - 1)
  BY <1>1, <1>3 DEF MaxBytesForLevel, LoopOf, RoundOf
<1>5. PICK a : /\ a[0] = M /\ a[l - 1] = z
               /\ \A i \in 1 .. l - 1 : a[i] = RoundOf("bytes", 0, i, a[i - 1])
  BY <1>2, <1>4, LevelLoopResult DEF LoopEnds
<1>6. \A i \in 1 .. l - 1 : a[i] = 10 * a[i - 1]
  BY <1>5 DEF RoundOf
<1> DEFINE I == {i \in 0 .. l - 1 : a[i] \in Nat \ {0}}
<1>7. 0 \in I
  BY <1>2, <1>5
<1>8. ASSUME NEW i \in 1 .. l - 1, i - 1 \in I PROVE i \in I
  <2>1. a[i - 1] \in Nat \ {0} /\ a[i] = 10 * a[i - 1]
    BY <1>6, <1>8
  <2>2. a[i] \in Nat \ {0}
    BY <2>1
  <2>3. i \in 0 .. l - 1
    OBVIOUS
  <2> QED BY <2>2, <2>3
<1>9. \A i \in 0 .. l - 1 : i \in I
  <2> HIDE DEF I
  <2> QED BY <1>2, <1>7, <1>8, Upwards
<1> QED BY <1>2, <1>3, <1>5, <1>9

(* Finalize scores one of the levels that can be compacted. *)
LEMMA BestLevel ==
    CompactionLevel \in 0 .. kNumLevels - 2
<1>1. PICK N : N = kNumLevels - 2
  OBVIOUS
<1>2. N \in Nat
  BY <1>1, LevelsAssumption
<1>3. PICK z : z = CompactionLevel
  OBVIOUS
<1>4. z = LoopOf("best", 0, 0, N)
  BY <1>1, <1>3 DEF CompactionLevel, LoopOf, RoundOf
<1>5. PICK a : /\ a[0] = 0 /\ a[N] = z
               /\ \A i \in 1 .. N : a[i] = RoundOf("best", 0, i, a[i - 1])
  BY <1>2, <1>4, LevelLoopResult DEF LoopEnds
<1>6. \A i \in 1 .. N : a[i] = i \/ a[i] = a[i - 1]
  BY <1>5 DEF RoundOf, BetterOf
<1> DEFINE I == {i \in 0 .. N : a[i] \in 0 .. N}
<1>7. 0 \in I
  BY <1>2, <1>5
<1>8. ASSUME NEW i \in 1 .. N, i - 1 \in I PROVE i \in I
  <2>1. a[i - 1] \in 0 .. N /\ (a[i] = i \/ a[i] = a[i - 1])
    BY <1>6, <1>8
  <2>2. a[i] \in 0 .. N /\ i \in 0 .. N
    BY <2>1
  <2> QED BY <2>2
<1>9. \A i \in 0 .. N : i \in I
  <2> HIDE DEF I
  <2> QED BY <1>2, <1>7, <1>8, Upwards
<1> QED BY <1>1, <1>2, <1>3, <1>5, <1>9

(* A level that is due for its size has a table to pick. *)
LEMMA DueLevel ==
    ASSUME NEW S, files_ \in [Levels -> Seq(S)], SizeCompaction
    PROVE  /\ CompactionLevel \in 0 .. kNumLevels - 2
           /\ PickedFile \in Range(files_[CompactionLevel])
<1>1. PICK l : l = CompactionLevel
  OBVIOUS
<1>2. l \in 0 .. kNumLevels - 2 /\ kNumLevels \in Nat
  BY <1>1, BestLevel, LevelsAssumption
<1>3. PICK fs : fs = files_[l]
  OBVIOUS
<1>4. l \in Levels /\ fs \in Seq(S) /\ Len(fs) \in Nat /\ DOMAIN fs = 1 .. Len(fs)
  <2>1. l \in Levels
    BY <1>2 DEF Levels
  <2> QED BY <1>3, <2>1
<1>5. ScoreOf(l)[1] >= ScoreOf(l)[2]
  BY <1>1 DEF SizeCompaction
<1>6. Len(fs) # 0
  <2>1. CASE l = 0
    <3>1. Len(fs) >= kL0_CompactionTrigger
      BY <1>3, <1>5, <2>1 DEF ScoreOf
    <3> QED BY <1>4, <3>1, LevelsAssumption
  <2>2. CASE l # 0
    <3>1. PICK b : b = MaxBytesForLevel(l)
      OBVIOUS
    <3>2. PICK t : t = TotalFileSize(fs)
      OBVIOUS
    <3>3. t >= b
      BY <1>3, <1>5, <2>2, <3>1, <3>2 DEF ScoreOf
    <3>4. b \in Nat \ {0}
      BY <1>2, <2>2, <3>1, BytesPositive
    <3>5. ASSUME Len(fs) = 0 PROVE FALSE
      <4>1. {{i} \X fs[i].entries : i \in DOMAIN fs} = {}
        BY <1>4, <3>5
      <4>2. t = Cardinality({})
        BY <3>2, <4>1 DEF TotalFileSize
      <4> QED BY <3>3, <3>4, <4>2, FS_EmptySet
    <3> QED BY <3>5
  <2> QED BY <2>1, <2>2
<1>7. PICK past : past = {i \in DOMAIN files_[l] :
                            \/ compact_pointer_[l] = None
                            \/ Precedes(compact_pointer_[l], LargestEntry(files_[l][i]))}
  OBVIOUS
<1>8. PICK x : x = IF past = {} THEN 1 ELSE LeastOf(past)
  OBVIOUS
<1>9. PickedFile = fs[x]
  BY <1>1, <1>3, <1>7, <1>8 DEF PickedFile
<1>10. x \in DOMAIN fs
  <2>1. CASE past = {}
    BY <1>4, <1>6, <1>8, <2>1
  <2>2. CASE past # {}
    <3>1. past \subseteq DOMAIN fs /\ past \subseteq Nat
      BY <1>3, <1>4, <1>7
    <3>2. x = LeastOf(past)
      BY <1>8, <2>2
    <3> QED BY <2>2, <3>1, <3>2, LeastIs
  <2> QED BY <2>1, <2>2
<1>11. fs[x] \in Range(fs)
  BY <1>10 DEF Range
<1> QED BY <1>1, <1>2, <1>3, <1>9, <1>11

(* The range of one table. *)
LEMMA RangeOfOne ==
    ASSUME NEW E, Sound(E), NEW f, IsTable(f, E), NEW r, r = RangeOf(<<f>>)
    PROVE  /\ IsRangeOf(r, {f}) /\ r \in Ranges /\ r.lo = Low(f) /\ r.hi = High(f)
           /\ Meets(f, r) /\ Covered({f}, r) /\ Gapless({f})
<1>1. PICK S : S = {f}
  OBVIOUS
<1>2. AllTables(S, E) /\ <<f>> \in Seq(S) /\ <<f>> # <<>>
  BY <1>1 DEF AllTables
<1>3. PICK fs : fs = <<f>>
  OBVIOUS
<1>4. Range(fs) = S
  BY <1>1, <1>3 DEF Range
<1>5. IsRangeOf(r, S)
  <2>1. fs \in Seq(S) /\ fs # <<>> /\ r = RangeOf(fs)
    BY <1>2, <1>3
  <2> QED BY <1>2, <1>4, <2>1, RangeOfTables
<1>6. r \in Ranges /\ r.lo = Low(f) /\ r.hi = High(f)
  BY <1>1, <1>5 DEF IsRangeOf
<1>7. Covered(S, r) /\ Meets(f, r)
  BY <1>1, <1>5, RangeCoversOne
<1>8. Gapless(S)
  BY <1>1, <1>2, <1>6, <1>7, CoveredIsGapless
<1> QED BY <1>1, <1>5, <1>6, <1>7, <1>8

(* A level of the database and a charged table of it. *)
IsCharged(t, F) == /\ t.level \in 0 .. kNumLevels - 2
                   /\ t.file \in Range(F[t.level])

(***************************************************************************)
(* An automatic compaction starts from tables without a gap.               *)
(***************************************************************************)
LEMMA PickedInputs ==
    ASSUME NEW E, NEW S, AllTables(S, E), files_ \in [Levels -> Seq(S)],
           SizeCompaction \/ IsCharged(file_to_compact_, files_),
           NEW p, p = Picked
    PROVE  /\ p.level \in 0 .. kNumLevels - 2
           /\ p.inputs0 \in Seq(Range(files_[p.level])) /\ p.inputs0 # <<>>
           /\ Gapless(Range(p.inputs0))
<1>1. PICK l : l = IF SizeCompaction THEN CompactionLevel ELSE file_to_compact_.level
  OBVIOUS
<1>2. PICK f : f = IF SizeCompaction THEN PickedFile ELSE file_to_compact_.file
  OBVIOUS
<1>3. l \in 0 .. kNumLevels - 2 /\ f \in Range(files_[l])
  <2>1. CASE SizeCompaction
    <3>1. l = CompactionLevel /\ f = PickedFile
      BY <1>1, <1>2, <2>1
    <3> QED BY <2>1, <3>1, DueLevel
  <2>2. CASE ~ SizeCompaction
    BY <1>1, <1>2, <2>2 DEF IsCharged
  <2> QED BY <2>1, <2>2
<1>4. l \in Levels /\ files_[l] \in Seq(S) /\ f \in S
  <2>1. l \in Levels
    BY <1>3, LevelsAssumption DEF Levels
  <2>2. files_[l] \in Seq(S)
    BY <2>1
  <2> QED BY <1>3, <2>1, <2>2 DEF Range
<1>5. PICK r : r = RangeOf(<<f>>)
  OBVIOUS
<1>6. r \in Ranges /\ Meets(f, r) /\ Covered({f}, r) /\ Gapless({f})
  BY <1>4, <1>5, RangeOfOne DEF AllTables
<1>7. PICK z : z = IF l = 0 THEN GetOverlappingInputs(l, r) ELSE <<f>>
  OBVIOUS
<1>8. p.level = l /\ p.inputs0 = z
  <2>1. p = [level |-> l, inputs0 |-> IF l = 0 THEN GetOverlappingInputs(0, RangeOf(<<f>>)) ELSE <<f>>]
    BY <1>1, <1>2 DEF Picked
  <2> QED BY <1>5, <1>7, <2>1
<1>9. z \in Seq(Range(files_[l])) /\ z # <<>> /\ Gapless(Range(z))
  <2>1. CASE l = 0
    <3>1. z = GetOverlappingInputs(l, r)
      BY <1>7, <2>1
    <3>2. z \in Seq(S) /\ Range(z) \subseteq Range(files_[l])
      BY <1>4, <3>1, OverlappingWithin
    <3>3. /\ Meets(f, r) => f \in Range(z)
          /\ Gapless({f} \cup Range(z))
      <4>1. PICK T : T = {f}
        OBVIOUS
      <4>2. T \subseteq S /\ Covered(T, r) /\ \A t \in T : Meets(t, r)
        BY <1>4, <1>6, <4>1
      <4>3. /\ \A g \in Range(files_[l]) : Meets(g, r) => g \in Range(z)
            /\ Gapless(T \cup Range(z))
        BY <1>4, <1>6, <3>1, <4>2, OverlappingAll
      <4> QED BY <1>3, <4>1, <4>3
    <3>4. f \in Range(z) /\ {f} \cup Range(z) = Range(z)
      BY <1>6, <3>3
    <3>5. Gapless(Range(z))
      BY <3>3, <3>4
    <3>6. z # <<>>
      BY <3>4 DEF Range
    <3>7. z \in Seq(Range(files_[l]))
      BY <3>2 DEF Range
    <3> QED BY <3>5, <3>6, <3>7
  <2>2. CASE l # 0
    <3>1. z = <<f>>
      BY <1>7, <2>2
    <3>2. Range(z) = {f}
      BY <3>1 DEF Range
    <3>3. z \in Seq(Range(files_[l])) /\ z # <<>>
      BY <1>3, <3>1
    <3> QED BY <1>6, <3>2, <3>3
  <2> QED BY <2>1, <2>2
<1> QED BY <1>3, <1>8, <1>9

(* The inputs of a manual compaction are tables of its level. *)
LEMMA ManualInputsOf ==
    ASSUME NEW S, files_ \in [Levels -> Seq(S)], NEW m, m.level \in 0 .. kNumLevels - 2,
           NEW z, z = ManualInputs(m)
    PROVE  z \in Seq(Range(files_[m.level]))
<1>1. m.level \in Levels /\ files_[m.level] \in Seq(S)
  <2>1. m.level \in Levels
    BY LevelsAssumption DEF Levels
  <2> QED BY <2>1
<1>2. PICK r : r = [lo |-> m.lo, hi |-> m.hi]
  OBVIOUS
<1>3. PICK fs : fs = GetOverlappingInputs(m.level, r)
  OBVIOUS
<1>4. fs \in Seq(S) /\ Range(fs) \subseteq Range(files_[m.level])
  BY <1>1, <1>3, OverlappingWithin
<1>5. fs \in Seq(Range(files_[m.level])) /\ Len(fs) \in Nat /\ DOMAIN fs = 1 .. Len(fs)
  <2>1. Len(fs) \in Nat /\ DOMAIN fs = 1 .. Len(fs) /\ fs \in [DOMAIN fs -> S]
    BY <1>4
  <2>2. \A i \in DOMAIN fs : fs[i] \in Range(files_[m.level])
    <3>1. \A i \in DOMAIN fs : fs[i] \in Range(fs)
      BY DEF Range
    <3> QED BY <1>4, <3>1
  <2> QED BY <2>1, <2>2
<1>6. z = IF m.level > 0 THEN Upto(fs) ELSE fs
  BY <1>2, <1>3 DEF ManualInputs
<1>7. PICK full : full = {i \in DOMAIN fs : TotalFileSize(SubSeq(fs, 1, i)) >= kTargetFileSize}
  OBVIOUS
<1>8. Upto(fs) = IF full = {} THEN fs ELSE SubSeq(fs, 1, LeastOf(full))
  BY <1>7 DEF Upto
<1>9. ASSUME full # {} PROVE SubSeq(fs, 1, LeastOf(full)) \in Seq(Range(files_[m.level]))
  <2>1. PICK x : x = LeastOf(full)
    OBVIOUS
  <2>2. full \subseteq Nat /\ full \subseteq DOMAIN fs
    BY <1>5, <1>7
  <2>3. x \in 1 .. Len(fs)
    BY <1>5, <1>9, <2>1, <2>2, LeastIs
  <2>4. SubSeq(fs, 1, x) \in Seq(Range(files_[m.level]))
    BY <1>5, <2>3
  <2> QED BY <2>1, <2>4
<1> QED BY <1>5, <1>6, <1>8, <1>9

InputsOf(c) == Range(c.inputs0) \cup Range(c.inputs1)

(***************************************************************************)
(* The compaction c of the levels F: the inputs are tables of the two      *)
(* levels, the other tables of the lower one are each on one side of all   *)
(* of them, and those of an automatic compaction leave no gap.             *)
(***************************************************************************)
CompactionOK(c, F) ==
    /\ c.level \in 0 .. kNumLevels - 2 /\ c.manual \in BOOLEAN
    /\ c.inputs0 \in Seq(Range(F[c.level])) /\ c.inputs0 # <<>>
    /\ c.inputs1 \in Seq(Range(F[c.level + 1]))
    /\ \A g \in Range(F[c.level + 1]) \ Range(c.inputs1) : Beside(g, InputsOf(c))
    /\ ~ c.manual => Gapless(InputsOf(c))

(* What meets a span of tables meets the span of more of them. *)
LEMMA RangeOfMore ==
    ASSUME NEW E, NEW S, AllTables(S, E), NEW F, F \subseteq S, NEW r, IsRangeOf(r, F),
           NEW G, G \subseteq S, F \subseteq G, NEW y, IsRangeOf(y, G)
    PROVE  \A f \in S : Meets(f, r) => Meets(f, y)
<1> SUFFICES ASSUME NEW f \in S, Meets(f, r) PROVE Meets(f, y)
  OBVIOUS
<1>1. Low(f) \in Nat /\ High(f) \in Nat
  BY Ends DEF AllTables
<1>2. r.lo \in Nat /\ r.hi \in Nat /\ y.lo \in Nat /\ y.hi \in Nat
  BY DEF IsRangeOf, Ranges
<1>3. y.lo <= r.lo /\ r.hi <= y.hi
  BY DEF IsRangeOf
<1>4. High(f) >= r.lo /\ Low(f) <= r.hi
  BY DEF Meets, High, Low
<1>5. High(f) >= y.lo /\ Low(f) <= y.hi
  BY <1>1, <1>2, <1>3, <1>4
<1> QED BY <1>5 DEF Meets, High, Low

(* The tables of two sequences, one after the other. *)
LEMMA RangeJoin ==
    ASSUME NEW S, NEW a \in Seq(S), NEW b \in Seq(S)
    PROVE  Range(a \o b) = Range(a) \cup Range(b)
<1>1. PICK c : c = a \o b
  OBVIOUS
<1>2. /\ Len(a) \in Nat /\ Len(b) \in Nat /\ DOMAIN a = 1 .. Len(a) /\ DOMAIN b = 1 .. Len(b)
      /\ DOMAIN c = 1 .. Len(a) + Len(b)
      /\ \A i \in 1 .. Len(a) + Len(b) :
            c[i] = IF i <= Len(a) THEN a[i] ELSE b[i - Len(a)]
  BY <1>1
<1>3. \A i \in DOMAIN c : c[i] \in Range(a) \cup Range(b)
  <2> SUFFICES ASSUME NEW i \in 1 .. Len(a) + Len(b) PROVE c[i] \in Range(a) \cup Range(b)
    BY <1>2
  <2>1. CASE i <= Len(a)
    BY <1>2, <2>1 DEF Range
  <2>2. CASE ~ (i <= Len(a))
    <3>1. i - Len(a) \in DOMAIN b /\ c[i] = b[i - Len(a)]
      BY <1>2, <2>2
    <3> QED BY <3>1 DEF Range
  <2> QED BY <2>1, <2>2
<1>4. \A i \in DOMAIN a : a[i] \in Range(c)
  BY <1>2 DEF Range
<1>5. ASSUME NEW i \in DOMAIN b PROVE b[i] \in Range(c)
  <2>1. PICK j : j = i + Len(a)
    OBVIOUS
  <2>2. j \in DOMAIN c /\ c[j] = b[i]
    BY <1>2, <2>1
  <2> QED BY <2>2 DEF Range
<1>6. Range(c) = Range(a) \cup Range(b)
  <2>1. Range(c) \subseteq Range(a) \cup Range(b)
    BY <1>3 DEF Range
  <2>2. Range(a) \subseteq Range(c)
    BY <1>4 DEF Range
  <2>3. Range(b) \subseteq Range(c)
    BY <1>5 DEF Range
  <2> QED BY <2>1, <2>2, <2>3
<1> QED BY <1>1, <1>6

(***************************************************************************)
(* Tables of the next level that meet the range of some tables of a level. *)
(***************************************************************************)
LiesBelow(z, fs, F, S) ==
    /\ z \in Seq(F) /\ Range(z) \subseteq S
    /\ \E r : IsRangeOf(r, Range(fs)) /\ Range(z) = {f \in F : Meets(f, r)}
    /\ \A g \in F \ Range(z) : Beside(g, Range(fs) \cup Range(z))
    /\ \A T \in SUBSET S : Gapless(T) /\ Range(fs) \subseteq T => Gapless(T \cup Range(z))

(* Below returns the tables of the next level that meet the span of fs. *)
LEMMA BelowOf ==
    ASSUME NEW E, NEW S, AllTables(S, E), NEW l \in 0 .. kNumLevels - 2,
           files_ \in [Levels -> Seq(S)], Chained(files_[l + 1]),
           NEW fs \in Seq(S), fs # <<>>, NEW z, z = Below(l, fs)
    PROVE  LiesBelow(z, fs, Range(files_[l + 1]), S)
<1>1. PICK m : m = l + 1
  OBVIOUS
<1>2. m \in Levels /\ m # 0 /\ files_[m] \in Seq(S) /\ Chained(files_[m])
  <2>1. m \in Levels /\ m # 0
    BY <1>1, LevelsAssumption DEF Levels
  <2> QED BY <1>1, <2>1
<1>3. PICK r : r = RangeOf(fs)
  OBVIOUS
<1>4. IsRangeOf(r, Range(fs)) /\ Range(fs) \subseteq S
  <2>1. IsRangeOf(r, Range(fs))
    BY <1>3, RangeOfTables
  <2> QED BY <2>1 DEF Range
<1>5. z = GetOverlappingInputs(m, r)
  BY <1>1, <1>3 DEF Below
<1>6. z \in Seq(S) /\ Range(z) = {f \in Range(files_[m]) : Meets(f, r)}
  BY <1>2, <1>5, OverlappingWithin
<1>7. z \in Seq(Range(files_[m])) /\ Range(z) \subseteq S
  <2>1. \A i \in DOMAIN z : z[i] \in Range(z) /\ z[i] \in S
    BY <1>6 DEF Range
  <2>2. Range(z) \subseteq S
    BY <2>1 DEF Range
  <2>3. z \in Seq(Range(z))
    BY <1>6, <2>1
  <2> QED BY <1>6, <2>1, <2>2, <2>3
<1>8. \A g \in Range(files_[m]) \ Range(z) : Beside(g, Range(fs) \cup Range(z))
  <2>1. PICK G : G = Range(files_[m])
    OBVIOUS
  <2>2. G \subseteq S /\ Apart(G)
    <3>1. G \subseteq S
      BY <1>2, <2>1 DEF Range
    <3> QED BY <1>2, <2>1, <3>1, ChainedApart
  <2>3. \A g \in G : ~ Meets(g, r) => Beside(g, Range(fs) \cup {f \in G : Meets(f, r)})
    BY <1>4, <2>2, BesideInputs
  <2> QED BY <1>6, <2>1, <2>3
<1>9. ASSUME NEW T \in SUBSET S, Gapless(T), Range(fs) \subseteq T PROVE Gapless(T \cup Range(z))
  <2>1. \A g \in Range(z) : Meets(g, r)
    BY <1>6
  <2> QED BY <1>4, <1>7, <1>9, <2>1, GaplessMore
<1> QED BY <1>1, <1>4, <1>6, <1>7, <1>8, <1>9 DEF LiesBelow

(* The two levels of a compaction hold tables. *)
LEMMA TablesOfLevel ==
    ASSUME NEW S, files_ \in [Levels -> Seq(S)], NEW l \in 0 .. kNumLevels - 2
    PROVE  /\ l \in Levels /\ l + 1 \in Levels /\ l + 1 # 0
           /\ files_[l] \in Seq(S) /\ files_[l + 1] \in Seq(S)
           /\ \A z \in Seq(Range(files_[l])) : z \in Seq(S) /\ Range(z) \subseteq Range(files_[l])
           /\ \A z \in Seq(Range(files_[l + 1])) :
                 z \in Seq(S) /\ Range(z) \subseteq Range(files_[l + 1])
           /\ Range(files_[l]) \subseteq S /\ Range(files_[l + 1]) \subseteq S
<1>1. l \in Levels /\ l + 1 \in Levels /\ l + 1 # 0
  BY LevelsAssumption DEF Levels
<1>2. files_[l] \in Seq(S) /\ files_[l + 1] \in Seq(S)
  BY <1>1
<1>3. \A fs \in Seq(S) : Range(fs) \subseteq S
  BY DEF Range
<1>4. \A F \in SUBSET S : \A z \in Seq(F) : z \in Seq(S) /\ Range(z) \subseteq F
  BY DEF Range
<1> QED BY <1>1, <1>2, <1>3, <1>4

(***************************************************************************)
(* SetupOtherInputs makes a compaction of what it is given.                *)
(***************************************************************************)
LEMMA OtherInputs ==
    ASSUME NEW E, NEW S, AllTables(S, E), files_ \in [Levels -> Seq(S)],
           NEW l \in 0 .. kNumLevels - 2, Chained(files_[l + 1]),
           NEW inputs0 \in Seq(Range(files_[l])), inputs0 # <<>>, NEW manual \in BOOLEAN,
           ~ manual => Gapless(Range(inputs0)),
           NEW c, c = WithOtherInputs(l, inputs0, manual)
    PROVE  CompactionOK(c, files_) /\ c.level = l
<1>1. /\ l \in Levels /\ files_[l] \in Seq(S) /\ Range(files_[l]) \subseteq S
      /\ Range(files_[l + 1]) \subseteq S
  BY TablesOfLevel
<1>2. inputs0 \in Seq(S) /\ Range(inputs0) \subseteq Range(files_[l])
  BY TablesOfLevel
<1>3. PICK inputs1 : inputs1 = Below(l, inputs0)
  OBVIOUS
<1>b. LiesBelow(inputs1, inputs0, Range(files_[l + 1]), S)
  BY <1>2, <1>3, BelowOf
<1>4. /\ inputs1 \in Seq(Range(files_[l + 1])) /\ Range(inputs1) \subseteq S
      /\ \A g \in Range(files_[l + 1]) \ Range(inputs1) :
            Beside(g, Range(inputs0) \cup Range(inputs1))
      /\ \A T \in SUBSET S : Gapless(T) /\ Range(inputs0) \subseteq T
                                => Gapless(T \cup Range(inputs1))
  BY <1>b DEF LiesBelow
<1>5. PICK r0 : /\ IsRangeOf(r0, Range(inputs0))
                /\ Range(inputs1) = {f \in Range(files_[l + 1]) : Meets(f, r0)}
  BY <1>b DEF LiesBelow
<1>6. PICK both : both = inputs0 \o inputs1
  OBVIOUS
<1>7. Range(both) = Range(inputs0) \cup Range(inputs1) /\ both \in Seq(S) /\ both # <<>>
  <2>1. inputs1 \in Seq(S)
    BY <1>4, TablesOfLevel
  <2>2. both \in Seq(S) /\ both # <<>>
    BY <1>2, <1>6, <2>1
  <2>3. Range(both) = Range(inputs0) \cup Range(inputs1)
    BY <1>2, <1>6, <2>1, RangeJoin
  <2> QED BY <2>2, <2>3
<1>8. PICK r : r = RangeOf(both)
  OBVIOUS
<1>9. IsRangeOf(r, Range(both)) /\ r \in Ranges
  <2>1. IsRangeOf(r, Range(both))
    BY <1>7, <1>8, RangeOfTables
  <2> QED BY <2>1 DEF IsRangeOf
<1>10. PICK expanded0 : expanded0 = GetOverlappingInputs(l, r)
  OBVIOUS
<1>11. PICK in : in = Widened(l, inputs0, inputs1, expanded0)
  OBVIOUS
<1>12. /\ c.level = l /\ c.manual = manual
       /\ c.inputs0 = in[1] /\ c.inputs1 = in[2]
  <2>1. c = WithGrandparents(l, in, manual)
    BY <1>3, <1>6, <1>8, <1>10, <1>11 DEF WithOtherInputs, WithInputs1
  <2> QED BY <2>1 DEF WithGrandparents
<1>13. CASE ~ Widens(l, inputs0, inputs1, expanded0)
  <2>1. in = <<inputs0, inputs1>>
    BY <1>11, <1>13 DEF Widened
  <2>2. c.inputs0 = inputs0 /\ c.inputs1 = inputs1
    BY <1>12, <2>1
  <2>3. ~ manual => Gapless(Range(inputs0) \cup Range(inputs1))
    <3>1. Range(inputs0) \in SUBSET S
      BY <1>1, <1>2
    <3> QED BY <1>4, <3>1
  <2> QED BY <1>4, <1>12, <2>2, <2>3 DEF CompactionOK, InputsOf
<1>14. CASE Widens(l, inputs0, inputs1, expanded0)
  <2>1. PICK wide1 : wide1 = Below(l, expanded0)
    OBVIOUS
  <2>2. in = <<expanded0, wide1>>
    BY <1>11, <1>14, <2>1 DEF Widened
  <2>3. c.inputs0 = expanded0 /\ c.inputs1 = wide1
    BY <1>12, <2>2
  <2>4. /\ expanded0 \in Seq(S) /\ Range(expanded0) \subseteq Range(files_[l])
        /\ expanded0 \in Seq(Range(files_[l]))
    <3>1. expanded0 \in Seq(S) /\ Range(expanded0) \subseteq Range(files_[l])
      BY <1>1, <1>10, OverlappingWithin
    <3>2. \A i \in DOMAIN expanded0 : expanded0[i] \in Range(expanded0)
      BY DEF Range
    <3>3. expanded0 \in Seq(Range(files_[l]))
      BY <3>1, <3>2
    <3> QED BY <3>1, <3>3
  <2>5. expanded0 # <<>>
    BY <1>2, <1>14, <2>4 DEF Widens
  <2>b. LiesBelow(wide1, expanded0, Range(files_[l + 1]), S)
    BY <2>1, <2>4, <2>5, BelowOf
  <2>6. /\ wide1 \in Seq(Range(files_[l + 1])) /\ Range(wide1) \subseteq S
        /\ \A g \in Range(files_[l + 1]) \ Range(wide1) :
              Beside(g, Range(expanded0) \cup Range(wide1))
        /\ \A T \in SUBSET S : Gapless(T) /\ Range(expanded0) \subseteq T
                                  => Gapless(T \cup Range(wide1))
    BY <2>b DEF LiesBelow
  <2>7. ASSUME ~ manual PROVE Gapless(Range(expanded0) \cup Range(wide1))
    <3>1. PICK T : T = Range(both)
      OBVIOUS
    <3>2. T \subseteq S /\ T = Range(inputs0) \cup Range(inputs1)
      BY <1>1, <1>2, <1>4, <1>7, <3>1
    <3>3. Gapless(T)
      <4>1. Range(inputs0) \in SUBSET S
        BY <1>1, <1>2
      <4> QED BY <1>4, <2>7, <3>2, <4>1
    <3>4. Covered(T, r) /\ \A t \in T : Meets(t, r)
      BY <1>9, <3>1, <3>2, <3>3, SpanCovers, WithinMeets
    <3>5. /\ \A f \in Range(files_[l]) : Meets(f, r) => f \in Range(expanded0)
          /\ Gapless(T \cup Range(expanded0))
      BY <1>1, <1>9, <1>10, <3>2, <3>4, OverlappingAll
    <3>6. Range(inputs0) \subseteq Range(expanded0)
      BY <1>2, <3>2, <3>4, <3>5
    <3>7. PICK y : /\ IsRangeOf(y, Range(expanded0))
                   /\ Range(wide1) = {f \in Range(files_[l + 1]) : Meets(f, y)}
      BY <2>b DEF LiesBelow
    <3>8. Range(inputs1) \subseteq Range(wide1)
      <4>1. PICK F : F = Range(inputs0)
        OBVIOUS
      <4>2. PICK G : G = Range(expanded0)
        OBVIOUS
      <4>3. F \subseteq S /\ G \subseteq S /\ F \subseteq G /\ IsRangeOf(r0, F) /\ IsRangeOf(y, G)
        BY <1>1, <1>2, <1>5, <2>4, <3>6, <3>7, <4>1, <4>2
      <4>4. \A f \in S : Meets(f, r0) => Meets(f, y)
        BY <4>3, RangeOfMore
      <4> QED BY <1>1, <1>5, <3>7, <4>4
    <3>9. PICK U : U = T \cup Range(expanded0)
      OBVIOUS
    <3>10. U \in SUBSET S /\ Gapless(U) /\ Range(expanded0) \subseteq U
      BY <1>1, <2>4, <3>2, <3>5, <3>9
    <3>11. Gapless(U \cup Range(wide1))
      BY <2>6, <3>10
    <3>12. U \cup Range(wide1) = Range(expanded0) \cup Range(wide1)
      BY <3>2, <3>6, <3>8, <3>9
    <3> QED BY <3>11, <3>12
  <2> QED BY <1>12, <2>3, <2>4, <2>5, <2>6, <2>7 DEF CompactionOK, InputsOf
<1> QED BY <1>12, <1>13, <1>14

-----------------------------------------------------------------------------
(* What a read charges                                                     *)

ByNumber(F) == {p \in F \X F : Newest(p[1], p[2])}

(* Tables with numbers of their own can be put newest first. *)
LEMMA NewestFirstKeeps ==
    ASSUME NEW F, IsFiniteSet(F), \A f \in F : f.number \in Int,
           \A f, g \in F : f.number = g.number => f = g,
           NEW z, z = NewestFirst(F)
    PROVE  z \in Seq(F) /\ Len(z) = Cardinality(F) /\ Cardinality(F) \in Nat
<1> DEFINE N == Cardinality(F)
<1>1. N \in Nat
  BY FS_CardinalityType
<1>2. Orders(ByNumber(F), F)
  <2>1. \A f, g \in F : <<f, g>> \in ByNumber(F) <=> f.number > g.number
    BY DEF ByNumber, Newest
  <2> QED BY <2>1 DEF Orders
<1>3. \A e \in F : BelowIn(ByNumber(F), F, e) = {o \in F : Newest(o, e)}
  BY DEF BelowIn, ByNumber
<1>4. \A i \in 1 .. N : \E e \in F : Cardinality({o \in F : Newest(o, e)}) = i - 1
  <2> SUFFICES ASSUME NEW i \in 1 .. N
               PROVE  \E e \in F : Cardinality({o \in F : Newest(o, e)}) = i - 1
    OBVIOUS
  <2>1. PICK e \in F : Cardinality(BelowIn(ByNumber(F), F, e)) = i - 1
    BY <1>2, RankExists
  <2> QED BY <1>3, <2>1
<1>5. z = [i \in 1 .. N |-> CHOOSE e \in F : Cardinality({o \in F : Newest(o, e)}) = i - 1]
  BY DEF InOrder, NewestFirst
<1>6. \A i \in 1 .. N : z[i] \in F
  <2> SUFFICES ASSUME NEW i \in 1 .. N PROVE z[i] \in F
    OBVIOUS
  <2>1. z[i] = CHOOSE e \in F : Cardinality({o \in F : Newest(o, e)}) = i - 1
    BY <1>5
  <2> QED BY <1>4, <2>1
<1>7. z \in [1 .. N -> F]
  BY <1>5, <1>6
<1> QED BY <1>1, <1>7

(* A sequence has finitely many elements. *)
LEMMA RangeFinite ==
    ASSUME NEW S, NEW fs \in Seq(S)
    PROVE  IsFiniteSet(Range(fs)) /\ Range(fs) \subseteq S
<1>1. Len(fs) \in Nat /\ DOMAIN fs = 1 .. Len(fs)
  OBVIOUS
<1>2. IsFiniteSet(1 .. Len(fs))
  BY <1>1, FS_Interval
<1>3. fs \in Surjection(1 .. Len(fs), Range(fs))
  BY <1>1 DEF Surjection, Range
<1>4. IsFiniteSet(Range(fs))
  BY <1>2, <1>3, FS_Surjection
<1>5. Range(fs) \subseteq S
  BY DEF Range
<1> QED BY <1>4, <1>5

(***************************************************************************)
(* Of two tables that may hold the key the first is not on the last level. *)
(***************************************************************************)
LEMMA FirstCandidate ==
    ASSUME NEW S, files_ \in [Levels -> Seq(S)], \A f \in S : f.number \in Int,
           \A f, g \in Range(files_[0]) : f.number = g.number => f = g,
           NEW k, NEW s, NEW cs, cs = Candidates(files_, k, s)
    PROVE  /\ Len(cs) \in Nat /\ DOMAIN cs = 1 .. Len(cs)
           /\ Len(cs) >= 2 => IsCharged(cs[1], files_)
<1> DEFINE Holds(f) == SmallestEntry(f).key <= k /\ k <= LargestEntry(f).key
           Index(l) == FindFile(files_[l], [key |-> k, seq |-> s])
<1>1. kNumLevels \in Nat /\ kNumLevels >= 2 /\ 0 \in Levels /\ files_[0] \in Seq(S)
  <2>1. kNumLevels \in Nat /\ kNumLevels >= 2 /\ 0 \in Levels
    BY LevelsAssumption DEF Levels
  <2> QED BY <2>1
<1>2. PICK F : F = {f \in Range(files_[0]) : Holds(f)}
  OBVIOUS
<1>3. PICK level0 : level0 = NewestFirst(F)
  OBVIOUS
<1>4. PICK Ls : Ls = {l \in 1 .. kNumLevels - 1 :
                        /\ Index(l) <= Len(files_[l])
                        /\ SmallestEntry(files_[l][Index(l)]).key <= k}
  OBVIOUS
<1>5. PICK deeper : deeper = Ascending(Ls)
  OBVIOUS
<1>6. PICK a : a = [i \in DOMAIN level0 |-> [level |-> 0, file |-> level0[i]]]
  OBVIOUS
<1>7. PICK b : b = [i \in DOMAIN deeper |->
                      [level |-> deeper[i], file |-> files_[deeper[i]][Index(deeper[i])]]]
  OBVIOUS
<1>8. cs = a \o b
  BY <1>2, <1>3, <1>4, <1>5, <1>6, <1>7 DEF Candidates
<1>9. /\ level0 \in Seq(F) /\ DOMAIN level0 = 1 .. Len(level0) /\ Len(level0) \in Nat
      /\ F \subseteq Range(files_[0])
  <2>1. F \subseteq Range(files_[0])
    BY <1>2
  <2>2. IsFiniteSet(Range(files_[0])) /\ Range(files_[0]) \subseteq S
    BY <1>1, RangeFinite
  <2>3. IsFiniteSet(F) /\ (\A f \in F : f.number \in Int)
        /\ \A f, g \in F : f.number = g.number => f = g
    BY <2>1, <2>2, FS_Subset
  <2>4. level0 \in Seq(F)
    BY <1>3, <2>3, NewestFirstKeeps
  <2> QED BY <2>1, <2>4
<1>10. /\ deeper \in Seq(Ls) /\ DOMAIN deeper = 1 .. Len(deeper) /\ Len(deeper) \in Nat
       /\ \A i, j \in DOMAIN deeper : i < j => deeper[i] < deeper[j]
  <2>1. Ls \subseteq 1 .. kNumLevels - 1 /\ Ls \subseteq Nat
    BY <1>4
  <2>2. IsFiniteSet(1 .. kNumLevels - 1)
    BY <1>1, FS_Interval
  <2>3. IsFiniteSet(Ls)
    BY <2>1, <2>2, FS_Subset
  <2>4. deeper \in Seq(Ls) /\ \A i, j \in DOMAIN deeper : i < j => deeper[i] < deeper[j]
    BY <1>5, <2>1, <2>3, NumbersInOrder
  <2> QED BY <2>4
<1>11. \A l \in Ls : /\ l \in 1 .. kNumLevels - 1
                     /\ files_[l][Index(l)] \in Range(files_[l])
  <2> SUFFICES ASSUME NEW l \in Ls PROVE files_[l][Index(l)] \in Range(files_[l])
    BY <1>4
  <2>1. l \in Levels /\ Index(l) <= Len(files_[l])
    BY <1>4 DEF Levels
  <2>2. PICK fs : fs = files_[l]
    OBVIOUS
  <2>3. fs \in Seq(S)
    BY <2>1, <2>2
  <2>4. PICK x : x = Index(l)
    OBVIOUS
  <2>5. x \in 1 .. Len(fs) + 1 /\ x <= Len(fs)
    <3>1. x = FindFile(fs, [key |-> k, seq |-> s])
      BY <2>2, <2>4
    <3>2. x \in 1 .. Len(fs) + 1
      BY <2>3, <3>1, FindFileFinds
    <3> QED BY <2>1, <2>2, <2>4, <3>2
  <2>6. x \in DOMAIN fs
    BY <2>3, <2>5
  <2>7. fs[x] \in Range(fs)
    BY <2>6 DEF Range
  <2> QED BY <2>2, <2>4, <2>7
<1> HIDE DEF Index
<1>12. /\ DOMAIN a = 1 .. Len(level0) /\ DOMAIN b = 1 .. Len(deeper)
       /\ a = [i \in 1 .. Len(level0) |-> a[i]] /\ b = [i \in 1 .. Len(deeper) |-> b[i]]
  BY <1>6, <1>7, <1>9, <1>10
<1>c. Len(cs) \in Nat /\ DOMAIN cs = 1 .. Len(cs)
  <2>1. a \in Seq(Range(a)) /\ b \in Seq(Range(b))
    <3>1. (\A i \in DOMAIN a : a[i] \in Range(a)) /\ \A i \in DOMAIN b : b[i] \in Range(b)
      BY DEF Range
    <3>2. Len(level0) \in Nat /\ Len(deeper) \in Nat
      BY <1>9, <1>10
    <3> QED BY <1>12, <3>1, <3>2
  <2> QED BY <1>8, <2>1
<1>13. CASE Len(cs) >= 2 /\ Len(level0) > 0
  <2>1. 1 \in DOMAIN level0 /\ level0[1] \in F
    BY <1>9, <1>13
  <2>2. cs[1] = a[1]
    BY <1>8, <1>9, <1>10, <1>12, <1>13
  <2>3. a[1] = [level |-> 0, file |-> level0[1]]
    BY <1>6, <2>1
  <2>4. cs[1].level = 0 /\ cs[1].file \in Range(files_[0])
    BY <1>9, <2>1, <2>2, <2>3
  <2>5. 0 \in 0 .. kNumLevels - 2
    BY <1>1
  <2> QED BY <2>4, <2>5 DEF IsCharged
<1>14. CASE Len(cs) >= 2 /\ ~ (Len(level0) > 0)
  <2>1. Len(level0) = 0
    BY <1>9, <1>14
  <2>2. Len(cs) = Len(deeper) /\ cs[1] = b[1] /\ Len(deeper) >= 2
    BY <1>8, <1>9, <1>10, <1>12, <1>14, <2>1
  <2>3. 1 \in DOMAIN deeper /\ 2 \in DOMAIN deeper /\ deeper[1] < deeper[2]
        /\ deeper[1] \in Ls /\ deeper[2] \in Ls
    BY <1>10, <2>2
  <2>4. deeper[1] \in 0 .. kNumLevels - 2
    BY <1>1, <1>11, <2>3
  <2>5. b[1] = [level |-> deeper[1], file |-> files_[deeper[1]][Index(deeper[1])]]
    BY <1>7, <2>3
  <2>6. cs[1].level = deeper[1] /\ cs[1].file \in Range(files_[deeper[1]])
    BY <1>11, <2>2, <2>3, <2>5
  <2> QED BY <2>4, <2>6 DEF IsCharged
<1> QED BY <1>c, <1>13, <1>14

(* A charged table is a table of its level, and not of the last level. *)
LEMMA ChargedTable ==
    ASSUME NEW S, files_ \in [Levels -> Seq(S)], \A f \in S : f.number \in Int,
           \A f, g \in Range(files_[0]) : f.number = g.number => f = g,
           NEW k, NEW s, NEW t \in {Charged(k, s), ReadSample(k)} \ {None}
    PROVE  IsCharged(t, files_)
<1>1. CASE t = ReadSample(k)
  <2>1. PICK cs : cs = Candidates(files_, k, MaxSequence)
    OBVIOUS
  <2>2. Len(cs) >= 2 /\ t = cs[1]
    BY <1>1, <2>1 DEF ReadSample
  <2> QED BY <2>1, <2>2, FirstCandidate
<1>2. CASE t = Charged(k, s)
  <2>1. PICK cs : cs = Candidates(files_, k, s)
    OBVIOUS
  <2>2. PICK hits : hits = {i \in DOMAIN cs : VisibleAt(cs[i].file.entries, k, s) # {}}
    OBVIOUS
  <2>3. PICK read : read = IF hits = {} THEN Len(cs) ELSE LeastOf(hits)
    OBVIOUS
  <2>4. read >= 2 /\ t = cs[1]
    BY <1>2, <2>1, <2>2, <2>3 DEF Charged
  <2>5. Len(cs) \in Nat /\ DOMAIN cs = 1 .. Len(cs)
    BY <2>1, FirstCandidate
  <2>6. Len(cs) >= 2
    <3>1. CASE hits = {}
      BY <2>3, <2>4, <3>1
    <3>2. CASE hits # {}
      <4>1. hits \subseteq Nat /\ hits \subseteq DOMAIN cs
        BY <2>2, <2>5
      <4>2. read \in DOMAIN cs
        BY <2>3, <3>2, <4>1, LeastIs
      <4> QED BY <2>4, <2>5, <4>2
    <3> QED BY <3>1, <3>2
  <2> QED BY <2>1, <2>4, <2>6, FirstCandidate
<1> QED BY <1>1, <1>2

-----------------------------------------------------------------------------
(* Merging                                                                 *)

(***************************************************************************)
(* The outputs so far and the one being written hold some of the entries   *)
(* D, each output before the next.                                         *)
(***************************************************************************)
Pieces(outs, cur, D) ==
    /\ outs \in Seq((SUBSET D) \ {{}}) /\ cur \subseteq D
    /\ \A i, j \in DOMAIN outs : i < j => LiesBefore(outs[i], outs[j])
    /\ \A i \in DOMAIN outs : LiesBefore(outs[i], cur)

(* Closing the current output, *)
LEMMA PiecesClosed ==
    ASSUME NEW D, NEW outs, NEW cur, Pieces(outs, cur, D)
    PROVE  Pieces(Closed(outs, cur), {}, D)
<1>1. PICK P : P = (SUBSET D) \ {{}}
  OBVIOUS
<1>2. outs \in Seq(P) /\ Len(outs) \in Nat /\ DOMAIN outs = 1 .. Len(outs)
  BY <1>1 DEF Pieces
<1>3. CASE cur = {}
  BY <1>3 DEF Closed, Pieces, LiesBefore
<1>4. CASE cur # {}
  <2>1. PICK z : z = Append(outs, cur)
    OBVIOUS
  <2>2. cur \in P
    BY <1>1, <1>4 DEF Pieces
  <2>3. /\ z \in Seq(P) /\ DOMAIN z = 1 .. Len(outs) + 1
        /\ \A i \in 1 .. Len(outs) : z[i] = outs[i]
        /\ z[Len(outs) + 1] = cur
    BY <1>2, <2>1, <2>2
  <2>4. ASSUME NEW i \in DOMAIN z, NEW j \in DOMAIN z, i < j
        PROVE  LiesBefore(z[i], z[j])
    <3>1. i \in 1 .. Len(outs) /\ z[i] = outs[i]
      BY <1>2, <2>3, <2>4
    <3>2. CASE j \in 1 .. Len(outs)
      BY <1>2, <2>3, <2>4, <3>1, <3>2 DEF Pieces
    <3>3. CASE j = Len(outs) + 1
      BY <1>2, <2>3, <3>1, <3>3 DEF Pieces
    <3> QED BY <1>2, <2>3, <3>2, <3>3
  <2>5. \A i \in DOMAIN z : LiesBefore(z[i], {})
    BY DEF LiesBefore
  <2>6. Pieces(z, {}, D)
    BY <1>1, <2>3, <2>4, <2>5 DEF Pieces
  <2> QED BY <1>4, <2>1, <2>6 DEF Closed
<1> QED BY <1>3, <1>4

(* dropping an entry *)
LEMMA PiecesMore ==
    ASSUME NEW D, NEW outs, NEW cur, Pieces(outs, cur, D), NEW D2, D \subseteq D2
    PROVE  Pieces(outs, cur, D2)
<1>1. PICK P : P = (SUBSET D) \ {{}}
  OBVIOUS
<1>2. PICK Q : Q = (SUBSET D2) \ {{}}
  OBVIOUS
<1>3. P \subseteq Q
  BY <1>1, <1>2
<1>4. outs \in Seq(P)
  BY <1>1 DEF Pieces
<1>5. outs \in Seq(Q)
  BY <1>3, <1>4
<1> QED BY <1>2, <1>5 DEF Pieces

(* and adding the next entry to the current output keep the pieces. *)
LEMMA PiecesAdd ==
    ASSUME NEW D, NEW outs, NEW cur, Pieces(outs, cur, D),
           NEW e, \A d \in D : Precedes(d, e)
    PROVE  Pieces(outs, cur \cup {e}, D \cup {e})
<1>1. Pieces(outs, cur, D \cup {e})
  BY PiecesMore
<1>2. \A i \in DOMAIN outs : outs[i] \subseteq D
  <2>1. PICK P : P = (SUBSET D) \ {{}}
    OBVIOUS
  <2>2. outs \in Seq(P)
    BY <2>1 DEF Pieces
  <2>3. \A i \in DOMAIN outs : outs[i] \in P
    BY <2>2
  <2> QED BY <2>1, <2>3
<1>3. \A i \in DOMAIN outs : LiesBefore(outs[i], cur \cup {e})
  <2>1. \A i \in DOMAIN outs : LiesBefore(outs[i], cur)
    BY DEF Pieces
  <2> QED BY <1>2, <2>1 DEF LiesBefore
<1>4. cur \cup {e} \subseteq D \cup {e}
  BY DEF Pieces
<1> QED BY <1>1, <1>3, <1>4 DEF Pieces

(* One round of the loop. *)
LEMMA MergeStepKeeps ==
    ASSUME NEW c, NEW st, NEW e, NEW D, Pieces(st.outs, st.cur, D),
           \A d \in D : Precedes(d, e), NEW z, z = MergeStep(c, st, e)
    PROVE  Pieces(z.outs, z.cur, D \cup {e})
<1>1. PICK stop : stop = (Overlapped(c, st, e) > kMaxGrandParentOverlap)
  OBVIOUS
<1>2. PICK outs : outs = IF stop THEN Closed(st.outs, st.cur) ELSE st.outs
  OBVIOUS
<1>3. PICK cur : cur = IF stop THEN {} ELSE st.cur
  OBVIOUS
<1>4. PICK last : last = IF st.key = e.key THEN st.last ELSE MaxSequence
  OBVIOUS
<1>5. PICK new : new = IF Drops(c, e, last) THEN cur ELSE cur \cup {e}
  OBVIOUS
<1>6. PICK full : full = (new # cur /\ Cardinality(new) >= kTargetFileSize)
  OBVIOUS
<1>7. /\ z.outs = (IF full THEN Append(outs, new) ELSE outs)
      /\ z.cur = (IF full THEN {} ELSE new)
  BY <1>1, <1>2, <1>3, <1>4, <1>5, <1>6 DEF MergeStep
<1>8. Pieces(outs, cur, D)
  <2>1. CASE stop
    BY <1>2, <1>3, <2>1, PiecesClosed
  <2>2. CASE ~ stop
    BY <1>2, <1>3, <2>2
  <2> QED BY <2>1, <2>2
<1>9. Pieces(outs, new, D \cup {e})
  <2>1. CASE Drops(c, e, last)
    BY <1>5, <1>8, <2>1, PiecesMore
  <2>2. CASE ~ Drops(c, e, last)
    BY <1>5, <1>8, <2>2, PiecesAdd
  <2> QED BY <2>1, <2>2
<1>10. CASE full
  <2>1. new # {}
    BY <1>5, <1>6, <1>10
  <2>2. Closed(outs, new) = Append(outs, new)
    BY <2>1 DEF Closed
  <2>3. z.outs = Closed(outs, new) /\ z.cur = {}
    BY <1>7, <1>10, <2>2
  <2> QED BY <1>9, <2>3, PiecesClosed
<1>11. CASE ~ full
  BY <1>7, <1>9, <1>11
<1> QED BY <1>10, <1>11

InputEntries(c) == UNION {f.entries : f \in InputsOf(c)}

(***************************************************************************)
(* What a compaction writes: tables of entries of its inputs, each before  *)
(* the next.                                                               *)
(***************************************************************************)
LEMMA OutputsOf ==
    ASSUME NEW c, NEW S, c.inputs0 \in Seq(S), c.inputs1 \in Seq(S),
           NEW M, M = InputEntries(c), Sound(M),
           NEW z, z = MergedOutputs(c)
    PROVE  Pieces(z, {}, M)
<1>1. PICK merged : merged = Merged(M)
  OBVIOUS
<1>2. UNION {f.entries : f \in Range(c.inputs0 \o c.inputs1)} = M
  <2>1. PICK j : j = c.inputs0 \o c.inputs1
    OBVIOUS
  <2>2. Range(j) = InputsOf(c)
    <3>1. PICK a \in Seq(S) : a = c.inputs0
      OBVIOUS
    <3>2. PICK b \in Seq(S) : b = c.inputs1
      OBVIOUS
    <3>3. j = a \o b
      BY <2>1, <3>1, <3>2
    <3>4. Range(j) = Range(a) \cup Range(b)
      BY <3>3, RangeJoin
    <3> QED BY <3>1, <3>2, <3>4 DEF InputsOf
  <2> QED BY <2>1, <2>2 DEF InputEntries
<1>3. PICK N : N = Len(merged)
  OBVIOUS
<1>4. /\ IsInOrder(merged, M, ByKey(M)) /\ merged \in Seq(M)
      /\ N \in Nat /\ DOMAIN merged = 1 .. N /\ N = Cardinality(M)
  BY <1>1, <1>3, EntriesInOrder
<1>5. PICK x : x = [c |-> c, merged |-> merged]
  OBVIOUS
<1>6. PICK a : a = [outs |-> <<>>, cur |-> {}, key |-> 0, last |-> 0,
                    seen |-> FALSE, passed |-> 0, overlapped |-> 0]
  OBVIOUS
<1>7. PICK end : end = LoopOf("merge", x, a, N)
  OBVIOUS
<1>8. z = Closed(end.outs, end.cur)
  BY <1>1, <1>2, <1>3, <1>5, <1>6, <1>7 DEF MergedOutputs, LoopOf, RoundOf
<1>9. PICK st : /\ st[0] = a /\ st[N] = end
                /\ \A i \in 1 .. N : st[i] = RoundOf("merge", x, i, st[i - 1])
  BY <1>4, <1>7, LevelLoopResult DEF LoopEnds
<1>10. \A i \in 1 .. N : st[i] = MergeStep(c, st[i - 1], merged[i])
  BY <1>5, <1>9 DEF RoundOf
<1>11. \A i, j \in 1 .. N : i < j => Precedes(merged[i], merged[j])
  BY <1>4 DEF IsInOrder, ByKey
<1> DEFINE Done(n) == {merged[i] : i \in 1 .. n}
           I == {n \in 0 .. N : Pieces(st[n].outs, st[n].cur, Done(n))}
<1>12. 0 \in I
  <2>1. a.outs = <<>> /\ a.cur = {}
    BY <1>6
  <2>2. Pieces(<<>>, {}, Done(0))
    BY DEF Pieces
  <2>3. Pieces(st[0].outs, st[0].cur, Done(0)) /\ 0 \in 0 .. N
    <3> HIDE DEF Done
    <3> QED BY <1>4, <1>9, <2>1, <2>2
  <2> QED BY <2>3
<1>13. ASSUME NEW n \in 1 .. N, n - 1 \in I PROVE n \in I
  <2>1. PICK D : D = Done(n - 1)
    OBVIOUS
  <2>2. Pieces(st[n - 1].outs, st[n - 1].cur, D)
    BY <1>13, <2>1
  <2>3. \A d \in D : Precedes(d, merged[n])
    <3> SUFFICES ASSUME NEW i \in 1 .. n - 1 PROVE Precedes(merged[i], merged[n])
      BY <2>1
    <3>1. i \in 1 .. N /\ i < n
      BY <1>4
    <3> QED BY <1>11, <3>1
  <2>4. st[n] = MergeStep(c, st[n - 1], merged[n])
    BY <1>10
  <2>5. Pieces(st[n].outs, st[n].cur, D \cup {merged[n]})
    BY <2>2, <2>3, <2>4, MergeStepKeeps
  <2>6. D \cup {merged[n]} = Done(n)
    BY <2>1
  <2>7. n \in 0 .. N
    OBVIOUS
  <2> QED BY <2>5, <2>6, <2>7
<1>14. N \in I
  <2>1. \A n \in 0 .. N : n \in I
    <3> HIDE DEF I
    <3> QED BY <1>4, <1>12, <1>13, Upwards
  <2>2. N \in 0 .. N
    BY <1>4
  <2> HIDE DEF I
  <2> QED BY <2>1, <2>2
<1>15. Pieces(end.outs, end.cur, Done(N))
  BY <1>9, <1>14
<1>16. Done(N) \subseteq M
  BY <1>4
<1>17. Pieces(end.outs, end.cur, M)
  <2> HIDE DEF Done
  <2> QED BY <1>15, <1>16, PiecesMore
<1> QED BY <1>8, <1>17, PiecesClosed

-----------------------------------------------------------------------------
(* A new version                                                           *)

LEMMA MoreWrites ==
    ASSUME NEW W, WritesOK(W), NEW w \in [key : Keys, type : {"value", "deletion"}],
           NEW V, V = Append(W, w)
    PROVE  /\ WritesOK(V) /\ Len(W) \in Nat /\ Len(V) = Len(W) + 1
           /\ EntriesOf(W) \subseteq EntriesOf(V)
           /\ [key |-> w.key, seq |-> Len(W) + 1, type |-> w.type] \in EntriesOf(V)
<1>1. PICK R : R = [key : Keys, type : {"value", "deletion"}]
  OBVIOUS
<1>2. W \in Seq(R) /\ w \in R
  BY <1>1 DEF WritesOK
<1>3. /\ V \in Seq(R) /\ Len(W) \in Nat /\ Len(V) = Len(W) + 1 /\ DOMAIN V = 1 .. Len(W) + 1
      /\ DOMAIN W = 1 .. Len(W)
      /\ \A i \in 1 .. Len(W) : V[i] = W[i]
      /\ V[Len(W) + 1] = w
  BY <1>2
<1>4. EntriesOf(W) \subseteq EntriesOf(V)
  <2> SUFFICES ASSUME NEW i \in 1 .. Len(W)
               PROVE  [key |-> W[i].key, seq |-> i, type |-> W[i].type] \in EntriesOf(V)
    BY <1>3 DEF EntriesOf
  <2>1. i \in DOMAIN V /\ V[i] = W[i]
    BY <1>3
  <2> QED BY <2>1 DEF EntriesOf
<1>5. [key |-> w.key, seq |-> Len(W) + 1, type |-> w.type] \in EntriesOf(V)
  <2>1. PICK n : n = Len(W) + 1
    OBVIOUS
  <2>2. n \in DOMAIN V /\ V[n] = w
    BY <1>3, <2>1
  <2>3. [key |-> V[n].key, seq |-> n, type |-> V[n].type] \in EntriesOf(V)
    BY <2>2 DEF EntriesOf
  <2> QED BY <2>1, <2>2, <2>3
<1> QED BY <1>1, <1>3, <1>4, <1>5 DEF WritesOK

(* Tables stay tables when there are more writes or higher numbers. *)
LEMMA MoreTables ==
    ASSUME NEW W, NEW V, EntriesOf(W) \subseteq EntriesOf(V), NEW n \in Nat, NEW m \in Nat, n <= m
    PROVE  /\ TablesOf(W, n) \subseteq TablesOf(V, m)
           /\ \A F : FilesOK(F, W, n) => FilesOK(F, V, m)
<1>1. PICK S : S = TablesOf(W, n)
  OBVIOUS
<1>2. PICK T : T = TablesOf(V, m)
  OBVIOUS
<1>3. S \subseteq T
  <2>1. PICK P : P = (SUBSET EntriesOf(W)) \ {{}}
    OBVIOUS
  <2>2. PICK Q : Q = (SUBSET EntriesOf(V)) \ {{}}
    OBVIOUS
  <2>3. P \subseteq Q
    BY <2>1, <2>2
  <2>4. 0 .. n - 1 \subseteq 0 .. m - 1
    OBVIOUS
  <2>5. S = [number : 0 .. n - 1, entries : P] /\ T = [number : 0 .. m - 1, entries : Q]
    BY <1>1, <1>2, <2>1, <2>2 DEF TablesOf
  <2> QED BY <2>3, <2>4, <2>5
<1>4. ASSUME NEW F, FilesOK(F, W, n) PROVE FilesOK(F, V, m)
  <2>1. F \in [Levels -> Seq(S)]
    BY <1>1, <1>4 DEF FilesOK
  <2>2. F \in [Levels -> Seq(T)]
    <3>1. \A l \in Levels : F[l] \in Seq(T)
      BY <1>3, <2>1
    <3> QED BY <2>1, <3>1
  <2> QED BY <1>2, <1>4, <2>2 DEF FilesOK
<1> QED BY <1>1, <1>2, <1>3, <1>4

(***************************************************************************)
(* Levels rebuilt from tables that are apart, or numbered apart on level 0.*)
(***************************************************************************)
LEMMA Rebuilt ==
    ASSUME NEW W, WritesOK(W), NEW n \in Nat, NEW K,
           \A l \in Levels : K[l] \subseteq TablesOf(W, n) /\ IsFiniteSet(K[l]),
           \A f, g \in K[0] : f.number = g.number => f = g,
           \A l \in Levels \ {0} : Apart(K[l]),
           NEW F, F = [l \in Levels |-> Sorted(K[l])]
    PROVE  FilesOK(F, W, n) /\ \A l \in Levels : Range(F[l]) = K[l]
<1>1. PICK E : E = EntriesOf(W)
  OBVIOUS
<1>2. PICK S : S = TablesOf(W, n)
  OBVIOUS
<1>3. Sound(E) /\ \A f \in S : IsTable(f, E) /\ f.number \in Nat
  <2>1. AllTables(S, E)
    BY <1>1, <1>2, TablesSound
  <2>2. \A f \in S : f.number \in Nat
    BY <1>2 DEF TablesOf
  <2> QED BY <2>1, <2>2 DEF AllTables
<1>4. 0 \in Levels
  BY LevelsAssumption DEF Levels
<1>5. /\ F[0] \in Seq(S) /\ Range(F[0]) = K[0]
  <2>1. PICK z : z = Sorted(K[0])
    OBVIOUS
  <2>2. F[0] = z
    BY <1>4, <2>1
  <2>3. /\ IsFiniteSet(K[0]) /\ K[0] \subseteq S
    BY <1>2, <1>4
  <2>4. Numbered(K[0])
    BY <1>3, <2>3 DEF Numbered
  <2>5. \A f \in K[0] : IsTable(f, E)
    BY <1>3, <2>3
  <2>6. z \in Seq(K[0]) /\ Range(z) = K[0]
    BY <1>3, <2>1, <2>3, <2>4, <2>5, TablesInOrder
  <2> QED BY <2>2, <2>3, <2>6
<1>6. ASSUME NEW l \in Levels \ {0}
      PROVE  F[l] \in Seq(S) /\ Range(F[l]) = K[l] /\ Chained(F[l])
  <2>1. PICK z : z = Sorted(K[l])
    OBVIOUS
  <2>2. F[l] = z
    BY <2>1
  <2>3. /\ IsFiniteSet(K[l]) /\ K[l] \subseteq S /\ Apart(K[l])
    BY <1>2
  <2>4. \A f \in K[l] : IsTable(f, E) /\ f.number \in Nat
    BY <1>3, <2>3
  <2>5. z \in Seq(K[l]) /\ Range(z) = K[l] /\ Chained(z)
    BY <1>3, <2>1, <2>3, <2>4, ApartInOrder
  <2> QED BY <2>2, <2>3, <2>5
<1>7. F \in [Levels -> Seq(S)]
  <2>1. \A l \in Levels : F[l] \in Seq(S)
    BY <1>5, <1>6
  <2>2. DOMAIN F = Levels /\ F = [l \in Levels |-> F[l]]
    OBVIOUS
  <2> QED BY <2>1, <2>2
<1>8. \A f, g \in Range(F[0]) : f.number = g.number => f = g
  BY <1>5
<1>9. FilesOK(F, W, n)
  BY <1>2, <1>6, <1>7, <1>8 DEF FilesOK
<1> QED BY <1>5, <1>6, <1>9

(* The tables of one level. *)
LEMMA LevelTables ==
    ASSUME NEW F, NEW W, NEW n, FilesOK(F, W, n), NEW l \in Levels
    PROVE  /\ Range(F[l]) \subseteq TablesOf(W, n) /\ IsFiniteSet(Range(F[l]))
           /\ l # 0 => Apart(Range(F[l]))
<1>1. F[l] \in Seq(TablesOf(W, n)) /\ (l # 0 => Chained(F[l]))
  BY DEF FilesOK
<1> QED BY <1>1, RangeFinite, ChainedApart

-----------------------------------------------------------------------------
(* The invariant                                                           *)

ManualRequests == [level : 0 .. kNumLevels - 2, lo : Nat, hi : Nat, set : BOOLEAN]

(***************************************************************************)
(* The levels, the compaction in progress, the charged table and the       *)
(* request of a manual compaction agree with each other.                   *)
(***************************************************************************)
LevelsSound ==
    /\ next_file_number_ \in Nat
    /\ FilesOK(files_, written, next_file_number_)
    /\ compaction = None \/ CompactionOK(compaction, files_)
    /\ file_to_compact_ = None \/ IsCharged(file_to_compact_, files_)
    /\ manual_compaction_ = None \/ manual_compaction_ \in ManualRequests

LevelsInv ==
    /\ WritesOK(written)
    /\ left \in [{"write", "snapshot", "seek", "manual"} -> Nat]
    /\ Len(written) + left.write <= MaxSequence
    /\ mem_ \subseteq EntriesOf(written) /\ imm_ \subseteq EntriesOf(written)
    /\ "flush into a gap" \notin exposed => LevelsSound

(* What the invariant says of the tables, as the lemmas above ask for it. *)
LEMMA LevelsGiven ==
    ASSUME LevelsInv, LevelsSound
    PROVE  /\ AllTables(TablesOf(written, next_file_number_), EntriesOf(written))
           /\ files_ \in [Levels -> Seq(TablesOf(written, next_file_number_))]
           /\ \A l \in Levels \ {0} : Chained(files_[l])
           /\ \A f, g \in Range(files_[0]) : f.number = g.number => f = g
           /\ \A f \in TablesOf(written, next_file_number_) :
                 f.number \in Int /\ f.number < next_file_number_
           /\ Len(written) <= MaxSequence
<1>1. Len(written) \in Nat /\ left.write \in Nat /\ MaxSequence \in Nat
  BY WritesSound, LevelsAssumption DEF LevelsInv
<1>2. Len(written) <= MaxSequence
  BY <1>1 DEF LevelsInv
<1>3. AllTables(TablesOf(written, next_file_number_), EntriesOf(written))
  BY TablesSound DEF LevelsInv
<1>4. \A f \in TablesOf(written, next_file_number_) :
                 f.number \in Int /\ f.number < next_file_number_
  BY DEF LevelsSound, TablesOf
<1> QED BY <1>2, <1>3, <1>4 DEF LevelsSound, FilesOK

(* A database to start from satisfies the invariant. *)
LEMMA InvInit ==
    LevelsInit => LevelsInv
<1> SUFFICES ASSUME LevelsInit PROVE LevelsInv
  OBVIOUS
<1>1. PICK db \in Stored : /\ files_ = db.files /\ written = db.written
                           /\ left = db.left /\ next_file_number_ = db.next
  BY DEF LevelsInit
<1>2. StoredIsSound(db)
  BY LevelsAssumption
<1>3. /\ WritesOK(written)
      /\ left \in [{"write", "snapshot", "seek", "manual"} -> Nat]
      /\ Len(written) + left.write <= MaxSequence
      /\ next_file_number_ \in Nat
  BY <1>1, <1>2 DEF StoredIsSound, WritesOK
<1>4. PICK S : S = TablesOf(written, next_file_number_)
  OBVIOUS
<1>5. /\ files_ \in [Levels -> Seq(S)]
      /\ \A f, g \in Range(files_[0]) : f.number = g.number => f = g
      /\ \A l \in Levels \ {0} : Disjoint(files_[l])
  BY <1>1, <1>2, <1>4 DEF StoredIsSound
<1>6. Sound(EntriesOf(written)) /\ \A f \in S : IsTable(f, EntriesOf(written))
  BY <1>3, <1>4, TablesSound DEF AllTables
<1>7. \A l \in Levels \ {0} : Chained(files_[l])
  BY <1>5, <1>6, ChainedMeansDisjoint
<1>8. FilesOK(files_, written, next_file_number_)
  BY <1>4, <1>5, <1>7 DEF FilesOK
<1>9. compaction = None /\ file_to_compact_ = None /\ manual_compaction_ = None
      /\ mem_ = {} /\ imm_ = {}
  BY DEF LevelsInit
<1> QED BY <1>3, <1>8, <1>9 DEF LevelsInv, LevelsSound

(* A use of a bound lowers it. *)
LEMMA UsesKeeps ==
    ASSUME NEW B, left \in [B -> Nat], NEW what \in B, Uses(what)
    PROVE  /\ left' \in [B -> Nat]
           /\ \A b \in B : left'[b] <= left[b]
           /\ left'[what] = left[what] - 1
<1>1. left[what] > 0 /\ left' = [left EXCEPT ![what] = @ - 1] /\ left[what] \in Nat
  BY DEF Uses
<1>2. \A b \in B : left'[b] = (IF b = what THEN left[b] - 1 ELSE left[b]) /\ left[b] \in Nat
  BY <1>1
<1>3. left' \in [B -> Nat]
  BY <1>1
<1> QED BY <1>1, <1>2, <1>3

(***************************************************************************)
(* What leaves the levels and what concerns them as they are, and neither  *)
(* writes nor allows more writes.                                          *)
(***************************************************************************)
LEMMA InvKept ==
    ASSUME LevelsInv,
           UNCHANGED <<files_, next_file_number_, written, exposed>>,
           left' \in [{"write", "snapshot", "seek", "manual"} -> Nat],
           left'.write <= left.write,
           mem_' \subseteq EntriesOf(written), imm_' \subseteq EntriesOf(written),
           LevelsSound => /\ compaction' = None \/ CompactionOK(compaction', files_)
                          /\ file_to_compact_' = None \/ IsCharged(file_to_compact_', files_)
                          /\ manual_compaction_' = None \/ manual_compaction_' \in ManualRequests
    PROVE  LevelsInv'
<1>1. /\ files_' = files_ /\ next_file_number_' = next_file_number_
      /\ written' = written /\ exposed' = exposed
  OBVIOUS
<1>2. LevelsSound => LevelsSound'
  BY <1>1 DEF LevelsSound
<1>3. Len(written') + left'.write <= MaxSequence
  <2>1. Len(written) \in Nat /\ left.write \in Nat /\ left'.write \in Nat /\ MaxSequence \in Nat
    BY WritesSound, LevelsAssumption DEF LevelsInv
  <2>2. Len(written) + left.write <= MaxSequence
    BY DEF LevelsInv
  <2>3. Len(written) + left'.write <= MaxSequence
    BY <2>1, <2>2
  <2> QED BY <1>1, <2>3
<1> QED BY <1>1, <1>2, <1>3 DEF LevelsInv

(* A write adds an entry; the tables stay tables. *)
LEMMA WriteKeeps ==
    ASSUME LevelsInv, NEW k \in Keys, NEW t \in {"value", "deletion"}, WriteEntry(k, t)
    PROVE  LevelsInv'
<1>1. PICK w : w = [key |-> k, type |-> t]
  OBVIOUS
<1>2. /\ written' = Append(written, w)
      /\ mem_' = mem_ \cup {[key |-> k, seq |-> Len(written) + 1, type |-> t]}
      /\ imm_' = imm_ /\ next_file_number_' = next_file_number_ /\ files_' = files_
      /\ compaction' = compaction /\ file_to_compact_' = file_to_compact_
      /\ manual_compaction_' = manual_compaction_ /\ exposed' = exposed
      /\ Uses("write")
  BY <1>1 DEF WriteEntry, LastSequence
<1>3. /\ WritesOK(written') /\ Len(written) \in Nat /\ Len(written') = Len(written) + 1
      /\ EntriesOf(written) \subseteq EntriesOf(written')
      /\ [key |-> k, seq |-> Len(written) + 1, type |-> t] \in EntriesOf(written')
  <2>1. /\ w \in [key : Keys, type : {"value", "deletion"}] /\ WritesOK(written)
        /\ w.key = k /\ w.type = t
    BY <1>1 DEF LevelsInv
  <2>2. PICK V : V = Append(written, w)
    OBVIOUS
  <2>3. /\ WritesOK(V) /\ Len(written) \in Nat /\ Len(V) = Len(written) + 1
        /\ EntriesOf(written) \subseteq EntriesOf(V)
        /\ [key |-> w.key, seq |-> Len(written) + 1, type |-> w.type] \in EntriesOf(V)
    BY <2>1, <2>2, MoreWrites
  <2> QED BY <1>2, <2>1, <2>2, <2>3
<1>4. /\ left' \in [{"write", "snapshot", "seek", "manual"} -> Nat]
      /\ Len(written') + left'.write <= MaxSequence
  <2>1. PICK B : B = {"write", "snapshot", "seek", "manual"}
    OBVIOUS
  <2>2. left \in [B -> Nat] /\ "write" \in B
    BY <2>1 DEF LevelsInv
  <2>3. left' \in [B -> Nat] /\ left'["write"] = left["write"] - 1 /\ left["write"] \in Nat
    BY <1>2, <2>2, UsesKeeps
  <2>4. Len(written) + left["write"] <= MaxSequence
    BY DEF LevelsInv
  <2>5. Len(written') + left'["write"] <= MaxSequence
    BY <1>3, <2>3, <2>4, LevelsAssumption
  <2> QED BY <2>1, <2>3, <2>5
<1>5. mem_' \subseteq EntriesOf(written') /\ imm_' \subseteq EntriesOf(written')
  BY <1>2, <1>3 DEF LevelsInv
<1>6. LevelsSound => LevelsSound'
  <2> SUFFICES ASSUME LevelsSound PROVE LevelsSound'
    OBVIOUS
  <2>1. next_file_number_ \in Nat /\ next_file_number_ <= next_file_number_
    BY DEF LevelsSound
  <2>2. FilesOK(files_, written', next_file_number_)
    BY <1>3, <2>1, MoreTables DEF LevelsSound
  <2> QED BY <1>2, <2>2 DEF LevelsSound
<1> QED BY <1>2, <1>3, <1>4, <1>5, <1>6 DEF LevelsInv

(* What clients do to the memtables, the snapshots and the manual request. *)
LEMMA ClientKeeps ==
    ASSUME LevelsInv,
           \/ SwitchMemTable \/ GetSnapshot \/ \E s \in snapshots_ : ReleaseSnapshot(s)
           \/ \E l \in 0 .. kNumLevels - 2, lo, hi \in Keys : lo <= hi /\ CompactRange(l, lo, hi)
           \/ CompactRangeAgain \/ ManualCompactionDone
    PROVE  LevelsInv'
<1> DEFINE B == {"write", "snapshot", "seek", "manual"}
<1>1. left \in [B -> Nat] /\ mem_ \subseteq EntriesOf(written) /\ imm_ \subseteq EntriesOf(written)
  BY DEF LevelsInv
<1>2. left' \in [B -> Nat] /\ left'["write"] <= left["write"]
  <2>1. CASE left' = left
    BY <1>1, <2>1
  <2>2. CASE Uses("snapshot") \/ Uses("manual")
    <3>1. "write" \in B /\ "snapshot" \in B /\ "manual" \in B
      OBVIOUS
    <3> HIDE DEF B
    <3> QED BY <1>1, <2>2, <3>1, UsesKeeps
  <2> QED BY <2>1, <2>2 DEF SwitchMemTable, GetSnapshot, ReleaseSnapshot, CompactRange,
                            CompactRangeAgain, ManualCompactionDone
<1>3. UNCHANGED <<files_, next_file_number_, written, exposed, compaction, file_to_compact_>>
  BY DEF SwitchMemTable, GetSnapshot, ReleaseSnapshot, CompactRange,
         CompactRangeAgain, ManualCompactionDone
<1>4. mem_' \subseteq EntriesOf(written) /\ imm_' \subseteq EntriesOf(written)
  BY <1>1 DEF SwitchMemTable, GetSnapshot, ReleaseSnapshot, CompactRange,
              CompactRangeAgain, ManualCompactionDone
<1>5. LevelsSound => manual_compaction_' = None \/ manual_compaction_' \in ManualRequests
  <2> SUFFICES ASSUME LevelsSound
               PROVE  manual_compaction_' = None \/ manual_compaction_' \in ManualRequests
    OBVIOUS
  <2>1. manual_compaction_ = None \/ manual_compaction_ \in ManualRequests
    BY DEF LevelsSound
  <2>2. CASE manual_compaction_' = manual_compaction_ \/ manual_compaction_' = None
    BY <2>1, <2>2
  <2>3. CASE \E l \in 0 .. kNumLevels - 2, lo, hi \in Keys : CompactRange(l, lo, hi)
    <3>1. PICK l \in 0 .. kNumLevels - 2, lo \in Keys, hi \in Keys :
             manual_compaction_' = [level |-> l, lo |-> lo, hi |-> hi, set |-> TRUE]
      BY <2>3 DEF CompactRange
    <3>2. lo \in Nat /\ hi \in Nat
      BY LevelsAssumption
    <3> QED BY <3>1, <3>2 DEF ManualRequests
  <2>4. CASE CompactRangeAgain
    <3>1. /\ manual_compaction_ \in ManualRequests
          /\ manual_compaction_' = [manual_compaction_ EXCEPT !.set = TRUE]
      BY <2>1, <2>4 DEF CompactRangeAgain
    <3> QED BY <3>1 DEF ManualRequests
  <2> QED BY <2>2, <2>3, <2>4 DEF SwitchMemTable, GetSnapshot, ReleaseSnapshot,
                                  ManualCompactionDone
<1>6. LevelsSound => /\ compaction' = None \/ CompactionOK(compaction', files_)
                     /\ file_to_compact_' = None \/ IsCharged(file_to_compact_', files_)
  BY <1>3 DEF LevelsSound
<1> QED BY <1>2, <1>3, <1>4, <1>5, <1>6, InvKept

(* UpdateStats charges a table of the current version. *)
LEMMA ChargeKeeps ==
    ASSUME LevelsInv, NEW k \in Keys, UpdateStats(k)
    PROVE  LevelsInv'
<1> DEFINE B == {"write", "snapshot", "seek", "manual"}
<1>1. left \in [B -> Nat] /\ mem_ \subseteq EntriesOf(written) /\ imm_ \subseteq EntriesOf(written)
  BY DEF LevelsInv
<1>2. left' \in [B -> Nat] /\ left'["write"] <= left["write"]
  <2>1. Uses("seek") /\ "seek" \in B /\ "write" \in B
    BY DEF UpdateStats
  <2> HIDE DEF B
  <2> QED BY <1>1, <2>1, UsesKeeps
<1>3. /\ UNCHANGED <<files_, next_file_number_, written, exposed, compaction,
                     manual_compaction_, mem_, imm_>>
      /\ file_to_compact_' \in {Charged(k, LastSequence), ReadSample(k)} \ {None}
  BY DEF UpdateStats
<1>4. ASSUME LevelsSound PROVE IsCharged(file_to_compact_', files_)
  <2>1. PICK S : S = TablesOf(written, next_file_number_)
    OBVIOUS
  <2>2. /\ files_ \in [Levels -> Seq(S)] /\ \A f \in S : f.number \in Int
        /\ \A f, g \in Range(files_[0]) : f.number = g.number => f = g
    BY <1>4, <2>1, LevelsGiven
  <2> QED BY <1>3, <2>2, ChargedTable
<1>5. LevelsSound => /\ compaction' = None \/ CompactionOK(compaction', files_)
                     /\ manual_compaction_' = None \/ manual_compaction_' \in ManualRequests
  BY <1>3 DEF LevelsSound
<1> QED BY <1>1, <1>2, <1>3, <1>4, <1>5, InvKept

(***************************************************************************)
(* A new version: what is kept and what is added on each level.            *)
(***************************************************************************)
KeptOf(l, deleted) == {f \in Range(files_[l]) : <<l, f.number>> \notin deleted}
AddedTo(l, added) == {a[2] : a \in {x \in added : x[1] = l}}

(* One table added, to its level alone. *)
LEMMA AddedOne ==
    ASSUME NEW l, NEW f, NEW m
    PROVE  AddedTo(m, {<<l, f>>}) = IF m = l THEN {f} ELSE {}
<1>1. PICK t : t = <<l, f>>
  OBVIOUS
<1>2. t[1] = l /\ t[2] = f
  BY <1>1
<1>3. AddedTo(m, {t}) = {a[2] : a \in {x \in {t} : x[1] = m}}
  BY DEF AddedTo
<1>4. CASE m = l
  <2>1. {x \in {t} : x[1] = m} = {t}
    BY <1>2, <1>4
  <2>2. {a[2] : a \in {t}} = {f}
    BY <1>2
  <2> QED BY <1>1, <1>3, <1>4, <2>1, <2>2
<1>5. CASE m # l
  <2>1. {x \in {t} : x[1] = m} = {}
    BY <1>2, <1>5
  <2>2. {a[2] : a \in {}} = {}
    OBVIOUS
  <2> QED BY <1>1, <1>3, <1>5, <2>1, <2>2
<1> QED BY <1>4, <1>5

(* Nothing deleted, everything kept. *)
LEMMA KeptAll ==
    ASSUME NEW m
    PROVE  KeptOf(m, {}) = Range(files_[m])
BY DEF KeptOf

(* A version is sound if what is kept and added is apart on each level. *)
LEMMA Applied ==
    ASSUME NEW W, WritesOK(W), NEW m \in Nat, FilesOK(files_, W, m), NEW n \in Nat, m <= n,
           NEW deleted, NEW added, Apply(deleted, added),
           \A l \in Levels : AddedTo(l, added) \subseteq TablesOf(W, n) /\ IsFiniteSet(AddedTo(l, added)),
           \A f, g \in KeptOf(0, deleted) \cup AddedTo(0, added) : f.number = g.number => f = g,
           \A l \in Levels \ {0} : Apart(KeptOf(l, deleted) \cup AddedTo(l, added))
    PROVE  /\ FilesOK(files_', W, n)
           /\ \A l \in Levels : Range(files_'[l]) = KeptOf(l, deleted) \cup AddedTo(l, added)
           /\ file_to_compact_' = None
<1>1. PICK K : K = [l \in Levels |-> KeptOf(l, deleted) \cup AddedTo(l, added)]
  OBVIOUS
<1>2. \A l \in Levels : K[l] = KeptOf(l, deleted) \cup AddedTo(l, added)
  BY <1>1
<1>3. 0 \in Levels
  BY LevelsAssumption DEF Levels
<1>4. ASSUME NEW l \in Levels PROVE K[l] \subseteq TablesOf(W, n) /\ IsFiniteSet(K[l])
  <2>1. /\ Range(files_[l]) \subseteq TablesOf(W, m) /\ IsFiniteSet(Range(files_[l]))
    BY LevelTables
  <2>2. TablesOf(W, m) \subseteq TablesOf(W, n)
    BY MoreTables
  <2>3. KeptOf(l, deleted) \subseteq Range(files_[l])
    BY DEF KeptOf
  <2>4. IsFiniteSet(KeptOf(l, deleted))
    BY <2>1, <2>3, FS_Subset
  <2>5. IsFiniteSet(KeptOf(l, deleted) \cup AddedTo(l, added))
    BY <2>4, FS_Union
  <2> QED BY <1>2, <2>1, <2>2, <2>3, <2>5
<1>5. \A f, g \in K[0] : f.number = g.number => f = g
  BY <1>2, <1>3
<1>6. \A l \in Levels \ {0} : Apart(K[l])
  BY <1>2
<1>7. PICK F : F = files_'
  OBVIOUS
<1>8. F = [l \in Levels |-> Sorted(K[l])]
  BY <1>2, <1>7 DEF Apply, KeptOf, AddedTo
<1>9. FilesOK(F, W, n) /\ \A l \in Levels : Range(F[l]) = K[l]
  BY <1>4, <1>5, <1>6, <1>8, Rebuilt
<1>10. file_to_compact_' = None
  BY DEF Apply
<1> QED BY <1>2, <1>7, <1>9, <1>10

-----------------------------------------------------------------------------
(* Flushes                                                                 *)

(* A table that is beside each one of a level can join it. *)
LEMMA BesideEach ==
    ASSUME NEW F, Apart(F), NEW f,
           \A g \in F : LiesBefore(f.entries, g.entries) \/ LiesBefore(g.entries, f.entries)
    PROVE  Apart(F \cup {f})
BY DEF Apart

(* Two tables whose ranges do not meet are beside each other. *)
LEMMA MissedByTable ==
    ASSUME NEW E, Sound(E), NEW f, IsTable(f, E), NEW r \in Ranges, r.lo = Low(f), r.hi = High(f),
           NEW g, IsTable(g, E), ~ Meets(g, r)
    PROVE  /\ High(g) < Low(f) \/ High(f) < Low(g)
           /\ LiesBefore(f.entries, g.entries) \/ LiesBefore(g.entries, f.entries)
           /\ ~ Meets(f, [lo |-> Low(g), hi |-> High(g)])
<1>1. /\ Low(f) \in Nat /\ High(f) \in Nat /\ Low(f) <= High(f)
      /\ Low(g) \in Nat /\ High(g) \in Nat /\ Low(g) <= High(g)
  BY Ends
<1>2. ~ (High(g) >= Low(f) /\ Low(g) <= High(f))
  BY DEF Meets, High, Low
<1>3. High(g) < Low(f) \/ High(f) < Low(g)
  BY <1>1, <1>2
<1>4. LiesBefore(f.entries, g.entries) \/ LiesBefore(g.entries, f.entries)
  BY <1>3, LiesBeforeOrder
<1>5. ~ Meets(f, [lo |-> Low(g), hi |-> High(g)])
  BY <1>1, <1>3 DEF Meets, High, Low
<1> QED BY <1>3, <1>4, <1>5

(***************************************************************************)
(* A memtable that meets none of some tables without a gap is beside them. *)
(***************************************************************************)
LEMMA OutsideIsBeside ==
    ASSUME NEW E, NEW S, AllTables(S, E), NEW T, T \subseteq S, Gapless(T),
           NEW f, IsTable(f, E), NEW r \in Ranges, r.lo = Low(f), r.hi = High(f), Misses(r, T)
    PROVE  Beside(f, T)
<1>1. OneSide(r, T)
  BY DEF Gapless
<1>2. Sound(E) /\ \A t \in T : IsTable(t, E)
  BY DEF AllTables
<1>3. \A t \in T : /\ High(f) < Low(t) => LiesBefore(f.entries, t.entries)
                   /\ High(t) < Low(f) => LiesBefore(t.entries, f.entries)
  BY <1>2, LiesBeforeOrder
<1> QED BY <1>1, <1>3 DEF OneSide, Beside

(***************************************************************************)
(* A memtable flushed while a compaction is in progress stays beside its   *)
(* inputs.                                                                 *)
(***************************************************************************)
LEMMA FlushBeside ==
    ASSUME NEW E, NEW S, AllTables(S, E), NEW c, NEW F, F \in [Levels -> Seq(S)],
           CompactionOK(c, F),
           NEW f, IsTable(f, E), NEW r, r = RangeOf(<<f>>),
           \A l \in 0 .. c.level + 1 : Misses(r, Range(F[l])),
           c.manual => Meeting(<<f>>, RangeOf(c.inputs0 \o c.inputs1)) = <<>>
    PROVE  Beside(f, InputsOf(c))
<1>1. Sound(E) /\ r \in Ranges /\ r.lo = Low(f) /\ r.hi = High(f)
  BY RangeOfOne DEF AllTables
<1>2. /\ c.level \in 0 .. kNumLevels - 2 /\ c.manual \in BOOLEAN
      /\ c.inputs0 \in Seq(Range(F[c.level])) /\ c.inputs0 # <<>>
      /\ c.inputs1 \in Seq(Range(F[c.level + 1]))
      /\ ~ c.manual => Gapless(InputsOf(c))
  BY DEF CompactionOK
<1>3. c.level \in Levels /\ c.level + 1 \in Levels
  BY <1>2, LevelsAssumption DEF Levels
<1>4. F[c.level] \in Seq(S) /\ F[c.level + 1] \in Seq(S)
  BY <1>3
<1>5. Range(F[c.level]) \subseteq S /\ Range(F[c.level + 1]) \subseteq S
  BY <1>4, RangeFinite
<1>6. /\ Range(c.inputs0) \subseteq Range(F[c.level])
      /\ Range(c.inputs1) \subseteq Range(F[c.level + 1])
  BY <1>2, RangeFinite
<1>7. PICK T : T = InputsOf(c)
  OBVIOUS
<1>8. T \subseteq S
  BY <1>5, <1>6, <1>7 DEF InputsOf
<1>9. CASE ~ c.manual
  <2>1. Misses(r, Range(F[c.level])) /\ Misses(r, Range(F[c.level + 1]))
    <3>1. PICK l : l = c.level
      OBVIOUS
    <3>2. l \in Nat
      BY <1>2, <3>1, LevelsAssumption
    <3>3. l \in 0 .. l + 1 /\ l + 1 \in 0 .. l + 1
      BY <3>2
    <3> QED BY <3>1, <3>3
  <2>2. Misses(r, T)
    BY <1>6, <1>7, <2>1 DEF Misses, InputsOf
  <2> QED BY <1>1, <1>2, <1>7, <1>8, <1>9, <2>2, OutsideIsBeside
<1>10. CASE c.manual
  <2>1. PICK a \in Seq(S) : a = c.inputs0
    BY <1>2, <1>5
  <2>2. PICK b \in Seq(S) : b = c.inputs1
    BY <1>2, <1>5
  <2>3. PICK both : both = a \o b
    OBVIOUS
  <2>4. Range(both) = T
    BY <1>7, <2>1, <2>2, <2>3, RangeJoin DEF InputsOf
  <2>5. both \in Seq(S) /\ both # <<>>
    BY <1>2, <2>1, <2>3
  <2>6. PICK y : y = RangeOf(both)
    OBVIOUS
  <2>7. IsRangeOf(y, T)
    BY <2>4, <2>5, <2>6, RangeOfTables
  <2>8. ~ Meets(f, y)
    <3>1. PICK one : one = <<f>>
      OBVIOUS
    <3>2. PICK P : P = {f}
      OBVIOUS
    <3>3. one \in Seq(P) /\ f \in Range(one)
      BY <3>1, <3>2 DEF Range
    <3>4. PICK z : z = Meeting(one, y)
      OBVIOUS
    <3>5. z = <<>>
      BY <1>10, <2>1, <2>2, <2>3, <2>6, <3>1, <3>4
    <3>6. Range(z) = {g \in Range(one) : Meets(g, y)}
      BY <3>3, <3>4, MeetingTables
    <3>7. Range(z) = {}
      BY <3>5 DEF Range
    <3> QED BY <3>3, <3>6, <3>7
  <2>9. PICK Q : Q = S \cup {f}
    OBVIOUS
  <2>10. AllTables(Q, E) /\ T \subseteq Q /\ f \in Q
    BY <1>8, <2>9 DEF AllTables
  <2>11. y \in Ranges /\ \A t \in T : y.lo <= Low(t) /\ High(t) <= y.hi
    BY <2>7 DEF IsRangeOf
  <2> QED BY <1>7, <2>8, <2>10, <2>11, MissingIsBeside
<1> QED BY <1>2, <1>9, <1>10

(* The flush of f to the level l. *)
Flushes(l, f) ==
    /\ f = [number |-> next_file_number_, entries |-> imm_] /\ imm_ # {}
    /\ l = PickLevelForMemTableOutput(RangeOf(<<f>>))
    /\ Apply({}, {<<l, f>>})
    /\ next_file_number_' = next_file_number_ + 1 /\ imm_' = {}
    /\ mem_' = mem_ /\ compaction' = compaction /\ manual_compaction_' = manual_compaction_
    /\ written' = written /\ left' = left

(* The flush of a memtable, but not into the gap of a manual compaction. *)
LEMMA FlushSound ==
    ASSUME LevelsInv, LevelsSound, NEW f, NEW l, Flushes(l, f), ~ IntoGap(l, f)
    PROVE  LevelsSound'
<1>1. f = [number |-> next_file_number_, entries |-> imm_]
  BY DEF Flushes
<1>2. PICK r : r = RangeOf(<<f>>)
  OBVIOUS
<1>3. l = PickLevelForMemTableOutput(r)
  BY <1>2 DEF Flushes
<1>4. /\ imm_ # {} /\ Apply({}, {<<l, f>>})
      /\ next_file_number_' = next_file_number_ + 1 /\ imm_' = {}
      /\ mem_' = mem_ /\ compaction' = compaction /\ manual_compaction_' = manual_compaction_
      /\ written' = written /\ left' = left
  BY DEF Flushes
<1>5. PICK n : n = next_file_number_
  OBVIOUS
<1>6. PICK W : W = written
  OBVIOUS
<1>7. n \in Nat /\ n + 1 \in Nat /\ n <= n + 1 /\ WritesOK(W) /\ imm_ \subseteq EntriesOf(W)
  <2>1. n \in Nat
    BY <1>5 DEF LevelsSound
  <2>2. WritesOK(W) /\ imm_ \subseteq EntriesOf(W)
    BY <1>6 DEF LevelsInv
  <2>3. n + 1 \in Nat /\ n <= n + 1
    BY <2>1
  <2> QED BY <2>1, <2>2, <2>3
<1>8. LevelsSound /\ ~ IntoGap(l, f)
  OBVIOUS
<1>9. PICK E : E = EntriesOf(W)
  OBVIOUS
<1>10. PICK S : S = TablesOf(W, n)
  OBVIOUS
<1>11. /\ AllTables(S, E) /\ Sound(E) /\ files_ \in [Levels -> Seq(S)]
       /\ \A g \in S : g.number \in Int /\ g.number < n
       /\ \A g, h \in Range(files_[0]) : g.number = h.number => g = h
       /\ Len(W) <= MaxSequence
       /\ FilesOK(files_, W, n)
  BY <1>5, <1>6, <1>8, <1>9, <1>10, LevelsGiven DEF LevelsSound, AllTables
<1>12. IsTable(f, E) /\ f.number = n
  BY <1>1, <1>4, <1>5, <1>7, <1>9 DEF IsTable
<1>13. f \in TablesOf(W, n + 1)
  <2>1. f.entries \in (SUBSET EntriesOf(W)) \ {{}} /\ n \in 0 .. n + 1 - 1
    BY <1>7, <1>9, <1>12 DEF IsTable
  <2> QED BY <1>1, <1>5, <2>1 DEF TablesOf
<1>14. r \in Ranges /\ r.lo = Low(f) /\ r.hi = High(f)
  BY <1>2, <1>11, <1>12, RangeOfOne
<1>15. /\ l \in Levels
       /\ l # 0 => \A m \in 0 .. l : Misses(r, Range(files_[m]))
  BY <1>3, <1>7, <1>11, <1>14, FlushLevel
<1>16. PICK added : added = {<<l, f>>}
  OBVIOUS
<1>17. \A m : /\ AddedTo(m, added) = (IF m = l THEN {f} ELSE {})
              /\ KeptOf(m, {}) = Range(files_[m])
  BY <1>16, AddedOne, KeptAll
<1>18. \A m \in Levels : AddedTo(m, added) \subseteq TablesOf(W, n + 1)
                         /\ IsFiniteSet(AddedTo(m, added))
  <2>1. IsFiniteSet({f}) /\ IsFiniteSet({})
    BY FS_Singleton, FS_EmptySet
  <2> SUFFICES ASSUME NEW m \in Levels
               PROVE  AddedTo(m, added) \subseteq TablesOf(W, n + 1) /\ IsFiniteSet(AddedTo(m, added))
    OBVIOUS
  <2>2. CASE m = l
    <3>1. AddedTo(m, added) = {f}
      BY <1>17, <2>2
    <3> QED BY <1>13, <2>1, <3>1
  <2>3. CASE m # l
    <3>1. AddedTo(m, added) = {}
      BY <1>17, <2>3
    <3> QED BY <2>1, <3>1
  <2> QED BY <2>2, <2>3
<1>19. 0 \in Levels /\ Range(files_[0]) \subseteq S
  <2>1. 0 \in Levels
    BY LevelsAssumption DEF Levels
  <2> QED BY <1>11, <2>1, RangeFinite
<1>20. \A g, h \in KeptOf(0, {}) \cup AddedTo(0, added) : g.number = h.number => g = h
  BY <1>7, <1>11, <1>12, <1>17, <1>19
<1>21. ASSUME NEW m \in Levels \ {0} PROVE Apart(KeptOf(m, {}) \cup AddedTo(m, added))
  <2>1. PICK F : F = Range(files_[m])
    OBVIOUS
  <2>2. F \subseteq S /\ Apart(F)
    BY <1>10, <1>11, <2>1, LevelTables
  <2>3. CASE m # l
    <3>1. KeptOf(m, {}) \cup AddedTo(m, added) = F
      BY <1>17, <2>1, <2>3
    <3> QED BY <2>2, <3>1
  <2>4. CASE m = l
    <3>1. Misses(r, F)
      <4>1. l \in 0 .. l
        BY <1>15, LevelsAssumption DEF Levels
      <4> QED BY <1>15, <2>1, <2>4, <4>1
    <3>2. \A g \in F : LiesBefore(f.entries, g.entries) \/ LiesBefore(g.entries, f.entries)
      BY <1>11, <1>12, <1>14, <2>2, <3>1, MissedByTable DEF Misses, AllTables
    <3>3. KeptOf(m, {}) \cup AddedTo(m, added) = F \cup {f}
      BY <1>17, <2>1, <2>4
    <3> QED BY <2>2, <3>2, <3>3, BesideEach
  <2> QED BY <2>3, <2>4
<1>22. Apply({}, added)
  BY <1>4, <1>16
<1>23. /\ FilesOK(files_', W, n + 1) /\ file_to_compact_' = None
       /\ \A m \in Levels : Range(files_'[m]) = KeptOf(m, {}) \cup AddedTo(m, added)
  <2>1. PICK q : q = n + 1
    OBVIOUS
  <2>2. PICK d : d = {}
    OBVIOUS
  <2>3. q \in Nat /\ n <= q /\ n \in Nat /\ WritesOK(W) /\ FilesOK(files_, W, n) /\ Apply(d, added)
    BY <1>7, <1>11, <1>22, <2>1, <2>2
  <2>4. \A m \in Levels : AddedTo(m, added) \subseteq TablesOf(W, q)
                          /\ IsFiniteSet(AddedTo(m, added))
    BY <1>18, <2>1
  <2>5. \A g, h \in KeptOf(0, d) \cup AddedTo(0, added) : g.number = h.number => g = h
    BY <1>20, <2>2
  <2>6. \A m \in Levels \ {0} : Apart(KeptOf(m, d) \cup AddedTo(m, added))
    BY <1>21, <2>2
  <2>7. /\ FilesOK(files_', W, q) /\ file_to_compact_' = None
        /\ \A m \in Levels : Range(files_'[m]) = KeptOf(m, d) \cup AddedTo(m, added)
    BY <2>3, <2>4, <2>5, <2>6, Applied
  <2> QED BY <2>1, <2>2, <2>7
<1>24. \A m \in Levels : Range(files_'[m]) = Range(files_[m]) \cup (IF m = l THEN {f} ELSE {})
  BY <1>17, <1>23
<1>25. ASSUME compaction # None PROVE CompactionOK(compaction, files_')
  <2>1. PICK c : c = compaction
    OBVIOUS
  <2>2. CompactionOK(c, files_)
    BY <1>8, <1>25, <2>1 DEF LevelsSound
  <2>3. /\ c.level \in 0 .. kNumLevels - 2 /\ c.manual \in BOOLEAN
        /\ c.inputs0 \in Seq(Range(files_[c.level])) /\ c.inputs0 # <<>>
        /\ c.inputs1 \in Seq(Range(files_[c.level + 1]))
        /\ \A g \in Range(files_[c.level + 1]) \ Range(c.inputs1) : Beside(g, InputsOf(c))
        /\ ~ c.manual => Gapless(InputsOf(c))
    BY <2>2 DEF CompactionOK
  <2>4. /\ c.level \in Levels /\ c.level + 1 \in Levels
        /\ c.level \in Nat /\ c.level + 1 > c.level /\ c.level + 1 # 0
    BY <2>3, LevelsAssumption DEF Levels
  <2>5. /\ Range(files_[c.level]) \subseteq Range(files_'[c.level])
        /\ Range(files_[c.level + 1]) \subseteq Range(files_'[c.level + 1])
    BY <1>24, <2>4
  <2>6. c.inputs0 \in Seq(Range(files_'[c.level])) /\ c.inputs1 \in Seq(Range(files_'[c.level + 1]))
    BY <2>3, <2>5
  <2>7. ASSUME l = c.level + 1 PROVE Beside(f, InputsOf(c))
    <3>1. \A m \in 0 .. c.level + 1 : Misses(r, Range(files_[m]))
      BY <1>15, <2>4, <2>7
    <3>2. c.manual => Meeting(<<f>>, RangeOf(c.inputs0 \o c.inputs1)) = <<>>
      BY <1>8, <1>25, <2>1, <2>4, <2>7 DEF IntoGap
    <3> QED BY <1>2, <1>11, <1>12, <2>2, <3>1, <3>2, FlushBeside
  <2>8. \A g \in Range(files_'[c.level + 1]) \ Range(c.inputs1) : Beside(g, InputsOf(c))
    BY <1>24, <2>3, <2>4, <2>7
  <2> QED BY <2>1, <2>3, <2>6, <2>8 DEF CompactionOK
<1>26. FilesOK(files_', written', next_file_number_')
  BY <1>4, <1>5, <1>6, <1>23
<1>27. next_file_number_' \in Nat
  BY <1>4, <1>5, <1>7
<1> QED BY <1>4, <1>8, <1>23, <1>25, <1>26, <1>27 DEF LevelsSound

(* CompactMemTable keeps the invariant. *)
LEMMA FlushKeeps ==
    ASSUME LevelsInv, CompactMemTable
    PROVE  LevelsInv'
<1>1. PICK f : f = [number |-> next_file_number_, entries |-> imm_]
  OBVIOUS
<1>2. PICK l : l = PickLevelForMemTableOutput(RangeOf(<<f>>))
  OBVIOUS
<1>3. /\ Flushes(l, f)
      /\ exposed' = exposed \cup (IF IntoGap(l, f) THEN {"flush into a gap"} ELSE {})
  BY <1>1, <1>2 DEF CompactMemTable, Flushes
<1>4. "flush into a gap" \notin exposed' => "flush into a gap" \notin exposed /\ ~ IntoGap(l, f)
  BY <1>3
<1>5. "flush into a gap" \notin exposed' => LevelsSound'
  <2>1. ("flush into a gap" \notin exposed) => LevelsSound
    BY DEF LevelsInv
  <2> QED BY <1>3, <1>4, <2>1, FlushSound
<1>6. /\ next_file_number_' = next_file_number_ + 1 /\ imm_' = {}
      /\ mem_' = mem_ /\ written' = written /\ left' = left
  BY <1>3 DEF Flushes
<1> QED BY <1>5, <1>6 DEF LevelsInv

-----------------------------------------------------------------------------
(* Compactions                                                             *)

LEMMA ApartPart ==
    ASSUME NEW F, Apart(F), NEW G, G \subseteq F
    PROVE  Apart(G)
BY DEF Apart

(* Tables that are apart from others can join them. *)
LEMMA ApartJoin ==
    ASSUME NEW F, Apart(F), NEW G, Apart(G),
           \A f \in F, g \in G : LiesBefore(f.entries, g.entries) \/ LiesBefore(g.entries, f.entries)
    PROVE  Apart(F \cup G)
BY DEF Apart

(* The tables O of a new version are of a memtable or of a merge. *)
LEMMA AddedMany ==
    ASSUME NEW l, NEW O, NEW added, added = {<<l, f>> : f \in O}, NEW m
    PROVE  AddedTo(m, added) = IF m = l THEN O ELSE {}
<1>1. \A t \in added : t[1] = l /\ t[2] \in O
  OBVIOUS
<1>2. \A f \in O : \E t \in added : t[2] = f
  <2> SUFFICES ASSUME NEW f \in O PROVE \E t \in added : t[2] = f
    OBVIOUS
  <2>1. PICK t : t = <<l, f>>
    OBVIOUS
  <2>2. t \in added /\ t[2] = f
    BY <2>1
  <2> QED BY <2>2
<1>3. AddedTo(m, added) = {a[2] : a \in {x \in added : x[1] = m}}
  BY DEF AddedTo
<1>4. CASE m = l
  <2>1. {x \in added : x[1] = m} = added
    BY <1>1, <1>4
  <2>2. {a[2] : a \in added} = O
    BY <1>1, <1>2
  <2> QED BY <1>3, <1>4, <2>1, <2>2
<1>5. CASE m # l
  <2>1. {x \in added : x[1] = m} = {}
    BY <1>1, <1>5
  <2>2. {a[2] : a \in {}} = {}
    OBVIOUS
  <2> QED BY <1>3, <1>5, <2>1, <2>2
<1> QED BY <1>4, <1>5

(***************************************************************************)
(* A table moved to the next level is beside the tables there.             *)
(***************************************************************************)
LEMMA TrivialMoveSound ==
    ASSUME LevelsInv, LevelsSound, NEW c, CompactionOK(c, files_), IsTrivialMove(c),
           Apply({<<c.level, c.inputs0[1].number>>}, {<<c.level + 1, c.inputs0[1]>>}),
           UNCHANGED <<next_file_number_, written, manual_compaction_>>, compaction' = None
    PROVE  LevelsSound'
<1>1. PICK W : W = written
  OBVIOUS
<1>2. PICK n : n = next_file_number_
  OBVIOUS
<1>3. PICK S : S = TablesOf(W, n)
  OBVIOUS
<1>4. PICK l : l = c.level
  OBVIOUS
<1>5. PICK f : f = c.inputs0[1]
  OBVIOUS
<1>6. n \in Nat /\ n <= n /\ WritesOK(W)
  <2>1. n \in Nat
    BY <1>2 DEF LevelsSound
  <2>2. WritesOK(W)
    BY <1>1 DEF LevelsInv
  <2>3. n <= n
    BY <2>1
  <2> QED BY <2>1, <2>2, <2>3
<1>7. /\ files_ \in [Levels -> Seq(S)] /\ FilesOK(files_, W, n)
      /\ \A g, h \in Range(files_[0]) : g.number = h.number => g = h
  BY <1>1, <1>2, <1>3, LevelsGiven DEF LevelsSound
<1>8. /\ l \in 0 .. kNumLevels - 2
      /\ c.inputs0 \in Seq(Range(files_[l])) /\ Len(c.inputs0) = 1 /\ c.inputs1 = <<>>
      /\ \A g \in Range(files_[l + 1]) \ Range(c.inputs1) : Beside(g, InputsOf(c))
  BY <1>4 DEF CompactionOK, IsTrivialMove
<1>9. /\ l \in Levels /\ l + 1 \in Levels /\ l + 1 # 0 /\ 0 \in Levels
      /\ Range(files_[l]) \subseteq S
  <2>1. 0 \in Levels
    BY LevelsAssumption DEF Levels
  <2> QED BY <1>7, <1>8, <2>1, TablesOfLevel
<1>10. f \in S /\ f \in InputsOf(c) /\ Range(c.inputs1) = {}
  <2>1. 1 \in DOMAIN c.inputs0 /\ f \in Range(files_[l])
    BY <1>5, <1>8
  <2>2. f \in Range(c.inputs0)
    BY <1>5, <2>1 DEF Range
  <2>3. Range(c.inputs1) = {}
    BY <1>8 DEF Range
  <2> QED BY <1>9, <2>1, <2>2, <2>3 DEF InputsOf
<1>11. \A g \in Range(files_[l + 1]) :
          LiesBefore(f.entries, g.entries) \/ LiesBefore(g.entries, f.entries)
  BY <1>8, <1>10 DEF Beside
<1>12. PICK k : k = l + 1
  OBVIOUS
<1>13. PICK added : added = {<<k, f>>}
  OBVIOUS
<1>14. PICK deleted : deleted = {<<l, f.number>>}
  OBVIOUS
<1>15. Apply(deleted, added)
  BY <1>4, <1>5, <1>12, <1>13, <1>14
<1>16. \A m : /\ AddedTo(m, added) = (IF m = k THEN {f} ELSE {})
              /\ KeptOf(m, deleted) \subseteq Range(files_[m])
  <2>1. \A m : AddedTo(m, added) = (IF m = k THEN {f} ELSE {})
    BY <1>13, AddedOne
  <2>2. \A m : KeptOf(m, deleted) \subseteq Range(files_[m])
    BY DEF KeptOf
  <2> QED BY <2>1, <2>2
<1>17. \A m \in Levels : AddedTo(m, added) \subseteq TablesOf(W, n) /\ IsFiniteSet(AddedTo(m, added))
  <2>1. IsFiniteSet({f}) /\ IsFiniteSet({})
    BY FS_Singleton, FS_EmptySet
  <2> SUFFICES ASSUME NEW m \in Levels
               PROVE  AddedTo(m, added) \subseteq S /\ IsFiniteSet(AddedTo(m, added))
    BY <1>3
  <2>2. CASE m = k
    <3>1. AddedTo(m, added) = {f}
      BY <1>16, <2>2
    <3> QED BY <1>10, <2>1, <3>1
  <2>3. CASE m # k
    <3>1. AddedTo(m, added) = {}
      BY <1>16, <2>3
    <3> QED BY <2>1, <3>1
  <2> QED BY <2>2, <2>3
<1>18. \A g, h \in KeptOf(0, deleted) \cup AddedTo(0, added) : g.number = h.number => g = h
  <2>1. AddedTo(0, added) = {}
    BY <1>9, <1>12, <1>16
  <2>2. KeptOf(0, deleted) \subseteq Range(files_[0])
    BY <1>16
  <2> QED BY <1>7, <2>1, <2>2
<1>19. ASSUME NEW m \in Levels \ {0} PROVE Apart(KeptOf(m, deleted) \cup AddedTo(m, added))
  <2>1. PICK F : F = KeptOf(m, deleted)
    OBVIOUS
  <2>2. F \subseteq Range(files_[m]) /\ Apart(F)
    <3>1. Apart(Range(files_[m]))
      BY <1>7, LevelTables
    <3> QED BY <1>16, <2>1, <3>1, ApartPart
  <2>3. CASE m # k
    <3>1. KeptOf(m, deleted) \cup AddedTo(m, added) = F
      BY <1>16, <2>1, <2>3
    <3> QED BY <2>2, <3>1
  <2>4. CASE m = k
    <3>1. KeptOf(m, deleted) \cup AddedTo(m, added) = F \cup {f}
      BY <1>16, <2>1, <2>4
    <3>2. \A g \in F : LiesBefore(f.entries, g.entries) \/ LiesBefore(g.entries, f.entries)
      BY <1>11, <1>12, <2>2, <2>4
    <3> QED BY <2>2, <3>1, <3>2, BesideEach
  <2> QED BY <2>3, <2>4
<1>20. FilesOK(files_', W, n) /\ file_to_compact_' = None
  BY <1>6, <1>7, <1>15, <1>17, <1>18, <1>19, Applied
<1> QED BY <1>1, <1>2, <1>20 DEF LevelsSound

(* An automatic compaction is set up, or is a trivial move. *)
LEMMA StartKeeps ==
    ASSUME LevelsInv, StartCompaction
    PROVE  LevelsInv'
<1>1. PICK p : p = Picked
  OBVIOUS
<1>2. PICK c : c = WithOtherInputs(p.level, p.inputs0, FALSE)
  OBVIOUS
<1>3. /\ compaction = None /\ (SizeCompaction \/ file_to_compact_ # None)
      /\ UNCHANGED <<mem_, imm_, next_file_number_, manual_compaction_, written, exposed, left>>
      /\ IF IsTrivialMove(c)
         THEN /\ Apply({<<c.level, c.inputs0[1].number>>}, {<<c.level + 1, c.inputs0[1]>>})
              /\ compaction' = compaction
         ELSE compaction' = c /\ files_' = files_ /\ file_to_compact_' = file_to_compact_
  BY <1>1, <1>2 DEF StartCompaction, Idle
<1>4. LevelsSound => CompactionOK(c, files_)
  <2> SUFFICES ASSUME LevelsSound PROVE CompactionOK(c, files_)
    OBVIOUS
  <2>1. PICK E : E = EntriesOf(written)
    OBVIOUS
  <2>2. PICK S : S = TablesOf(written, next_file_number_)
    OBVIOUS
  <2>3. /\ AllTables(S, E) /\ files_ \in [Levels -> Seq(S)]
        /\ \A l \in Levels \ {0} : Chained(files_[l])
    BY <2>1, <2>2, LevelsGiven
  <2>4. SizeCompaction \/ IsCharged(file_to_compact_, files_)
    BY <1>3 DEF LevelsSound
  <2>5. /\ p.level \in 0 .. kNumLevels - 2
        /\ p.inputs0 \in Seq(Range(files_[p.level])) /\ p.inputs0 # <<>>
        /\ Gapless(Range(p.inputs0))
    BY <1>1, <2>3, <2>4, PickedInputs
  <2>6. Chained(files_[p.level + 1])
    BY <2>3, <2>5, TablesOfLevel
  <2> QED BY <1>2, <2>3, <2>5, <2>6, OtherInputs
<1>5. LevelsSound => LevelsSound'
  <2> SUFFICES ASSUME LevelsSound PROVE LevelsSound'
    OBVIOUS
  <2>1. CASE IsTrivialMove(c)
    BY <1>3, <1>4, <2>1, TrivialMoveSound
  <2>2. CASE ~ IsTrivialMove(c)
    <3>1. /\ compaction' = c /\ files_' = files_ /\ file_to_compact_' = file_to_compact_
          /\ UNCHANGED <<next_file_number_, manual_compaction_, written>>
      BY <1>3, <2>2
    <3> QED BY <1>4, <3>1 DEF LevelsSound
  <2> QED BY <2>1, <2>2
<1> QED BY <1>3, <1>5 DEF LevelsInv

(* A manual compaction is set up. *)
LEMMA StartManualKeeps ==
    ASSUME LevelsInv, StartManualCompaction
    PROVE  LevelsInv'
<1>1. PICK m : m = manual_compaction_
  OBVIOUS
<1>2. PICK inputs0 : inputs0 = ManualInputs(m)
  OBVIOUS
<1>3. PICK c : c = WithOtherInputs(m.level, inputs0, TRUE)
  OBVIOUS
<1>4. /\ inputs0 # <<>> /\ manual_compaction_ # None
      /\ UNCHANGED <<mem_, imm_, files_, file_to_compact_, next_file_number_, written,
                     exposed, left>>
      /\ compaction' = c
      /\ manual_compaction_' = [m EXCEPT !.lo = LargestEntry(Last(c.inputs0)).key, !.set = FALSE]
  BY <1>1, <1>2, <1>3 DEF StartManualCompaction, Manual
<1>5. LevelsSound => LevelsSound'
  <2> SUFFICES ASSUME LevelsSound PROVE LevelsSound'
    OBVIOUS
  <2>1. PICK E : E = EntriesOf(written)
    OBVIOUS
  <2>2. PICK S : S = TablesOf(written, next_file_number_)
    OBVIOUS
  <2>3. /\ AllTables(S, E) /\ files_ \in [Levels -> Seq(S)]
        /\ \A l \in Levels \ {0} : Chained(files_[l])
    BY <2>1, <2>2, LevelsGiven
  <2>4. m \in ManualRequests /\ m.level \in 0 .. kNumLevels - 2
    BY <1>1, <1>4 DEF LevelsSound, ManualRequests
  <2>5. inputs0 \in Seq(Range(files_[m.level]))
    BY <1>2, <2>3, <2>4, ManualInputsOf
  <2>6. Chained(files_[m.level + 1])
    BY <2>3, <2>4, TablesOfLevel
  <2>7. CompactionOK(c, files_) /\ c.level = m.level
    BY <1>3, <1>4, <2>3, <2>4, <2>5, <2>6, OtherInputs
  <2>8. PICK x : x = LargestEntry(Last(c.inputs0)).key
    OBVIOUS
  <2>9. x \in Nat
    <3>1. c.inputs0 \in Seq(Range(files_[m.level])) /\ c.inputs0 # <<>>
      BY <2>7 DEF CompactionOK
    <3>2. Last(c.inputs0) \in Range(files_[m.level])
      BY <3>1 DEF Last
    <3>3. Last(c.inputs0) \in S
      BY <2>3, <2>4, <3>2, TablesOfLevel
    <3> QED BY <2>3, <2>8, <3>3, Ends DEF AllTables, High
  <2>10. manual_compaction_' \in ManualRequests
    BY <1>4, <2>4, <2>8, <2>9 DEF ManualRequests
  <2> QED BY <1>4, <2>7, <2>10 DEF LevelsSound
<1> QED BY <1>4, <1>5 DEF LevelsInv

(* The inputs of a compaction and their entries. *)
LEMMA InputsSound ==
    ASSUME NEW E, NEW S, AllTables(S, E), NEW c, files_ \in [Levels -> Seq(S)],
           CompactionOK(c, files_)
    PROVE  /\ c.inputs0 \in Seq(S) /\ c.inputs1 \in Seq(S) /\ InputsOf(c) \subseteq S
           /\ InputEntries(c) \subseteq E /\ Sound(InputEntries(c))
<1>1. /\ c.level \in 0 .. kNumLevels - 2
      /\ c.inputs0 \in Seq(Range(files_[c.level]))
      /\ c.inputs1 \in Seq(Range(files_[c.level + 1]))
  BY DEF CompactionOK
<1>2. c.inputs0 \in Seq(S) /\ c.inputs1 \in Seq(S)
  BY <1>1, TablesOfLevel
<1>3. InputsOf(c) \subseteq S
  <2>1. Range(c.inputs0) \subseteq S /\ Range(c.inputs1) \subseteq S
    BY <1>2, RangeFinite
  <2> QED BY <2>1 DEF InputsOf
<1>4. \A f \in InputsOf(c) : f.entries \subseteq E
  BY <1>3 DEF AllTables, IsTable
<1>5. InputEntries(c) \subseteq E
  BY <1>4 DEF InputEntries
<1>6. Sound(InputEntries(c))
  BY <1>5, SoundPart DEF AllTables
<1> QED BY <1>2, <1>3, <1>5, <1>6

(* What is beside the inputs is beside any of their entries. *)
LEMMA BesideParts ==
    ASSUME NEW g, NEW T, Beside(g, T), NEW A, A \subseteq UNION {t.entries : t \in T}
    PROVE  LiesBefore(g.entries, A) \/ LiesBefore(A, g.entries)
<1>1. \A a \in A : \E t \in T : a \in t.entries
  OBVIOUS
<1>2. CASE \A t \in T : LiesBefore(g.entries, t.entries)
  BY <1>1, <1>2 DEF LiesBefore
<1>3. CASE \A t \in T : LiesBefore(t.entries, g.entries)
  BY <1>1, <1>3 DEF LiesBefore
<1> QED BY <1>2, <1>3 DEF Beside

(* The outputs as tables, and as they are added to the level l. *)
TablesFrom(outs, n) == {[number |-> n + i, entries |-> outs[i]] : i \in DOMAIN outs}
AddedAt(l, outs, n) == {<<l, [number |-> n + i, entries |-> outs[i]]>> : i \in DOMAIN outs}

(* The tables of O are made of M alone, and are apart from each other. *)
NewTables(O, M, W, q) ==
    /\ O \subseteq TablesOf(W, q) /\ IsFiniteSet(O) /\ Apart(O)
    /\ \A f \in O : f.entries \subseteq M

(***************************************************************************)
(* The outputs as tables: they are apart from each other.                  *)
(***************************************************************************)
LEMMA OutputTables ==
    ASSUME NEW M, NEW E, M \subseteq E, NEW outs, Pieces(outs, {}, M), NEW n \in Nat,
           NEW W, E = EntriesOf(W), NEW q, q = n + Len(outs) + 1,
           NEW O, O = TablesFrom(outs, n)
    PROVE  NewTables(O, M, W, q) /\ Len(outs) \in Nat
<1>1. PICK P : P = (SUBSET M) \ {{}}
  OBVIOUS
<1>2. /\ outs \in Seq(P) /\ Len(outs) \in Nat /\ DOMAIN outs = 1 .. Len(outs)
      /\ \A i, j \in DOMAIN outs : i < j => LiesBefore(outs[i], outs[j])
  BY <1>1 DEF Pieces
<1>3. \A i \in DOMAIN outs : outs[i] \in P /\ outs[i] \subseteq M /\ outs[i] # {}
  BY <1>1, <1>2
<1>4. q = n + Len(outs) + 1
  OBVIOUS
<1>5. PICK fs : fs = [i \in DOMAIN outs |-> [number |-> n + i, entries |-> outs[i]]]
  OBVIOUS
<1>6. ASSUME NEW i \in DOMAIN outs PROVE fs[i] \in TablesOf(W, q)
  <2>1. n + i \in 0 .. q - 1
    BY <1>2, <1>4
  <2>2. outs[i] \in (SUBSET EntriesOf(W)) \ {{}}
    BY <1>3
  <2>3. fs[i] = [number |-> n + i, entries |-> outs[i]]
    BY <1>5
  <2> QED BY <2>1, <2>2, <2>3 DEF TablesOf
<1>7. PICK T : T = TablesOf(W, q)
  OBVIOUS
<1>8. fs \in Seq(T) /\ DOMAIN fs = DOMAIN outs
  <2>1. DOMAIN fs = 1 .. Len(outs) /\ fs = [i \in 1 .. Len(outs) |-> fs[i]]
    BY <1>2, <1>5
  <2>2. \A i \in 1 .. Len(outs) : fs[i] \in T
    BY <1>2, <1>6, <1>7
  <2> QED BY <1>2, <2>1, <2>2
<1>o. O = {[number |-> n + i, entries |-> outs[i]] : i \in DOMAIN outs}
  BY DEF TablesFrom
<1>9. Range(fs) = O
  BY <1>5, <1>o DEF Range
<1>10. \A i \in DOMAIN outs : fs[i].entries = outs[i]
  BY <1>5
<1>11. Chained(fs)
  BY <1>2, <1>8, <1>10 DEF Chained
<1>12. IsFiniteSet(O) /\ O \subseteq T
  BY <1>8, <1>9, RangeFinite
<1>13. Apart(O)
  BY <1>8, <1>9, <1>11, ChainedApart
<1>14. \A f \in O : f.entries \subseteq M
  BY <1>3, <1>o
<1>15. O \subseteq TablesOf(W, q)
  BY <1>7, <1>12
<1>16. NewTables(O, M, W, q)
  BY <1>12, <1>13, <1>14, <1>15 DEF NewTables
<1> QED BY <1>2, <1>16

(***************************************************************************)
(* The outputs take the place of the inputs.                               *)
(***************************************************************************)
LEMMA ResultsSound ==
    ASSUME LevelsInv, LevelsSound, NEW c, CompactionOK(c, files_),
           NEW outs, outs = MergedOutputs(c),
           NEW deleted, \A f \in Range(c.inputs1) : <<c.level + 1, f.number>> \in deleted,
           NEW added, added = AddedAt(c.level + 1, outs, next_file_number_),
           Apply(deleted, added), next_file_number_' = next_file_number_ + Len(outs) + 1,
           UNCHANGED <<written, manual_compaction_>>, compaction' = None
    PROVE  LevelsSound'
<1>1. PICK W : W = written
  OBVIOUS
<1>2. PICK n : n = next_file_number_
  OBVIOUS
<1>3. PICK S : S = TablesOf(W, n)
  OBVIOUS
<1>4. PICK E : E = EntriesOf(W)
  OBVIOUS
<1>5. PICK k : k = c.level + 1
  OBVIOUS
<1>6. n \in Nat /\ WritesOK(W)
  BY <1>1, <1>2 DEF LevelsInv, LevelsSound
<1>7. /\ AllTables(S, E) /\ files_ \in [Levels -> Seq(S)] /\ FilesOK(files_, W, n)
      /\ \A g, h \in Range(files_[0]) : g.number = h.number => g = h
  BY <1>1, <1>2, <1>3, <1>4, LevelsGiven DEF LevelsSound
<1>8. /\ k \in Levels /\ k # 0 /\ 0 \in Levels
      /\ \A g \in Range(files_[k]) \ Range(c.inputs1) : Beside(g, InputsOf(c))
  <2>1. 0 \in Levels
    BY LevelsAssumption DEF Levels
  <2>2. c.level \in 0 .. kNumLevels - 2
    BY DEF CompactionOK
  <2>3. k \in Levels /\ k # 0
    BY <1>5, <1>7, <2>2, TablesOfLevel
  <2> QED BY <1>5, <2>1, <2>3 DEF CompactionOK
<1>9. PICK M : M = InputEntries(c)
  OBVIOUS
<1>10. c.inputs0 \in Seq(S) /\ c.inputs1 \in Seq(S) /\ M \subseteq E /\ Sound(M)
  BY <1>7, <1>9, InputsSound
<1>11. Pieces(outs, {}, M)
  BY <1>9, <1>10, OutputsOf
<1>12. PICK O : O = TablesFrom(outs, n)
  OBVIOUS
<1>13. PICK q : q = n + Len(outs) + 1
  OBVIOUS
<1>14. /\ Len(outs) \in Nat /\ O \subseteq TablesOf(W, q)
       /\ IsFiniteSet(O) /\ Apart(O)
       /\ \A f \in O : f.entries \subseteq M
  <2>1. n \in Nat /\ M \subseteq E
    BY <1>6, <1>10
  <2>2. NewTables(O, M, W, q) /\ Len(outs) \in Nat
    BY <1>4, <2>1, <1>11, <1>12, <1>13, OutputTables
  <2> QED BY <2>2 DEF NewTables
<1>15. q \in Nat /\ n <= q /\ next_file_number_' = q
  BY <1>2, <1>6, <1>13, <1>14
<1>16. added = {<<k, f>> : f \in O}
  BY <1>2, <1>5, <1>12 DEF AddedAt, TablesFrom
<1>17. \A m : /\ AddedTo(m, added) = (IF m = k THEN O ELSE {})
              /\ KeptOf(m, deleted) \subseteq Range(files_[m])
  <2>1. \A m : AddedTo(m, added) = (IF m = k THEN O ELSE {})
    BY <1>16, AddedMany
  <2>2. \A m : KeptOf(m, deleted) \subseteq Range(files_[m])
    BY DEF KeptOf
  <2> QED BY <2>1, <2>2
<1>18. \A m \in Levels : AddedTo(m, added) \subseteq TablesOf(W, q) /\ IsFiniteSet(AddedTo(m, added))
  <2> SUFFICES ASSUME NEW m \in Levels
               PROVE  AddedTo(m, added) \subseteq TablesOf(W, q) /\ IsFiniteSet(AddedTo(m, added))
    OBVIOUS
  <2>1. CASE m = k
    <3>1. AddedTo(m, added) = O
      BY <1>17, <2>1
    <3> QED BY <1>14, <3>1
  <2>2. CASE m # k
    <3>1. AddedTo(m, added) = {}
      BY <1>17, <2>2
    <3> QED BY <3>1, FS_EmptySet
  <2> QED BY <2>1, <2>2
<1>19. \A g, h \in KeptOf(0, deleted) \cup AddedTo(0, added) : g.number = h.number => g = h
  <2>1. AddedTo(0, added) = {}
    BY <1>8, <1>17
  <2>2. KeptOf(0, deleted) \subseteq Range(files_[0])
    BY <1>17
  <2> QED BY <1>7, <2>1, <2>2
<1>20. ASSUME NEW m \in Levels \ {0} PROVE Apart(KeptOf(m, deleted) \cup AddedTo(m, added))
  <2>1. PICK F : F = KeptOf(m, deleted)
    OBVIOUS
  <2>2. F \subseteq Range(files_[m]) /\ Apart(F)
    <3>1. Apart(Range(files_[m]))
      BY <1>7, LevelTables
    <3> QED BY <1>17, <2>1, <3>1, ApartPart
  <2>3. CASE m # k
    <3>1. KeptOf(m, deleted) \cup AddedTo(m, added) = F
      BY <1>17, <2>1, <2>3
    <3> QED BY <2>2, <3>1
  <2>4. CASE m = k
    <3>1. KeptOf(m, deleted) \cup AddedTo(m, added) = F \cup O
      BY <1>17, <2>1, <2>4
    <3>2. ASSUME NEW g \in F, NEW o \in O
          PROVE  LiesBefore(g.entries, o.entries) \/ LiesBefore(o.entries, g.entries)
      <4>1. g \notin Range(c.inputs1)
        BY <1>5, <2>1, <2>4 DEF KeptOf
      <4>2. Beside(g, InputsOf(c))
        BY <1>8, <2>2, <2>4, <4>1
      <4>3. o.entries \subseteq UNION {t.entries : t \in InputsOf(c)}
        BY <1>9, <1>14 DEF InputEntries
      <4> QED BY <4>2, <4>3, BesideParts
    <3> QED BY <1>14, <2>2, <3>1, <3>2, ApartJoin
  <2> QED BY <2>3, <2>4
<1>21. FilesOK(files_', W, q) /\ file_to_compact_' = None
  BY <1>6, <1>7, <1>15, <1>18, <1>19, <1>20, Applied
<1> QED BY <1>1, <1>15, <1>21 DEF LevelsSound

(* InstallCompactionResults keeps the invariant. *)
LEMMA InstallKeeps ==
    ASSUME LevelsInv, InstallCompactionResults
    PROVE  LevelsInv'
<1>1. PICK c : c = compaction
  OBVIOUS
<1>2. PICK outs : outs = MergedOutputs(c)
  OBVIOUS
<1>3. PICK deleted : deleted = {<<c.level, f.number>> : f \in Range(c.inputs0)} \cup
                               {<<c.level + 1, f.number>> : f \in Range(c.inputs1)}
  OBVIOUS
<1>4. PICK added : added = AddedAt(c.level + 1, outs, next_file_number_)
  OBVIOUS
<1>5. /\ compaction # None /\ Apply(deleted, added)
      /\ next_file_number_' = next_file_number_ + Len(outs) + 1
      /\ exposed' = exposed \cup (IF SplitKey(files_') THEN {"key split"} ELSE {})
      /\ compaction' = None
      /\ UNCHANGED <<mem_, imm_, manual_compaction_, written, left>>
  BY <1>1, <1>2, <1>3, <1>4 DEF InstallCompactionResults, AddedAt
<1>6. \A f \in Range(c.inputs1) : <<c.level + 1, f.number>> \in deleted
  BY <1>3
<1>7. LevelsSound => LevelsSound'
  <2> SUFFICES ASSUME LevelsSound PROVE LevelsSound'
    OBVIOUS
  <2>1. CompactionOK(c, files_)
    BY <1>1, <1>5 DEF LevelsSound
  <2> QED BY <1>2, <1>4, <1>5, <1>6, <2>1, ResultsSound
<1>8. "flush into a gap" \notin exposed' => "flush into a gap" \notin exposed
  BY <1>5
<1> QED BY <1>5, <1>7, <1>8 DEF LevelsInv

-----------------------------------------------------------------------------
(* Theorems                                                                *)

(***************************************************************************)
(* Every step keeps the invariant, one action at a time.                   *)
(***************************************************************************)
LEMMA LevelsInvNext ==
    LevelsInv /\ [LevelsNext]_levelVars => LevelsInv'
<1> SUFFICES ASSUME LevelsInv, [LevelsNext]_levelVars PROVE LevelsInv'
  OBVIOUS
<1>1. ASSUME NEW k \in Keys, NEW t \in {"value", "deletion"}, WriteEntry(k, t) PROVE LevelsInv'
  BY <1>1, WriteKeeps
<1>2. CASE \/ SwitchMemTable \/ GetSnapshot \/ \E s \in snapshots_ : ReleaseSnapshot(s)
           \/ \E l \in 0 .. kNumLevels - 2, lo, hi \in Keys : lo <= hi /\ CompactRange(l, lo, hi)
           \/ CompactRangeAgain \/ ManualCompactionDone
  BY <1>2, ClientKeeps
<1>3. ASSUME NEW k \in Keys, UpdateStats(k) PROVE LevelsInv'
  BY <1>3, ChargeKeeps
<1>4. CASE CompactMemTable
  BY <1>4, FlushKeeps
<1>5. CASE StartCompaction
  BY <1>5, StartKeeps
<1>6. CASE StartManualCompaction
  BY <1>6, StartManualKeeps
<1>7. CASE InstallCompactionResults
  BY <1>7, InstallKeeps
<1>8. CASE UNCHANGED levelVars
  <2>1. /\ UNCHANGED <<files_, next_file_number_, written, exposed>>
        /\ left' = left /\ mem_' = mem_ /\ imm_' = imm_ /\ compaction' = compaction
        /\ file_to_compact_' = file_to_compact_ /\ manual_compaction_' = manual_compaction_
    BY <1>8 DEF levelVars
  <2>2. LevelsSound => LevelsSound'
    BY <2>1 DEF LevelsSound
  <2> QED BY <2>1, <2>2 DEF LevelsInv
<1> QED BY <1>1, <1>2, <1>3, <1>4, <1>5, <1>6, <1>7, <1>8 DEF LevelsNext

(***************************************************************************)
(* From a database the code could have left, the levels, the compaction in *)
(* progress (its inputs are tables of their levels, and whatever of the    *)
(* output level is no input lies to one side of all inputs), the charged   *)
(* table and the numbers of the tables agree in every reachable state, as  *)
(* long as no memtable was flushed into the gap of a manual compaction.    *)
(***************************************************************************)
THEOREM LevelsInvariant == LevelsSpec => []LevelsInv
<1> QED BY InvInit, LevelsInvNext, PTL DEF LevelsSpec

(***************************************************************************)
(* "Must not overlap" (Builder::MaybeAddFile): below level 0 the tables of *)
(* a level are in order and disjoint, through every order of writes,       *)
(* flushes, seeks, automatic and manual compactions, unless a memtable was *)
(* flushed into the gap of a manual compaction.                            *)
(***************************************************************************)
THEOREM LevelsTablesDisjoint == LevelsSpec => []TablesDisjoint
<1>1. LevelsInv => TablesDisjoint
  <2> SUFFICES ASSUME LevelsInv, LevelsSound PROVE LevelsDisjoint
    BY DEF LevelsInv, TablesDisjoint
  <2>1. PICK S : S = TablesOf(written, next_file_number_)
    OBVIOUS
  <2>2. PICK E : E = EntriesOf(written)
    OBVIOUS
  <2>3. /\ AllTables(S, E) /\ files_ \in [Levels -> Seq(S)]
        /\ \A l \in Levels \ {0} : Chained(files_[l])
    BY <2>1, <2>2, LevelsGiven
  <2>4. Sound(E) /\ \A f \in S : IsTable(f, E)
    BY <2>3 DEF AllTables
  <2>5. \A l \in Levels \ {0} : Disjoint(files_[l])
    BY <2>3, <2>4, ChainedMeansDisjoint
  <2> QED BY <2>5 DEF LevelsDisjoint
<1> QED BY <1>1, LevelsInvariant, PTL
=============================================================================
