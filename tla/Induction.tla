----------------------------- MODULE Induction -----------------------------
(***************************************************************************)
(* Induction over numbers and finite sets, the results of loops and the    *)
(* sorting of a finite set, as lemmas about sets and functions: a property *)
(* is the set of the values that have it, an order is the set of its       *)
(* pairs.  The lemmas rest on the well-founded relations of the library.   *)
(***************************************************************************)
EXTENDS Integers, FiniteSets, FiniteSetTheorems, WellFoundedInduction, TLAPS

-----------------------------------------------------------------------------
(* Numbers                                                                 *)

LEMMA LeastExists ==
    ASSUME NEW T, T \subseteq Nat, T # {}
    PROVE  \E x \in T : \A y \in T : x <= y
<1> DEFINE LT == {p \in Nat \X Nat : p[1] < p[2]}
<1>1. IsWellFoundedOn(LT, Nat)
  BY NatLessThanWellFounded DEF OpToRel
<1>2. PICK x \in T : \A y \in T : ~ (<<y, x>> \in LT)
  <2> HIDE DEF LT
  <2> QED BY <1>1, WFMin
<1>3. ASSUME NEW y \in T PROVE x <= y
  <2>1. <<y, x>> \in Nat \X Nat /\ <<y, x>>[1] = y /\ <<y, x>>[2] = x
    OBVIOUS
  <2>2. ~ (y < x)
    BY <1>2, <2>1
  <2> QED BY <2>2
<1> QED BY <1>3

LEMMA GreatestExists ==
    ASSUME NEW T, NEW b \in Nat, T \subseteq Nat, \A y \in T : y <= b, T # {}
    PROVE  \E x \in T : \A y \in T : y <= x
<1> DEFINE U == {n \in Nat : \A y \in T : y <= n}
<1>1. U \subseteq Nat /\ b \in U
  OBVIOUS
<1>2. PICK x \in U : \A y \in U : x <= y
  <2> HIDE DEF U
  <2> QED BY <1>1, LeastExists
<1>3. CASE x \in T
  BY <1>3
<1>4. CASE x \notin T
  <2>1. PICK t \in T : TRUE
    OBVIOUS
  <2>2. \A y \in T : y < x
    BY <1>2, <1>4
  <2>3. x - 1 \in U
    BY <1>2, <2>1, <2>2
  <2> QED BY <1>2, <2>3
<1> QED BY <1>3, <1>4

LEMMA Upwards ==
    ASSUME NEW n \in Nat, NEW T, 0 \in T,
           \A i \in 1 .. n : i - 1 \in T => i \in T
    PROVE  \A i \in 0 .. n : i \in T
<1> SUFFICES ASSUME NEW j \in 0 .. n, j \notin T PROVE FALSE
  OBVIOUS
<1> DEFINE U == {i \in 0 .. n : i \notin T}
<1>1. PICK x \in U : \A y \in U : x <= y
  <2>1. U \subseteq Nat /\ U # {}
    OBVIOUS
  <2> HIDE DEF U
  <2> QED BY <2>1, LeastExists
<1>2. x # 0
  OBVIOUS
<1>3. x \in 1 .. n /\ x - 1 \in 0 .. n
  BY <1>2
<1>4. x - 1 \in T
  BY <1>1, <1>3
<1> QED BY <1>3, <1>4

-----------------------------------------------------------------------------
(* Finite sets                                                             *)

(***************************************************************************)
(* A family of subsets of S to which the empty set belongs, and every set  *)
(* that has one element more than another member, has S itself.            *)
(***************************************************************************)
LEMMA ElementByElement ==
    ASSUME NEW S, IsFiniteSet(S), NEW F, {} \in F,
           \A T \in SUBSET S : \A x \in S \ T : T \in F => T \cup {x} \in F
    PROVE  S \in F
<1> SUFFICES ASSUME S \notin F PROVE FALSE
  OBVIOUS
<1> DEFINE Out == {T \in SUBSET S : T \notin F}
<1>1. Out \subseteq FiniteSubsetsOf(S) /\ Out # {}
  BY FS_Subset DEF FiniteSubsetsOf
<1>2. PICK T \in Out : \A U \in Out : <<U, T>> \notin StrictSubsetOrdering(S)
  <2> HIDE DEF Out
  <2> QED BY <1>1, FS_StrictSubsetOrderingWellFounded, WFMin
<1>3. PICK x \in T : TRUE
  OBVIOUS
<1>4. PICK U : U = T \ {x}
  OBVIOUS
<1>5. <<U, T>> \in StrictSubsetOrdering(S)
  BY <1>3, <1>4 DEF StrictSubsetOrdering
<1>6. U \in F
  BY <1>2, <1>4, <1>5
<1>7. T = U \cup {x} /\ x \in S \ U /\ U \in SUBSET S
  BY <1>3, <1>4
<1> QED BY <1>6, <1>7

-----------------------------------------------------------------------------
(* Loops                                                                   *)

(***************************************************************************)
(* A loop of n rounds, each a function of the state and the number of the  *)
(* round, has a result.                                                    *)
(***************************************************************************)
IsRun(f, n, S, a, round) ==
    /\ f \in [0 .. n -> S]
    /\ f[0] = a
    /\ \A i \in 1 .. n : f[i] = round[i][f[i - 1]]

LEMMA LoopRuns ==
    ASSUME NEW n \in Nat, NEW S, NEW a \in S,
           NEW round \in [1 .. n -> [S -> S]]
    PROVE  \E f : IsRun(f, n, S, a, round)
<1> DEFINE Runs(m) == \E f \in [0 .. m -> S] :
                         f[0] = a /\ \A i \in 1 .. m : f[i] = round[i][f[i - 1]]
           T == {m \in 0 .. n : Runs(m)}
<1>1. 0 \in T
  <2>1. PICK g : g = [i \in 0 .. 0 |-> a]
    OBVIOUS
  <2>2. g \in [0 .. 0 -> S] /\ g[0] = a /\ \A i \in 1 .. 0 : g[i] = round[i][g[i - 1]]
    BY <2>1
  <2>3. Runs(0)
    BY <2>2
  <2> QED BY <2>3
<1>2. ASSUME NEW m \in 1 .. n, m - 1 \in T PROVE m \in T
  <2>1. PICK f \in [0 .. m - 1 -> S] :
           f[0] = a /\ \A i \in 1 .. m - 1 : f[i] = round[i][f[i - 1]]
    BY <1>2
  <2>2. PICK g : g = [i \in 0 .. m |-> IF i = m THEN round[m][f[m - 1]] ELSE f[i]]
    OBVIOUS
  <2>3. round[m] \in [S -> S] /\ f[m - 1] \in S
    BY <2>1
  <2>4. \A i \in 0 .. m - 1 : g[i] = f[i] /\ f[i] \in S
    BY <2>1, <2>2
  <2>5. g[m] = round[m][f[m - 1]] /\ g[m] \in S
    BY <2>2, <2>3
  <2>6. g \in [0 .. m -> S]
    BY <2>2, <2>3, <2>4
  <2>7. g[0] = a
    BY <2>1, <2>4
  <2>8. ASSUME NEW i \in 1 .. m PROVE g[i] = round[i][g[i - 1]]
    <3>1. CASE i = m
      <4>1. g[m - 1] = f[m - 1]
        BY <2>4
      <4> QED BY <2>5, <3>1, <4>1
    <3>2. CASE i # m
      BY <2>1, <2>4, <3>2
    <3> QED BY <3>1, <3>2
  <2>9. Runs(m)
    BY <2>6, <2>7, <2>8
  <2>10. m \in 0 .. n
    OBVIOUS
  <2> HIDE DEF Runs
  <2> QED BY <2>9, <2>10
<1>3. \A i \in 0 .. n : i \in T
  <2> HIDE DEF T
  <2> QED BY <1>1, <1>2, Upwards
<1>4. Runs(n)
  BY <1>3
<1> QED BY <1>4 DEF IsRun

-----------------------------------------------------------------------------
(* Totals                                                                  *)

(***************************************************************************)
(* f is the total of w over the subsets of S, taking one chosen element    *)
(* after the other, as the folds of the community modules do.              *)
(***************************************************************************)
Chosen(s) == CHOOSE x \in s : TRUE
IsTotal(f, w, S) ==
    f = [s \in SUBSET S |-> IF s = {} THEN 0 ELSE w[Chosen(s)] + f[s \ {Chosen(s)}]]

LEMMA ChosenFrom ==
    ASSUME NEW s, s # {}
    PROVE  Chosen(s) \in s
BY DEF Chosen

(***************************************************************************)
(* Among sets of subsets of a finite set one has no smaller one below it.  *)
(***************************************************************************)
LEMMA SmallestSet ==
    ASSUME NEW S, IsFiniteSet(S), NEW Out, Out \subseteq SUBSET S, Out # {}
    PROVE  \E T \in Out : \A U \in Out : U \subseteq T => U = T
<1>1. Out \subseteq FiniteSubsetsOf(S)
  BY FS_Subset DEF FiniteSubsetsOf
<1>2. PICK T \in Out : \A U \in Out : <<U, T>> \notin StrictSubsetOrdering(S)
  BY <1>1, FS_StrictSubsetOrderingWellFounded, WFMin
<1>3. ASSUME NEW U \in Out, U \subseteq T PROVE U = T
  <2>1. <<U, T>> \notin StrictSubsetOrdering(S)
    BY <1>2
  <2> QED BY <1>3, <2>1 DEF StrictSubsetOrdering
<1> QED BY <1>3

LEMMA TotalDomain ==
    ASSUME NEW S, NEW w, NEW f, IsTotal(f, w, S)
    PROVE  /\ DOMAIN f = SUBSET S
           /\ f[{}] = 0
<1> DEFINE g == [s \in SUBSET S |->
                    IF s = {} THEN 0 ELSE w[Chosen(s)] + f[s \ {Chosen(s)}]]
<1>1. f = g
  BY DEF IsTotal
<1>2. DOMAIN g = SUBSET S
  OBVIOUS
<1>3. \A s \in SUBSET S :
         g[s] = IF s = {} THEN 0 ELSE w[Chosen(s)] + f[s \ {Chosen(s)}]
  OBVIOUS
<1> HIDE DEF g
<1> QED BY <1>1, <1>2, <1>3

LEMMA TotalStep ==
    ASSUME NEW S, NEW w, NEW f, IsTotal(f, w, S),
           NEW s \in SUBSET S, s # {}, NEW x, x = Chosen(s)
    PROVE  x \in s /\ f[s] = w[x] + f[s \ {x}]
<1> DEFINE g == [t \in SUBSET S |->
                    IF t = {} THEN 0 ELSE w[Chosen(t)] + f[t \ {Chosen(t)}]]
<1>1. f = g
  BY DEF IsTotal
<1>2. g[s] = w[x] + f[s \ {x}]
  OBVIOUS
<1> HIDE DEF g
<1> QED BY <1>1, <1>2, ChosenFrom

LEMMA TotalIsNatural ==
    ASSUME NEW S, IsFiniteSet(S), NEW w \in [S -> Nat], NEW f, IsTotal(f, w, S)
    PROVE  f \in [SUBSET S -> Nat]
<1>d. DOMAIN f = SUBSET S /\ f[{}] = 0
  BY TotalDomain
<1> DEFINE Out == {s \in SUBSET S : f[s] \notin Nat}
<1>1. Out = {}
  <2> SUFFICES ASSUME Out # {} PROVE FALSE
    OBVIOUS
  <2>1. PICK T \in Out : \A U \in Out : U \subseteq T => U = T
    <3>1. Out \subseteq SUBSET S
      OBVIOUS
    <3> HIDE DEF Out
    <3> QED BY <3>1, SmallestSet
  <2>2. T # {}
    BY <1>d
  <2>3. PICK x : x = Chosen(T)
    OBVIOUS
  <2>4. x \in T /\ f[T] = w[x] + f[T \ {x}]
    BY <2>2, <2>3, TotalStep
  <2>5. f[T \ {x}] \in Nat
    BY <2>1, <2>4
  <2>7. w[x] \in Nat
    BY <2>4
  <2> QED BY <2>4, <2>5, <2>7
<1>2. \A s \in SUBSET S : f[s] \in Nat
  BY <1>1
<1>3. f = [s \in DOMAIN f |-> f[s]]
  BY DEF IsTotal
<1> QED BY <1>d, <1>2, <1>3

LEMMA TotalWithout ==
    ASSUME NEW S, IsFiniteSet(S), NEW w \in [S -> Nat], NEW f, IsTotal(f, w, S),
           NEW T \in SUBSET S, NEW x \in T
    PROVE  f[T] = w[x] + f[T \ {x}]
<1>d. DOMAIN f = SUBSET S /\ f[{}] = 0
  BY TotalDomain
<1> DEFINE Out == {s \in SUBSET S : \E y \in s : f[s] # w[y] + f[s \ {y}]}
<1>0. \A s \in SUBSET S : f[s] \in Nat
  <2>1. f \in [SUBSET S -> Nat]
    BY TotalIsNatural
  <2> QED BY <2>1
<1>1. Out = {}
  <2> SUFFICES ASSUME Out # {} PROVE FALSE
    OBVIOUS
  <2>1. PICK s \in Out : \A U \in Out : U \subseteq s => U = s
    <3>1. Out \subseteq SUBSET S
      OBVIOUS
    <3> HIDE DEF Out
    <3> QED BY <3>1, SmallestSet
  <2>2. PICK y \in s : f[s] # w[y] + f[s \ {y}]
    OBVIOUS
  <2>3. PICK z : z = Chosen(s)
    OBVIOUS
  <2>4. z \in s /\ f[s] = w[z] + f[s \ {z}]
    BY <2>2, <2>3, TotalStep
  <2>5. y # z
    BY <2>2, <2>4
  <2>6. s \ {z} \notin Out /\ s \ {y} \notin Out
    BY <2>1, <2>2, <2>4
  <2>7. f[s \ {z}] = w[y] + f[(s \ {z}) \ {y}]
    BY <2>6, <2>5
  <2>8. f[s \ {y}] = w[z] + f[(s \ {y}) \ {z}]
    BY <2>4, <2>6, <2>5
  <2>9. (s \ {z}) \ {y} = (s \ {y}) \ {z}
    OBVIOUS
  <2>10. w[y] \in Nat /\ w[z] \in Nat /\ f[(s \ {y}) \ {z}] \in Nat
    BY <1>0, <2>4
  <2>11. f[s \ {z}] = w[y] + f[(s \ {y}) \ {z}]
    BY <2>7, <2>9
  <2>12. w[z] + (w[y] + f[(s \ {y}) \ {z}]) = w[y] + (w[z] + f[(s \ {y}) \ {z}])
    BY <2>10
  <2>13. f[s] = w[y] + f[s \ {y}]
    BY <2>4, <2>8, <2>11, <2>12
  <2> QED BY <2>2, <2>13
<1> QED BY <1>1

(***************************************************************************)
(* A total depends on the weights of the elements alone.                   *)
(***************************************************************************)
LEMMA TotalSame ==
    ASSUME NEW S, NEW w, NEW f, IsTotal(f, w, S),
           NEW R, NEW v, NEW g, IsTotal(g, v, R),
           NEW T, IsFiniteSet(T), T \subseteq S, T \subseteq R, \A x \in T : w[x] = v[x]
    PROVE  f[T] = g[T]
<1>d. DOMAIN f = SUBSET S /\ f[{}] = 0
  BY TotalDomain
<1>e. DOMAIN g = SUBSET R /\ g[{}] = 0
  BY TotalDomain
<1> DEFINE Out == {s \in SUBSET T : f[s] # g[s]}
<1>1. Out = {}
  <2> SUFFICES ASSUME Out # {} PROVE FALSE
    OBVIOUS
  <2>1. PICK s \in Out : \A U \in Out : U \subseteq s => U = s
    <3>1. Out \subseteq SUBSET T
      OBVIOUS
    <3> HIDE DEF Out
    <3> QED BY <3>1, SmallestSet
  <2>0. s # {} /\ s \in SUBSET S /\ s \in SUBSET R
    BY <1>d, <1>e
  <2>3. PICK z : z = Chosen(s)
    OBVIOUS
  <2>4. z \in s /\ f[s] = w[z] + f[s \ {z}]
    BY <2>0, <2>3, TotalStep
  <2>5. g[s] = v[z] + g[s \ {z}]
    BY <2>0, <2>3, TotalStep
  <2>6. f[s \ {z}] = g[s \ {z}]
    BY <2>1, <2>4
  <2>7. w[z] = v[z]
    BY <2>4
  <2> QED BY <2>4, <2>5, <2>6, <2>7
<1> QED BY <1>1

LEMMA TotalExists ==
    ASSUME NEW S, IsFiniteSet(S), NEW w \in [S -> Nat]
    PROVE  \E f : IsTotal(f, w, S)
<1> DEFINE Small(n) == {s \in SUBSET S : Cardinality(s) <= n}
           Adds(f, n) == /\ f \in [Small(n) -> Nat]
                         /\ \A s \in Small(n) :
                               f[s] = IF s = {} THEN 0
                                      ELSE w[Chosen(s)] + f[s \ {Chosen(s)}]
           N == Cardinality(S)
           Ok == {n \in 0 .. N : \E f : Adds(f, n)}
<1>1. N \in Nat /\ \A s \in SUBSET S : IsFiniteSet(s) /\ Cardinality(s) \in 0 .. N
  BY FS_CardinalityType, FS_Subset
<1>2. 0 \in Ok
  <2>1. \A s \in Small(0) : s = {}
    BY <1>1, FS_EmptySet
  <2>2. PICK f : f = [s \in Small(0) |-> 0]
    OBVIOUS
  <2>3. Adds(f, 0)
    BY <2>1, <2>2
  <2>4. 0 \in 0 .. N
    BY <1>1
  <2> HIDE DEF Adds
  <2> QED BY <2>3, <2>4
<1>3. ASSUME NEW n \in 1 .. N, n - 1 \in Ok PROVE n \in Ok
  <2>1. PICK f : Adds(f, n - 1)
    BY <1>3
  <2>2. \A s \in Small(n) : s # {} =>
           Chosen(s) \in s /\ s \ {Chosen(s)} \in Small(n - 1)
    <3> SUFFICES ASSUME NEW s \in Small(n), s # {}
                 PROVE  Chosen(s) \in s /\ s \ {Chosen(s)} \in Small(n - 1)
      OBVIOUS
    <3>1. Chosen(s) \in s
      BY ChosenFrom
    <3>2. Cardinality(s \ {Chosen(s)}) = Cardinality(s) - 1
      BY <1>1, <3>1, FS_RemoveElement
    <3> QED BY <1>1, <3>1, <3>2
  <2>3. PICK g : g = [s \in Small(n) |-> IF s = {} THEN 0
                                          ELSE w[Chosen(s)] + f[s \ {Chosen(s)}]]
    OBVIOUS
  <2>4. g \in [Small(n) -> Nat]
    <3> SUFFICES ASSUME NEW s \in Small(n), s # {}
                 PROVE  w[Chosen(s)] + f[s \ {Chosen(s)}] \in Nat
      BY <2>3
    <3>1. w[Chosen(s)] \in Nat
      BY <2>2
    <3>2. f[s \ {Chosen(s)}] \in Nat
      BY <2>1, <2>2
    <3> QED BY <3>1, <3>2
  <2>5. \A s \in Small(n - 1) : s \in Small(n) /\ g[s] = f[s]
    BY <1>1, <2>1, <2>3
  <2>6. Adds(g, n)
    <3> SUFFICES ASSUME NEW s \in Small(n), s # {}
                 PROVE  g[s] = w[Chosen(s)] + g[s \ {Chosen(s)}]
      BY <2>3, <2>4
    <3> QED BY <2>2, <2>3, <2>5
  <2>7. n \in 0 .. N
    BY <1>1
  <2> HIDE DEF Adds
  <2> QED BY <2>6, <2>7
<1>4. N \in Ok
  <2>1. \A i \in 0 .. N : i \in Ok
    <3> HIDE DEF Ok
    <3> QED BY <1>1, <1>2, <1>3, Upwards
  <2> QED BY <1>1, <2>1
<1>5. PICK f : Adds(f, N)
  BY <1>4
<1>6. Small(N) = SUBSET S
  BY <1>1
<1>7. f = [s \in SUBSET S |-> f[s]]
  BY <1>5, <1>6
<1>8. IsTotal(f, w, S)
  BY <1>5, <1>6, <1>7 DEF IsTotal
<1> QED BY <1>8

-----------------------------------------------------------------------------
(* Sorting                                                                 *)

(* R is a strict total order on S. *)
Orders(R, S) ==
    /\ \A a \in S : <<a, a>> \notin R
    /\ \A a, b \in S : a = b \/ <<a, b>> \in R \/ <<b, a>> \in R
    /\ \A a, b, c \in S : <<a, b>> \in R /\ <<b, c>> \in R => <<a, c>> \in R
BelowIn(R, S, e) == {o \in S : <<o, e>> \in R}

(***************************************************************************)
(* The rank of an element, the number of those below it, grows with the    *)
(* order, and every number below the size of the set is a rank.            *)
(***************************************************************************)
LEMMA Ranks ==
    ASSUME NEW S, IsFiniteSet(S), NEW R, Orders(R, S),
           NEW rank, rank = [e \in S |-> Cardinality(BelowIn(R, S, e))]
    PROVE  /\ \A a, b \in S : <<a, b>> \in R <=> rank[a] < rank[b]
           /\ \A e \in S : rank[e] \in 0 .. Cardinality(S) - 1
           /\ \A i \in 0 .. Cardinality(S) - 1 : \E e \in S : rank[e] = i
<1> DEFINE N == Cardinality(S)
<1>1. N \in Nat
  BY FS_CardinalityType
<1>2. ASSUME NEW e \in S PROVE rank[e] \in 0 .. N - 1
  <2>1. PICK B : B = BelowIn(R, S, e)
    OBVIOUS
  <2>2. B \subseteq S \ {e}
    BY <2>1 DEF BelowIn, Orders
  <2>3. IsFiniteSet(S \ {e}) /\ Cardinality(S \ {e}) = N - 1
    BY FS_RemoveElement
  <2>4. IsFiniteSet(B) /\ Cardinality(B) <= N - 1 /\ Cardinality(B) \in Nat
    BY <2>2, <2>3, FS_Subset, FS_CardinalityType
  <2>5. rank[e] = Cardinality(B)
    BY <2>1
  <2> QED BY <1>1, <2>4, <2>5
<1>3. ASSUME NEW a \in S, NEW b \in S, <<a, b>> \in R PROVE rank[a] < rank[b]
  <2>1. PICK A : A = BelowIn(R, S, a)
    OBVIOUS
  <2>2. PICK B : B = BelowIn(R, S, b)
    OBVIOUS
  <2>3. A \subseteq B /\ a \in B /\ a \notin A
    BY <1>3, <2>1, <2>2 DEF BelowIn, Orders
  <2>4. IsFiniteSet(B) /\ IsFiniteSet(A)
    BY <2>1, <2>2, FS_Subset DEF BelowIn
  <2>5. Cardinality(A) < Cardinality(B)
    BY <2>3, <2>4, FS_Subset, FS_CardinalityType
  <2> QED BY <2>1, <2>2, <2>5
<1>4. ASSUME NEW a \in S, NEW b \in S, rank[a] < rank[b] PROVE <<a, b>> \in R
  <2>1. a = b \/ <<a, b>> \in R \/ <<b, a>> \in R
    BY DEF Orders
  <2>2. rank[a] \in Nat /\ rank[b] \in Nat
    BY <1>1, <1>2
  <2> QED BY <1>3, <1>4, <2>1, <2>2
<1>5. \A i \in 0 .. N - 1 : \E e \in S : rank[e] = i
  <2>1. IsFiniteSet(0 .. N - 1) /\ Cardinality(0 .. N - 1) = N
    BY <1>1, FS_Interval
  <2>2. rank \in [S -> 0 .. N - 1]
    BY <1>2
  <2>3. rank \in Injection(S, 0 .. N - 1)
    <3>1. ASSUME NEW a \in S, NEW b \in S, rank[a] = rank[b] PROVE a = b
      <4>1. ~ (rank[a] < rank[b]) /\ ~ (rank[b] < rank[a])
        BY <1>1, <1>2, <3>1
      <4> QED BY <1>3, <4>1 DEF Orders
    <3> QED BY <2>2, <3>1 DEF Injection, IsInjective
  <2>4. rank \in Surjection(S, 0 .. N - 1)
    BY <2>1, <2>3, FS_Injection
  <2> QED BY <2>4 DEF Surjection
<1> QED BY <1>2, <1>3, <1>4, <1>5

(***************************************************************************)
(* s has the elements of S in the order R.                                 *)
(***************************************************************************)
IsInOrder(s, S, R) ==
    /\ s \in [1 .. Cardinality(S) -> S]
    /\ \A i, j \in 1 .. Cardinality(S) : i < j <=> <<s[i], s[j]>> \in R
    /\ \A e \in S : \E i \in 1 .. Cardinality(S) : s[i] = e

LEMMA RankExists ==
    ASSUME NEW S, IsFiniteSet(S), NEW R, Orders(R, S), NEW i \in 1 .. Cardinality(S)
    PROVE  \E e \in S : Cardinality(BelowIn(R, S, e)) = i - 1
<1>1. PICK rank : rank = [e \in S |-> Cardinality(BelowIn(R, S, e))]
  OBVIOUS
<1>2. Cardinality(S) \in Nat
  BY FS_CardinalityType
<1>3. PICK e \in S : rank[e] = i - 1
  <2>1. i - 1 \in 0 .. Cardinality(S) - 1
    BY <1>2
  <2> QED BY <1>1, <2>1, Ranks
<1> QED BY <1>1, <1>3

LEMMA SortedByRank ==
    ASSUME NEW S, IsFiniteSet(S), NEW R, Orders(R, S),
           NEW s \in [1 .. Cardinality(S) -> S],
           \A i \in 1 .. Cardinality(S) : Cardinality(BelowIn(R, S, s[i])) = i - 1
    PROVE  IsInOrder(s, S, R)
<1>1. PICK rank : rank = [e \in S |-> Cardinality(BelowIn(R, S, e))]
  OBVIOUS
<1>2. Cardinality(S) \in Nat
  BY FS_CardinalityType
<1>3. \A i \in 1 .. Cardinality(S) : s[i] \in S /\ rank[s[i]] = i - 1
  BY <1>1
<1>4. /\ \A a, b \in S : <<a, b>> \in R <=> rank[a] < rank[b]
      /\ \A e \in S : rank[e] \in 0 .. Cardinality(S) - 1
  BY <1>1, Ranks
<1>5. ASSUME NEW i \in 1 .. Cardinality(S), NEW j \in 1 .. Cardinality(S)
      PROVE  i < j <=> <<s[i], s[j]>> \in R
  <2>1. rank[s[i]] = i - 1 /\ rank[s[j]] = j - 1
    BY <1>3
  <2>2. <<s[i], s[j]>> \in R <=> rank[s[i]] < rank[s[j]]
    BY <1>3, <1>4
  <2> QED BY <1>2, <2>1, <2>2
<1>6. ASSUME NEW e \in S PROVE \E i \in 1 .. Cardinality(S) : s[i] = e
  <2>1. PICK i : i = rank[e] + 1
    OBVIOUS
  <2>2. i \in 1 .. Cardinality(S) /\ i - 1 = rank[e]
    BY <1>2, <1>4, <2>1
  <2>3. s[i] \in S /\ rank[s[i]] = rank[e]
    BY <1>3, <2>2
  <2>4. ~ (rank[s[i]] < rank[e]) /\ ~ (rank[e] < rank[s[i]]) /\ rank[e] \in Int
    BY <1>4, <2>3
  <2>5. s[i] = e
    BY <1>4, <2>3, <2>4 DEF Orders
  <2> QED BY <2>2, <2>5
<1> QED BY <1>5, <1>6 DEF IsInOrder
=============================================================================
