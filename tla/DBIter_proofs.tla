---------------------------- MODULE DBIter_proofs ----------------------------
(***************************************************************************)
(* Proofs about DBIter: an iterator over the database shows the user's     *)
(* view at its sequence number, for every number of children, keys and     *)
(* entries, and whatever is written meanwhile.                             *)
(*                                                                         *)
(* Both directions are one proof: w is TRUE forwards, and Prior(w, a, b)   *)
(* says that an iterator moving that way comes to a before b.              *)
(***************************************************************************)
EXTENDS DBIter, Induction

-----------------------------------------------------------------------------
(* The entries, and the inductive invariant                                *)

EntryTypes == {"value", "deletion", "corrupt"}
Entries == [user : UserKeys, seq : Nat \ {0}, type : EntryTypes]
AllOf(C) == UNION {C[i] : i \in Children}

(* Every write has a sequence number of its own, and is in one child. *)
DataOK(C, last) ==
    /\ C \in [Children -> SUBSET Entries]
    /\ \A a, b \in AllOf(C) : a.seq = b.seq => a = b
    /\ \A i, j \in Children : i # j => C[i] \cap C[j] = {}
    /\ last \in Nat /\ \A e \in AllOf(C) : e.seq <= last

(* What a reader at sequence number q may see. *)
ViewOf(C, q) == {e \in AllOf(C) : e.type \in {"value", "deletion"} /\ e.seq <= q}

(* The entries of a view S that the user is shown. *)
ShownOf(S) == {e \in S : e.type = "value" /\ \A f \in S : f.user = e.user => f.seq <= e.seq}

Prior(w, a, b) == IF w THEN Before(a, b) ELSE Before(b, a)

(***************************************************************************)
(* A merging iterator that moves the way w: every child is at an entry of  *)
(* its own, the current one is the first of them, and no entry of S that   *)
(* is still to come has been passed by a child.                            *)
(***************************************************************************)
Placed(C, at) == /\ at \in [Children -> AllOf(C) \cup {NotValid}]
                 /\ \A i \in Children : at[i] # NotValid => at[i] \in C[i]
FindCurrent(w, at) == IF w THEN FindSmallest(at) ELSE FindLargest(at)
MergerOK(C, S, w, m) ==
    /\ m = [at |-> m.at, current |-> m.current, forward |-> w]
    /\ Placed(C, m.at) /\ m.current = FindCurrent(w, m.at)
    /\ MergeValid(m) => \A i \in Children : \A e \in C[i] \cap S :
          ~ Prior(w, e, MergeKey(m)) => m.at[i] # NotValid /\ ~ Prior(w, e, m.at[i])

(* The entries of S that it will still come to, the current one included. *)
ToCome(S, w, m) == {e \in S : MergeValid(m) /\ ~ Prior(w, e, MergeKey(m))}

(***************************************************************************)
(* The iterator is at the entry shown at position; backwards, its merging  *)
(* iterator is before all entries of that key.                             *)
(***************************************************************************)
AtShown(C, S, m, direction, key, value, p) ==
    \E e \in ShownOf(S) :
       /\ p = e.user
       /\ \/ /\ direction = "forward" /\ MergerOK(C, S, TRUE, m)
             /\ MergeValid(m) /\ MergeKey(m) = e
          \/ /\ direction = "reverse" /\ MergerOK(C, S, FALSE, m)
             /\ ToCome(S, FALSE, m) = {f \in S : f.user < p}
             /\ key = p /\ value = e

DBIterInv ==
    /\ DataOK(contents, last_sequence) /\ sequence_ \in Nat /\ sequence_ <= last_sequence
    /\ valid_ \in BOOLEAN
    /\ IF valid_ THEN AtShown(contents, ViewOf(contents, sequence_), Merger, direction_,
                              saved_key_, saved_value_, position)
       ELSE position = NoKey

-----------------------------------------------------------------------------
(* The order of the entries                                                *)

Unique(E) == E \subseteq Entries /\ \A a, b \in E : a.seq = b.seq => a = b

LEMMA PriorOrder ==
    ASSUME NEW w \in BOOLEAN, NEW E, Unique(E)
    PROVE  /\ \A a \in E : ~ Prior(w, a, a)
           /\ \A a, b \in E : a = b \/ Prior(w, a, b) \/ Prior(w, b, a)
           /\ \A a, b \in E : Prior(w, a, b) => ~ Prior(w, b, a)
           /\ \A a, b, c \in E : Prior(w, a, b) /\ Prior(w, b, c) => Prior(w, a, c)
<1>1. \A a \in E : a.user \in Nat /\ a.seq \in Nat
  BY DBIterAssumption DEF Unique, Entries
<1>2. \A a, b \in E : a.seq = b.seq => a = b
  BY DEF Unique
<1>3. /\ \A a \in E : ~ Before(a, a)
      /\ \A a, b \in E : a = b \/ Before(a, b) \/ Before(b, a)
      /\ \A a, b \in E : Before(a, b) => ~ Before(b, a)
      /\ \A a, b, c \in E : Before(a, b) /\ Before(b, c) => Before(a, c)
  BY <1>1, <1>2 DEF Before
<1> QED BY <1>3 DEF Prior

LEMMA AllUnique ==
    ASSUME NEW C, NEW last, DataOK(C, last)
    PROVE  Unique(AllOf(C)) /\ IsFiniteSet(AllOf(C))
           /\ (\A e \in AllOf(C) : e # NotValid)
<1> DEFINE E == AllOf(C)
           number == [e \in E |-> e.seq]
<1>1. Unique(E) /\ last \in Nat /\ \A e \in E : e.seq \in 1 .. last
  BY DEF DataOK, AllOf, Unique, Entries
<1>2. \A a, b \in E : a.seq = b.seq => a = b
  BY <1>1 DEF Unique
<1> HIDE DEF E
<1>3. number \in Injection(E, 1 .. last)
  BY <1>1, <1>2 DEF Injection, IsInjective
<1>4. IsFiniteSet(E)
  <2>1. IsFiniteSet(1 .. last)
    BY <1>1, FS_Interval
  <2> QED BY <1>3, <2>1, FS_Injection
<1>5. \A e \in E : e # NotValid
  BY <1>1 DEF NotValid
<1> QED BY <1>1, <1>4, <1>5 DEF E

(***************************************************************************)
(* The first entry of a set, in either direction.                          *)
(***************************************************************************)
LEMMA FirstExists ==
    ASSUME NEW w \in BOOLEAN, NEW E, Unique(E), IsFiniteSet(E), E # {}
    PROVE  \E e \in E : \A f \in E \ {e} : Prior(w, e, f)
<1> DEFINE F == {T \in SUBSET E : T = {} \/ \E e \in T : \A f \in T \ {e} : Prior(w, e, f)}
<1>1. {} \in F
  OBVIOUS
<1>2. ASSUME NEW T \in SUBSET E, NEW x \in E \ T, T \in F PROVE T \cup {x} \in F
  <2>1. CASE T = {}
    <3>1. x \in T \cup {x} /\ \A f \in (T \cup {x}) \ {x} : Prior(w, x, f)
      BY <2>1
    <3> QED BY <3>1
  <2>2. CASE T # {}
    <3>1. PICK e \in T : \A f \in T \ {e} : Prior(w, e, f)
      BY <1>2, <2>2
    <3>2. CASE Prior(w, x, e)
      <4>1. \A f \in (T \cup {x}) \ {x} : Prior(w, x, f)
        BY <3>1, <3>2, PriorOrder
      <4> QED BY <4>1
    <3>3. CASE ~ Prior(w, x, e)
      <4>1. \A f \in (T \cup {x}) \ {e} : Prior(w, e, f)
        BY <3>1, <3>3, PriorOrder
      <4> QED BY <4>1
    <3> QED BY <3>2, <3>3
  <2> QED BY <2>1, <2>2
<1>3. E \in F
  <2> HIDE DEF F
  <2> QED BY <1>1, <1>2, ElementByElement
<1> QED BY <1>3

FirstOf(w, X) == IF w THEN First(X) ELSE Last(X)

LEMMA FirstIs ==
    ASSUME NEW w \in BOOLEAN, NEW E, Unique(E), IsFiniteSet(E), NEW X, X \subseteq E
    PROVE  /\ X = {} => FirstOf(w, X) = NotValid
           /\ X # {} => /\ FirstOf(w, X) \in X
                        /\ \A f \in X : ~ Prior(w, f, FirstOf(w, X))
<1>1. X = {} => FirstOf(w, X) = NotValid
  BY DEF FirstOf, First, Last
<1>2. ASSUME X # {}
      PROVE  /\ FirstOf(w, X) \in X
             /\ \A f \in X : ~ Prior(w, f, FirstOf(w, X))
  <2>1. Unique(X) /\ IsFiniteSet(X)
    BY FS_Subset DEF Unique
  <2>2. \E e \in X : \A f \in X \ {e} : Prior(w, e, f)
    BY <1>2, <2>1, FirstExists
  <2>3. FirstOf(w, X) \in X /\ \A f \in X \ {FirstOf(w, X)} : Prior(w, FirstOf(w, X), f)
    <3>1. CASE w
      <4>1. FirstOf(w, X) = CHOOSE e \in X : \A f \in X \ {e} : Before(e, f)
        BY <1>2, <3>1 DEF FirstOf, First
      <4>2. \E e \in X : \A f \in X \ {e} : Before(e, f)
        BY <2>2, <3>1 DEF Prior
      <4> QED BY <3>1, <4>1, <4>2 DEF Prior
    <3>2. CASE ~ w
      <4>1. FirstOf(w, X) = CHOOSE e \in X : \A f \in X \ {e} : Before(f, e)
        BY <1>2, <3>2 DEF FirstOf, Last
      <4>2. \E e \in X : \A f \in X \ {e} : Before(f, e)
        BY <2>2, <3>2 DEF Prior
      <4> QED BY <3>2, <4>1, <4>2 DEF Prior
    <3> QED BY <3>1, <3>2
  <2> QED BY <2>1, <2>3, PriorOrder
<1> QED BY <1>1, <1>2

(***************************************************************************)
(* The current child is the one at the first entry.                        *)
(***************************************************************************)
LEMMA CurrentIs ==
    ASSUME NEW C, NEW last, DataOK(C, last), NEW w \in BOOLEAN, NEW at, Placed(C, at),
           NEW c, c = FindCurrent(w, at)
    PROVE  /\ c = 0 => \A i \in Children : at[i] = NotValid
           /\ c # 0 => /\ c \in Children /\ at[c] \in C[c] /\ at[c] # NotValid
                       /\ \A j \in Children : at[j] # NotValid => ~ Prior(w, at[j], at[c])
<1> DEFINE valid == {i \in Children : at[i] # NotValid}
           X == {at[i] : i \in valid}
<1>1. Unique(AllOf(C)) /\ IsFiniteSet(AllOf(C))
  BY AllUnique
<1>2. X \subseteq AllOf(C) /\ \A i \in valid : at[i] \in C[i]
  BY DEF Placed
<1>3. CASE valid = {}
  <2>1. c = 0
    BY <1>3 DEF FindCurrent, FindSmallest, FindLargest
  <2> QED BY <1>3, <2>1
<1>4. CASE valid # {}
  <2>1. PICK e \in X : \A f \in X \ {e} : Prior(w, e, f)
    <3>1. Unique(X) /\ IsFiniteSet(X)
      BY <1>1, <1>2, FS_Subset DEF Unique
    <3>2. X # {}
      BY <1>4
    <3> HIDE DEF X
    <3> QED BY <3>1, <3>2, FirstExists
  <2>2. PICK i \in valid : at[i] = e
    BY <2>1
  <2>3. \A j, k \in valid : j # k => at[j] # at[k]
    BY <1>2 DEF DataOK
  <2>4. \A j \in valid \ {i} : Prior(w, at[i], at[j])
    BY <2>1, <2>2, <2>3
  <2>5. c \in valid /\ \A j \in valid \ {c} : Prior(w, at[c], at[j])
    <3>1. CASE w
      <4>1. c = CHOOSE k \in valid : \A j \in valid \ {k} : Before(at[k], at[j])
        BY <1>4, <3>1 DEF FindCurrent, FindSmallest
      <4>2. \E k \in valid : \A j \in valid \ {k} : Before(at[k], at[j])
        BY <2>4, <3>1 DEF Prior
      <4> HIDE DEF valid
      <4> QED BY <3>1, <4>1, <4>2 DEF Prior
    <3>2. CASE ~ w
      <4>1. c = CHOOSE k \in valid : \A j \in valid \ {k} : Before(at[j], at[k])
        BY <1>4, <3>2 DEF FindCurrent, FindLargest
      <4>2. \E k \in valid : \A j \in valid \ {k} : Before(at[j], at[k])
        BY <2>4, <3>2 DEF Prior
      <4> HIDE DEF valid
      <4> QED BY <3>2, <4>1, <4>2 DEF Prior
    <3> QED BY <3>1, <3>2
  <2>6. \A j \in valid : at[j] \in AllOf(C)
    BY <1>2
  <2>7. \A j \in valid : ~ Prior(w, at[j], at[c])
    BY <1>1, <2>5, <2>6, PriorOrder
  <2>8. c # 0
    BY <2>5, DBIterAssumption
  <2> QED BY <1>2, <2>5, <2>7, <2>8
<1> QED BY <1>3, <1>4

-----------------------------------------------------------------------------
(* The merging iterator                                                    *)

(* R is what comes from some point on, moving the way w. *)
Rest(w, E, R) == R \subseteq E /\ \A x \in R, y \in E : Prior(w, x, y) => y \in R

(* The children are where R begins, as far as S is concerned. *)
Reaches(C, S, w, R, at) ==
    /\ at = [i \in Children |-> at[i]]
    /\ \A i \in Children : at[i] # NotValid => at[i] \in C[i] /\ at[i] \in R
    /\ \A i \in Children : \A e \in C[i] \cap S :
          e \in R => at[i] # NotValid /\ ~ Prior(w, e, at[i])

Turned(w, at) == IF w THEN Forwards(at) ELSE Backwards(at)

LEMMA MovesTo ==
    ASSUME NEW C, NEW last, DataOK(C, last), NEW S, S \subseteq AllOf(C), NEW w \in BOOLEAN,
           NEW R, Rest(w, AllOf(C), R), NEW at, Reaches(C, S, w, R, at),
           NEW n, n = Turned(w, at)
    PROVE  /\ MergerOK(C, S, w, n)
           /\ MergeValid(n) => MergeKey(n) \in R
           /\ ToCome(S, w, n) = S \cap R
<1> DEFINE c == FindCurrent(w, at)
           K == at[c]
<1>1. n = [at |-> at, current |-> c, forward |-> w]
  BY DEF Turned, Forwards, Backwards, FindCurrent
<1>2. Unique(AllOf(C)) /\ R \subseteq AllOf(C)
  BY AllUnique DEF Rest
<1>3. Placed(C, at)
  BY <1>2 DEF Placed, Reaches
<1>4. /\ c = 0 => \A i \in Children : at[i] = NotValid
      /\ c # 0 => /\ c \in Children /\ K \in C[c] /\ K # NotValid
                  /\ \A j \in Children : at[j] # NotValid => ~ Prior(w, at[j], K)
  BY <1>3, CurrentIs
<1> HIDE DEF c
<1>5. ASSUME NEW e \in S PROVE \E i \in Children : e \in C[i]
  BY <1>5 DEF AllOf
<1>6. CASE c = 0
  <2>1. ~ MergeValid(n)
    BY <1>1, <1>6 DEF MergeValid
  <2>2. S \cap R = {}
    BY <1>4, <1>5, <1>6 DEF Reaches
  <2>3. MergerOK(C, S, w, n)
    BY <1>1, <1>3, <2>1 DEF MergerOK, c
  <2>4. ToCome(S, w, n) = {}
    BY <2>1 DEF ToCome
  <2> QED BY <2>1, <2>2, <2>3, <2>4 DEF MergeValid
<1>7. CASE c # 0
  <2>1. MergeValid(n) /\ MergeKey(n) = K
    BY <1>1, <1>7 DEF MergeValid, MergeKey
  <2>2. K \in R /\ K \in AllOf(C)
    BY <1>2, <1>4, <1>7 DEF Reaches
  <2>3. ASSUME NEW e \in AllOf(C), ~ Prior(w, e, K) PROVE e \in R
    BY <1>2, <2>2, <2>3, PriorOrder DEF Rest
  <2>4. ASSUME NEW e \in S, e \in R PROVE ~ Prior(w, e, K)
    <3>1. PICK i \in Children : e \in C[i]
      BY <1>5
    <3>2. at[i] # NotValid /\ ~ Prior(w, e, at[i]) /\ at[i] \in AllOf(C)
      BY <2>4, <3>1, <1>2 DEF Reaches
    <3>3. ~ Prior(w, at[i], K)
      BY <1>4, <1>7, <3>2
    <3> QED BY <1>2, <2>2, <2>4, <3>2, <3>3, PriorOrder
  <2>5. ToCome(S, w, n) = S \cap R
    BY <2>1, <2>3, <2>4 DEF ToCome
  <2>6. \A i \in Children : \A e \in C[i] \cap S :
           ~ Prior(w, e, K) => at[i] # NotValid /\ ~ Prior(w, e, at[i])
    BY <2>3 DEF Reaches
  <2> QED BY <1>1, <1>3, <2>1, <2>2, <2>5, <2>6 DEF MergerOK, c
<1> QED BY <1>6, <1>7

LEMMA FirstReaches ==
    ASSUME NEW C, NEW last, DataOK(C, last), NEW S, S \subseteq AllOf(C), NEW w \in BOOLEAN,
           NEW R, Rest(w, AllOf(C), R), NEW at,
           at = [i \in Children |-> FirstOf(w, C[i] \cap R)]
    PROVE  Reaches(C, S, w, R, at)
<1>1. Unique(AllOf(C)) /\ IsFiniteSet(AllOf(C)) /\ \A e \in AllOf(C) : e # NotValid
  BY AllUnique
<1>2. ASSUME NEW i \in Children
      PROVE  /\ at[i] # NotValid => at[i] \in C[i] /\ at[i] \in R
             /\ \A e \in C[i] \cap S : e \in R => at[i] # NotValid /\ ~ Prior(w, e, at[i])
  <2>1. PICK X : X = C[i] \cap R
    OBVIOUS
  <2>2. X \subseteq AllOf(C) /\ at[i] = FirstOf(w, X)
    BY <2>1 DEF AllOf
  <2>3. /\ X = {} => at[i] = NotValid
        /\ X # {} => at[i] \in X /\ at[i] # NotValid /\ \A f \in X : ~ Prior(w, f, at[i])
    BY <1>1, <2>2, FirstIs
  <2> QED BY <2>1, <2>3
<1> QED BY <1>2 DEF Reaches

(* Next or Prev, by direction. *)
MoveOf(w, m) == IF w THEN MergeNext(m) ELSE MergePrev(m)

(* What comes after K. *)
After(w, E, K) == {e \in E : Prior(w, K, e)}

LEMMA MergerIsAt ==
    ASSUME NEW C, NEW last, DataOK(C, last), NEW S, NEW g \in BOOLEAN, NEW m,
           MergerOK(C, S, g, m), MergeValid(m)
    PROVE  /\ m.forward = g /\ m.current \in Children /\ MergeKey(m) = m.at[m.current]
           /\ MergeKey(m) \in C[m.current] /\ MergeKey(m) \in AllOf(C)
           /\ \A i \in Children : m.at[i] # NotValid =>
                 m.at[i] \in C[i] /\ m.at[i] \in AllOf(C) /\ ~ Prior(g, m.at[i], MergeKey(m))
<1>1. m.forward = g /\ Placed(C, m.at) /\ m.current = FindCurrent(g, m.at)
  BY DEF MergerOK
<1>2. m.current # 0
  BY DEF MergeValid
<1>3. /\ m.current \in Children /\ m.at[m.current] \in C[m.current]
      /\ \A j \in Children : m.at[j] # NotValid => ~ Prior(g, m.at[j], m.at[m.current])
  BY <1>1, <1>2, CurrentIs
<1>4. m.at[m.current] \in AllOf(C)
  BY <1>3 DEF AllOf
<1> QED BY <1>1, <1>3, <1>4 DEF MergeKey, Placed

(***************************************************************************)
(* Next: the children are after the current key, which is in one only.     *)
(***************************************************************************)
LEMMA NextReaches ==
    ASSUME DataOK(contents, last_sequence), NEW S, S \subseteq AllOf(contents), NEW g \in BOOLEAN,
           NEW m, MergerOK(contents, S, g, m), MergeValid(m)
    PROVE  \E at : /\ Reaches(contents, S, TRUE, After(TRUE, AllOf(contents), MergeKey(m)), at)
                   /\ MergeNext(m) = Turned(TRUE, at)
<1> DEFINE C == contents
           E == AllOf(C)
           K == MergeKey(m)
           c == m.current
<1>1. Unique(E) /\ IsFiniteSet(E) /\ \A e \in E : e # NotValid
  BY AllUnique
<1>2. /\ m.forward = g /\ c \in Children /\ K = m.at[c]
      /\ K \in C[c] /\ K \in E
      /\ \A i \in Children : m.at[i] # NotValid =>
            m.at[i] \in C[i] /\ m.at[i] \in E /\ ~ Prior(g, m.at[i], K)
  BY MergerIsAt
<1> DEFINE R == After(TRUE, E, K)
           at == [OthersAfter(m) EXCEPT ![c] = NextChild(c, @)]
<1>3. MergeNext(m) = Turned(TRUE, at)
  BY DEF MergeNext, Turned
<1>4. \A i \in Children : C[i] \subseteq E
  BY DEF AllOf
<1>5. at = [i \in Children |-> at[i]]
  BY DEF OthersAfter
<1>6. ASSUME NEW i \in Children
      PROVE  /\ at[i] # NotValid => at[i] \in C[i] /\ at[i] \in R
             /\ \A e \in C[i] \cap S : e \in R => at[i] # NotValid /\ ~ Prior(TRUE, e, at[i])
  <2>1. PICK X : X = {f \in C[i] : Before(K, f)}
    OBVIOUS
  <2>2. X = C[i] \cap R /\ X \subseteq E
    BY <1>4, <2>1 DEF After, Prior
  <2>3. /\ X = {} => FirstOf(TRUE, X) = NotValid
        /\ X # {} => FirstOf(TRUE, X) \in X /\ \A f \in X : ~ Prior(TRUE, f, FirstOf(TRUE, X))
    BY <1>1, <2>2, FirstIs
  <2>4. CASE at[i] = FirstOf(TRUE, X)
    BY <1>1, <2>2, <2>3, <2>4
  <2>5. CASE i = c
    <3>1. OthersAfter(m)[i] = K
      BY <1>2, <2>5 DEF OthersAfter
    <3>2. at[i] = NextChild(c, K)
      BY <2>5, <3>1 DEF OthersAfter
    <3>3. at[i] = FirstOf(TRUE, X)
      BY <2>1, <2>5, <3>2 DEF NextChild, FirstOf
    <3> QED BY <2>4, <3>3
  <2>6. CASE i # c /\ g
    <3>1. at[i] = m.at[i]
      BY <1>2, <2>6 DEF OthersAfter
    <3>2. at[i] # NotValid => at[i] # K
      <4>1. C[i] \cap C[c] = {}
        BY <1>2, <2>6 DEF DataOK
      <4> QED BY <1>2, <3>1, <4>1
    <3>3. at[i] # NotValid => at[i] \in C[i] /\ Prior(TRUE, K, at[i])
      BY <1>1, <1>2, <2>6, <3>1, <3>2, PriorOrder
    <3>4. ASSUME NEW e \in C[i] \cap S, e \in R
          PROVE  at[i] # NotValid /\ ~ Prior(TRUE, e, at[i])
      <4>1. ~ Prior(TRUE, e, K)
        BY <1>1, <1>2, <3>4, PriorOrder DEF After
      <4> QED BY <2>6, <3>1, <3>4, <4>1 DEF MergerOK
    <3> QED BY <1>2, <2>6, <3>1, <3>3, <3>4 DEF After
  <2>7. CASE i # c /\ ~ g
    <3>1. PICK e : e = SeekChild(i, K)
      OBVIOUS
    <3>2. at[i] = IF e = K THEN NextChild(i, e) ELSE e
      BY <1>2, <2>7, <3>1 DEF OthersAfter
    <3>3. K \notin C[i]
      BY <1>2, <2>7 DEF DataOK
    <3>4. {f \in C[i] : ~ Before(f, K)} = X
      <4>1. ASSUME NEW f \in C[i] PROVE ~ Before(f, K) <=> Before(K, f)
        <5>1. f \in E /\ f # K
          BY <1>4, <3>3
        <5> QED BY <1>1, <1>2, <5>1, PriorOrder DEF Prior
      <4> QED BY <2>1, <4>1
    <3>5. e = FirstOf(TRUE, X)
      BY <3>1, <3>4 DEF SeekChild, FirstOf
    <3>6. e # K
      BY <1>1, <1>2, <2>1, <2>3, <3>3, <3>5
    <3> QED BY <2>4, <3>2, <3>5, <3>6
  <2> QED BY <2>5, <2>6, <2>7
<1> HIDE DEF at, R, C
<1>7. Reaches(C, S, TRUE, R, at)
  BY <1>5, <1>6 DEF Reaches
<1> QED BY <1>3, <1>7 DEF R, C

(***************************************************************************)
(* Prev: the children are before the current key.                          *)
(***************************************************************************)
LEMMA PrevReaches ==
    ASSUME DataOK(contents, last_sequence), NEW S, S \subseteq AllOf(contents), NEW g \in BOOLEAN,
           NEW m, MergerOK(contents, S, g, m), MergeValid(m)
    PROVE  \E at : /\ Reaches(contents, S, FALSE, After(FALSE, AllOf(contents), MergeKey(m)), at)
                   /\ MergePrev(m) = Turned(FALSE, at)
<1> DEFINE C == contents
           E == AllOf(C)
           K == MergeKey(m)
           c == m.current
<1>1. Unique(E) /\ IsFiniteSet(E) /\ \A e \in E : e # NotValid
  BY AllUnique
<1>2. /\ m.forward = g /\ c \in Children /\ K = m.at[c]
      /\ K \in C[c] /\ K \in E
      /\ \A i \in Children : m.at[i] # NotValid =>
            m.at[i] \in C[i] /\ m.at[i] \in E /\ ~ Prior(g, m.at[i], K)
  BY MergerIsAt
<1> DEFINE R == After(FALSE, E, K)
           at == [OthersBefore(m) EXCEPT ![c] = PrevChild(c, @)]
<1>3. MergePrev(m) = Turned(FALSE, at)
  BY DEF MergePrev, Turned
<1>4. \A i \in Children : C[i] \subseteq E
  BY DEF AllOf
<1>5. at = [i \in Children |-> at[i]]
  BY DEF OthersBefore
<1>6. ASSUME NEW i \in Children
      PROVE  /\ at[i] # NotValid => at[i] \in C[i] /\ at[i] \in R
             /\ \A e \in C[i] \cap S : e \in R => at[i] # NotValid /\ ~ Prior(FALSE, e, at[i])
  <2>1. PICK X : X = {f \in C[i] : Before(f, K)}
    OBVIOUS
  <2>2. X = C[i] \cap R /\ X \subseteq E
    BY <1>4, <2>1 DEF After, Prior
  <2>3. /\ X = {} => FirstOf(FALSE, X) = NotValid
        /\ X # {} => FirstOf(FALSE, X) \in X /\ \A f \in X : ~ Prior(FALSE, f, FirstOf(FALSE, X))
    BY <1>1, <2>2, FirstIs
  <2>4. CASE at[i] = FirstOf(FALSE, X)
    BY <1>1, <2>2, <2>3, <2>4
  <2>5. CASE i = c
    <3>1. OthersBefore(m)[i] = K
      BY <1>2, <2>5 DEF OthersBefore
    <3>2. at[i] = PrevChild(c, K)
      BY <2>5, <3>1 DEF OthersBefore
    <3>3. at[i] = FirstOf(FALSE, X)
      BY <2>1, <2>5, <3>2 DEF PrevChild, FirstOf
    <3> QED BY <2>4, <3>3
  <2>6. CASE i # c /\ ~ g
    <3>1. at[i] = m.at[i]
      BY <1>2, <2>6 DEF OthersBefore
    <3>2. at[i] # NotValid => at[i] # K
      <4>1. C[i] \cap C[c] = {}
        BY <1>2, <2>6 DEF DataOK
      <4> QED BY <1>2, <3>1, <4>1
    <3>3. at[i] # NotValid => at[i] \in C[i] /\ Prior(FALSE, K, at[i])
      <4>1. at[i] # NotValid => at[i] \in C[i] /\ at[i] \in E /\ ~ Prior(FALSE, at[i], K)
        BY <1>2, <2>6, <3>1 DEF Prior
      <4> QED BY <1>1, <1>2, <3>2, <4>1, PriorOrder
    <3>4. ASSUME NEW e \in C[i] \cap S, e \in R
          PROVE  at[i] # NotValid /\ ~ Prior(FALSE, e, at[i])
      <4>1. ~ Prior(FALSE, e, K)
        BY <1>1, <1>2, <3>4, PriorOrder DEF After
      <4> QED BY <2>6, <3>1, <3>4, <4>1 DEF MergerOK
    <3> QED BY <1>2, <2>6, <3>1, <3>3, <3>4 DEF After
  <2>7. CASE i # c /\ g
    <3>1. PICK e : e = SeekChild(i, K)
      OBVIOUS
    <3>2. at[i] = IF e = NotValid THEN Last(C[i]) ELSE PrevChild(i, e)
      BY <1>2, <2>7, <3>1 DEF OthersBefore
    <3>3. PICK Y : Y = {f \in C[i] : ~ Before(f, K)}
      OBVIOUS
    <3>4. e = FirstOf(TRUE, Y) /\ Y \subseteq E
      BY <1>4, <3>1, <3>3 DEF SeekChild, FirstOf
    <3>5. /\ Y = {} => e = NotValid
          /\ Y # {} => e \in Y /\ \A f \in Y : ~ Prior(TRUE, f, e)
      BY <1>1, <3>4, FirstIs
    <3>6. at[i] = FirstOf(FALSE, X)
      <4>1. CASE Y = {}
        <5>1. X = C[i]
          BY <2>1, <3>3, <4>1
        <5> QED BY <3>2, <3>5, <4>1, <5>1 DEF FirstOf
      <4>2. CASE Y # {}
        <5>1. e \in E /\ e \in C[i] /\ ~ Before(e, K)
          BY <1>4, <3>3, <3>5, <4>2
        <5>2. ASSUME NEW f \in C[i] PROVE Before(f, e) <=> Before(f, K)
          <6>1. f \in E /\ (~ Before(f, K) => ~ Before(f, e))
            BY <1>4, <3>3, <3>5, <4>2 DEF Prior
          <6>2. e = K \/ Before(K, e)
            BY <1>1, <1>2, <5>1, PriorOrder DEF Prior
          <6> QED BY <1>1, <1>2, <5>1, <6>1, <6>2, PriorOrder DEF Prior
        <5>3. {f \in C[i] : Before(f, e)} = X
          BY <2>1, <5>2
        <5>4. e # NotValid
          BY <1>1, <5>1
        <5> QED BY <3>2, <5>3, <5>4 DEF PrevChild, FirstOf
      <4> QED BY <4>1, <4>2
    <3> QED BY <2>4, <3>6
  <2> QED BY <2>5, <2>6, <2>7
<1> HIDE DEF at, R, C
<1>7. Reaches(C, S, FALSE, R, at)
  BY <1>5, <1>6 DEF Reaches
<1> QED BY <1>3, <1>7 DEF R, C

(***************************************************************************)
(* A move, in either direction from either direction.                      *)
(***************************************************************************)
LEMMA MoveKeeps ==
    ASSUME DataOK(contents, last_sequence), NEW S, S \subseteq AllOf(contents), NEW g \in BOOLEAN,
           NEW m, MergerOK(contents, S, g, m), MergeValid(m), NEW w \in BOOLEAN,
           NEW K, K = MergeKey(m), NEW n, n = MoveOf(w, m)
    PROVE  /\ MergerOK(contents, S, w, n) /\ K \in AllOf(contents)
           /\ MergeValid(n) => MergeKey(n) \in After(w, AllOf(contents), K)
           /\ ToCome(S, w, n) = After(w, S, K)
<1> DEFINE E == AllOf(contents)
           R == After(w, E, K)
<1>1. K \in E /\ Unique(E)
  BY MergerIsAt, AllUnique
<1>2. Rest(w, E, R)
  BY <1>1, PriorOrder DEF Rest, After
<1>3. PICK at : Reaches(contents, S, w, R, at) /\ n = Turned(w, at)
  <2>1. CASE w
    BY <2>1, NextReaches DEF MoveOf
  <2>2. CASE w = FALSE
    BY <2>2, PrevReaches DEF MoveOf
  <2> QED BY <2>1, <2>2
<1>4. /\ MergerOK(contents, S, w, n)
      /\ MergeValid(n) => MergeKey(n) \in R
      /\ ToCome(S, w, n) = S \cap R
  BY <1>2, <1>3, MovesTo
<1>5. S \cap R = After(w, S, K)
  BY DEF After
<1> QED BY <1>1, <1>4, <1>5

LEMMA SeekToEndKeeps ==
    ASSUME DataOK(contents, last_sequence), NEW S, S \subseteq AllOf(contents),
           NEW w \in BOOLEAN, NEW n, n = IF w THEN MergeSeekToFirst ELSE MergeSeekToLast
    PROVE  MergerOK(contents, S, w, n) /\ ToCome(S, w, n) = S
<1> DEFINE E == AllOf(contents)
<1>1. PICK at : at = [i \in Children |-> FirstOf(w, contents[i] \cap E)]
  OBVIOUS
<1>2. at = [i \in Children |-> FirstOf(w, contents[i])]
  <2>1. \A i \in Children : contents[i] \cap E = contents[i]
    BY DEF AllOf
  <2> QED BY <1>1, <2>1
<1>3. n = Turned(w, at)
  BY <1>2 DEF MergeSeekToFirst, MergeSeekToLast, FirstOf, Turned
<1>4. Rest(w, E, E)
  BY DEF Rest
<1>5. Reaches(contents, S, w, E, at)
  BY <1>1, <1>4, FirstReaches
<1>6. MergerOK(contents, S, w, n) /\ ToCome(S, w, n) = S \cap E
  BY <1>3, <1>4, <1>5, MovesTo
<1> QED BY <1>6

(* A merging iterator n that still comes to the entries T of S. *)
StartsAt(S, w, n, T) ==
    \E R, at : /\ Rest(w, AllOf(contents), R) /\ Reaches(contents, S, w, R, at)
               /\ n = Turned(w, at) /\ T = S \cap R

LEMMA StartsKeeps ==
    ASSUME DataOK(contents, last_sequence), NEW S, S \subseteq AllOf(contents),
           NEW w \in BOOLEAN, NEW n, NEW T, StartsAt(S, w, n, T)
    PROVE  MergerOK(contents, S, w, n) /\ ToCome(S, w, n) = T
<1>1. PICK R, at : /\ Rest(w, AllOf(contents), R) /\ Reaches(contents, S, w, R, at)
                   /\ n = Turned(w, at) /\ T = S \cap R
  BY DEF StartsAt
<1>2. MergerOK(contents, S, w, n)
  BY <1>1, MovesTo
<1>3. \A e : e \in ToCome(S, w, n) <=> e \in S /\ e \in R
  BY <1>1, MovesTo
<1> QED BY <1>1, <1>2, <1>3

LEMMA SeekReaches ==
    ASSUME DataOK(contents, last_sequence), sequence_ \in Nat,
           NEW S, S \subseteq AllOf(contents),
           \A e \in S : e.seq <= sequence_, NEW u \in UserKeys,
           NEW w \in BOOLEAN, w,
           NEW n, n = MergeSeek([user |-> u, seq |-> sequence_, type |-> "value"]),
           NEW T, T = {e \in S : e.user >= u}
    PROVE  StartsAt(S, w, n, T)
<1> DEFINE E == AllOf(contents)
           t == [user |-> u, seq |-> sequence_, type |-> "value"]
           R == {f \in E : ~ Before(f, t)}
<1>1. Unique(E) /\ S \subseteq E
  BY AllUnique
<1>2. /\ \A e \in E : e.user \in Nat /\ e.seq \in Nat
      /\ u \in Nat /\ t.user = u /\ t.seq = sequence_
  BY <1>1, DBIterAssumption DEF Unique, Entries
<1>3. Rest(w, E, R)
  BY <1>2 DEF Rest, Prior, Before
<1>4. PICK at : at = [i \in Children |-> FirstOf(w, contents[i] \cap R)]
  OBVIOUS
<1>5. MergeSeek(t) = Turned(w, at)
  <2>1. ASSUME NEW i \in Children PROVE SeekChild(i, t) = FirstOf(w, contents[i] \cap R)
    <3>1. {f \in contents[i] : ~ Before(f, t)} = contents[i] \cap R
      BY DEF AllOf
    <3> QED BY <3>1 DEF SeekChild, FirstOf
  <2> QED BY <1>4, <2>1 DEF MergeSeek, Turned
<1> HIDE DEF R
<1>6. Reaches(contents, S, w, R, at)
  BY <1>1, <1>3, <1>4, FirstReaches
<1>8. S \cap R = {e \in S : e.user >= u}
  <2>1. ASSUME NEW e \in S PROVE e \in R <=> e.user >= u
    <3>1. e \in E /\ e.seq <= sequence_
      OBVIOUS
    <3> QED BY <1>2, <3>1 DEF Before, R
  <2> QED BY <2>1
<1> QED BY <1>3, <1>5, <1>6, <1>8 DEF StartsAt

LEMMA SeekKeeps ==
    ASSUME DataOK(contents, last_sequence), sequence_ \in Nat,
           NEW S, S \subseteq AllOf(contents),
           \A e \in S : e.seq <= sequence_, NEW u \in UserKeys,
           NEW w \in BOOLEAN, w,
           NEW n, n = MergeSeek([user |-> u, seq |-> sequence_, type |-> "value"])
    PROVE  MergerOK(contents, S, w, n) /\ ToCome(S, w, n) = {e \in S : e.user >= u}
<1>1. PICK T : T = {e \in S : e.user >= u}
  OBVIOUS
<1>2. StartsAt(S, w, n, T)
  BY <1>1, SeekReaches
<1>3. MergerOK(contents, S, w, n) /\ ToCome(S, w, n) = T
  BY <1>2, StartsKeeps
<1> QED BY <1>1, <1>3

(***************************************************************************)
(* Every move leaves fewer entries, so the loops have rounds enough.       *)
(***************************************************************************)
LeftFor(w, m) == Cardinality(ToCome(AllOf(contents), w, m))

LEMMA LeftIsCount ==
    ASSUME DataOK(contents, last_sequence), NEW w, NEW m
    PROVE  /\ LeftFor(w, m) \in Nat /\ Rounds = Cardinality(AllOf(contents)) + 1
           /\ Rounds \in Nat /\ LeftFor(w, m) < Rounds
<1> DEFINE E == AllOf(contents)
<1>1. IsFiniteSet(E) /\ Cardinality(E) \in Nat
  BY AllUnique, FS_CardinalityType
<1>2. Rounds = Cardinality(E) + 1
  BY DEF Rounds, AllOf
<1>3. ToCome(E, w, m) \subseteq E
  BY DEF ToCome
<1>4. LeftFor(w, m) \in Nat /\ LeftFor(w, m) <= Cardinality(E)
  BY <1>1, <1>3, FS_Subset, FS_CardinalityType DEF LeftFor
<1> QED BY <1>1, <1>2, <1>4

LEMMA MoveLeavesFewer ==
    ASSUME DataOK(contents, last_sequence), NEW S, S \subseteq AllOf(contents), NEW w \in BOOLEAN,
           NEW m, MergerOK(contents, S, w, m), MergeValid(m), NEW n, n = MoveOf(w, m)
    PROVE  LeftFor(w, n) < LeftFor(w, m)
<1> DEFINE E == AllOf(contents)
           K == MergeKey(m)
<1>1. /\ K \in E /\ Unique(E) /\ IsFiniteSet(E)
      /\ MergeValid(n) => MergeKey(n) \in After(w, E, K)
  BY MoveKeeps, AllUnique
<1>2. PICK X : X = ToCome(E, w, m)
  OBVIOUS
<1>3. PICK Y : Y = ToCome(E, w, n)
  OBVIOUS
<1>4. Y \subseteq X \ {K} /\ K \in X
  <2>1. K \in X
    BY <1>1, <1>2, PriorOrder DEF ToCome
  <2>2. ASSUME NEW e \in Y PROVE e \in X \ {K}
    <3>1. PICK L \in E : L = MergeKey(n) /\ Prior(w, K, L) /\ ~ Prior(w, e, L) /\ e \in E
      BY <1>1, <1>3 DEF ToCome, After
    <3>2. ~ Prior(w, e, K) /\ e # K
      BY <1>1, <3>1, PriorOrder
    <3> QED BY <1>2, <3>1, <3>2 DEF ToCome
  <2> QED BY <2>1, <2>2
<1>5. IsFiniteSet(X) /\ IsFiniteSet(X \ {K})
  <2>1. X \subseteq E
    BY <1>2 DEF ToCome
  <2> QED BY <1>1, <2>1, FS_Subset
<1>6. Cardinality(Y) <= Cardinality(X \ {K}) /\ Cardinality(X \ {K}) = Cardinality(X) - 1
  BY <1>4, <1>5, FS_Subset, FS_RemoveElement
<1>7. Cardinality(Y) < Cardinality(X)
  BY <1>4, <1>5, <1>6, FS_CardinalityType, FS_Subset
<1> QED BY <1>2, <1>3, <1>7 DEF LeftFor

-----------------------------------------------------------------------------
(* The view                                                                *)

IsView(S) == DataOK(contents, last_sequence) /\ sequence_ \in Nat
             /\ S = ViewOf(contents, sequence_)

LEMMA ViewFacts ==
    ASSUME NEW S, IsView(S)
    PROVE  /\ S \subseteq AllOf(contents) /\ Unique(S) /\ IsFiniteSet(S)
           /\ DataOK(contents, last_sequence) /\ sequence_ \in Nat
           /\ \A e \in S : e.user \in UserKeys /\ e.user \in Nat /\ e.seq \in Nat
                           /\ e.seq <= sequence_
           /\ \A e \in AllOf(contents) : InSnapshot(e) <=> e \in S
<1>1. DataOK(contents, last_sequence) /\ Unique(AllOf(contents)) /\ IsFiniteSet(AllOf(contents))
  BY AllUnique DEF IsView
<1>2. S \subseteq AllOf(contents)
  BY DEF IsView, ViewOf
<1>3. Unique(S) /\ IsFiniteSet(S)
  BY <1>1, <1>2, FS_Subset DEF Unique
<1>4. \A e \in S : e.user \in UserKeys /\ e.user \in Nat /\ e.seq \in Nat /\ e.seq <= sequence_
  BY <1>3, DBIterAssumption DEF Unique, Entries, IsView, ViewOf
<1>5. \A e \in AllOf(contents) : InSnapshot(e) <=> e \in S
  BY DEF IsView, ViewOf, InSnapshot, Parses
<1> QED BY <1>1, <1>2, <1>3, <1>4, <1>5 DEF IsView

(***************************************************************************)
(* The order by user keys; the entry shown for a key is the first of them. *)
(***************************************************************************)
LEMMA UserOrder ==
    ASSUME NEW S, IsView(S)
    PROVE  /\ \A a, b \in S : Before(a, b) => a.user <= b.user
           /\ \A a, b \in S : a.user < b.user => Before(a, b)
           /\ \A a \in S : ~ Before(a, a)
           /\ \A a, b \in S : a = b \/ Before(a, b) \/ Before(b, a)
           /\ \A a, b \in S : Before(a, b) => ~ Before(b, a)
           /\ \A a, b, c \in S : Before(a, b) /\ Before(b, c) => Before(a, c)
<1>1. /\ \A e \in S : e.user \in Nat /\ e.seq \in Nat
      /\ \A a, b \in S : a.seq = b.seq => a = b
  BY ViewFacts DEF Unique
<1>2. \A a, b \in S : (Before(a, b) => a.user <= b.user) /\ (a.user < b.user => Before(a, b))
  BY <1>1 DEF Before
<1>3. /\ \A a \in S : ~ Before(a, a)
      /\ \A a, b \in S : a = b \/ Before(a, b) \/ Before(b, a)
      /\ \A a, b \in S : Before(a, b) => ~ Before(b, a)
  BY <1>1 DEF Before
<1>4. \A a, b, c \in S : Before(a, b) /\ Before(b, c) => Before(a, c)
  BY <1>1 DEF Before
<1> QED BY <1>2, <1>3, <1>4

LEMMA ShownIsFirst ==
    ASSUME NEW S, IsView(S)
    PROVE  /\ \A e \in ShownOf(S) : e \in S /\ e.type = "value"
           /\ \A e \in ShownOf(S), f \in S : f.user = e.user => ~ Before(f, e)
           /\ \A e \in S : e.type = "value" /\ (\A f \in S : f.user = e.user => ~ Before(f, e))
                              => e \in ShownOf(S)
           /\ \A d, e \in ShownOf(S) : d.user = e.user => d = e
<1>1. /\ \A e \in S : e.user \in Nat /\ e.seq \in Nat
      /\ \A a, b \in S : a.seq = b.seq => a = b
  BY ViewFacts DEF Unique
<1>2. \A e \in ShownOf(S) : e \in S /\ e.type = "value"
  BY DEF ShownOf
<1>3. \A e, f \in S : f.user = e.user => (~ Before(f, e) <=> f.seq <= e.seq)
  BY <1>1 DEF Before
<1>4. \A e \in ShownOf(S), f \in S : f.user = e.user => f.seq <= e.seq
  BY DEF ShownOf
<1>5. \A e \in S : e.type = "value" /\ (\A f \in S : f.user = e.user => f.seq <= e.seq)
                      => e \in ShownOf(S)
  BY DEF ShownOf
<1>6. \A d, e \in ShownOf(S) : d.user = e.user => d = e
  BY <1>1, <1>2, <1>4
<1> QED BY <1>2, <1>3, <1>4, <1>5, <1>6

-----------------------------------------------------------------------------
(* FindNextUserEntry                                                       *)

(***************************************************************************)
(* The entries A are still to come, among them all that are shown for keys *)
(* from lo on; an entry is skipped exactly when its key is below lo or was *)
(* passed already.                                                         *)
(***************************************************************************)
Passes(S, lo, A, e) == e.user < lo \/ \E d \in S \ A : d.user = e.user /\ Before(d, e)
Ahead(S, lo, A, skipping, skip) ==
    /\ A \subseteq S
    /\ \A e \in ShownOf(S) : e.user >= lo => e \in A
    /\ \A e \in A : e.user + 1 >= lo
    /\ \A e \in A : skipping /\ e.user <= skip => Passes(S, lo, A, e)
    /\ \A e \in A : Passes(S, lo, A, e) => skipping /\ e.user <= skip

(* K is what the user is to be shown from lo on. *)
Found(S, lo, K) == /\ K \in ShownOf(S) /\ K.user >= lo
                   /\ \A e \in ShownOf(S) : e.user >= lo => ~ Before(e, K)

LEMMA AheadMoves ==
    ASSUME NEW S, IsView(S), NEW lo \in Int, NEW A, NEW skipping \in BOOLEAN, NEW skip \in Nat,
           Ahead(S, lo, A, skipping, skip), NEW K \in AllOf(contents),
           A = {e \in S : ~ Before(e, K)}, NEW B, B = After(TRUE, S, K)
    PROVE  /\ K \notin S => Ahead(S, lo, B, skipping, skip)
           /\ K \in S /\ K.type = "deletion" => Ahead(S, lo, B, TRUE, K.user)
           /\ K \in S /\ K.type = "value" /\ skipping /\ K.user <= skip
                 => Ahead(S, lo, B, skipping, skip)
           /\ K \in S /\ K.type = "value" /\ ~ (skipping /\ K.user <= skip) => Found(S, lo, K)
<1>1. A = IF K \in S THEN B \cup {K} ELSE B
  <2>1. Unique(AllOf(contents)) /\ S \subseteq AllOf(contents)
    BY AllUnique, ViewFacts
  <2>2. PICK w \in BOOLEAN : w
    OBVIOUS
  <2>3. \A e \in S : ~ Before(e, K) <=> e = K \/ Before(K, e)
    BY <2>1, <2>2, PriorOrder DEF Prior
  <2>4. \A e \in S : e = K \/ e \notin B \/ e # K
    OBVIOUS
  <2>5. B = {e \in S : Before(K, e)}
    BY DEF After, Prior
  <2> QED BY <2>3, <2>5
<1>2. \A e \in B : e \in S /\ e \in A /\ Before(K, e)
  BY <1>1 DEF After, Prior
<1>3. K \in S => K \in A /\ K \notin B /\ K.user \in Nat
  BY <1>1, <1>2, UserOrder, ViewFacts
<1>4. CASE K \notin S
  BY <1>1, <1>4
<1>5. CASE K \in S
  <2>1. \A e \in B : K.user <= e.user /\ e.user \in Nat
    BY <1>2, <1>5, UserOrder, ViewFacts
  <2>2. \A e \in B : Passes(S, lo, B, e) => Passes(S, lo, A, e) \/ e.user = K.user
    BY <1>1, <1>5 DEF Passes
  <2>3. \A e \in B : Passes(S, lo, A, e) \/ e.user = K.user => Passes(S, lo, B, e)
    BY <1>1, <1>2, <1>3, <1>5 DEF Passes
  <2>4. ASSUME K.type = "deletion" PROVE Ahead(S, lo, B, TRUE, K.user)
    <3>1. \A e \in ShownOf(S) : e.user >= lo => e \in B
      BY <1>1, <1>5, <2>4, ShownIsFirst DEF Ahead
    <3>2. \A e \in B : e.user + 1 >= lo
      BY <1>2 DEF Ahead
    <3>3. ASSUME NEW e \in B, e.user <= K.user PROVE Passes(S, lo, B, e)
      <4>1. e.user = K.user
        <5>1. K.user \in Nat
          BY <1>3, <1>5
        <5>2. K.user <= e.user /\ e.user \in Nat
          BY <2>1
        <5> QED BY <3>3, <5>1, <5>2
      <4> QED BY <2>3, <4>1
    <3>4. ASSUME NEW e \in B, Passes(S, lo, B, e) PROVE e.user <= K.user
      <4>1. CASE e.user < lo
        <5>1. K.user + 1 >= lo
          BY <1>3, <1>5 DEF Ahead
        <5>2. e.user \in Nat /\ K.user \in Nat
          BY <1>3, <1>5, <2>1
        <5> QED BY <4>1, <5>1, <5>2
      <4>2. CASE ~ (e.user < lo)
        <5>1. PICK d \in S \ B : d.user = e.user /\ Before(d, e)
          BY <3>4, <4>2 DEF Passes
        <5>2. d = K \/ Before(d, K)
          BY <5>1, <1>5, UserOrder DEF After, Prior
        <5>3. d.user <= K.user
          BY <5>1, <5>2, <1>3, <1>5, UserOrder
        <5> QED BY <5>1, <5>3
      <4> QED BY <4>1, <4>2
    <3> QED BY <1>2, <3>1, <3>2, <3>3, <3>4 DEF Ahead
  <2>5. ASSUME K.type = "value", skipping, K.user <= skip
        PROVE  Ahead(S, lo, B, skipping, skip)
    <3>1. K \notin ShownOf(S) \/ K.user < lo
      <4>1. Passes(S, lo, A, K)
        BY <1>3, <1>5, <2>5 DEF Ahead
      <4> QED BY <1>5, <4>1, ShownIsFirst DEF Passes
    <3>2. ASSUME NEW e \in ShownOf(S), e.user >= lo PROVE e \in B
      <4>1. e \in A
        BY <3>2 DEF Ahead
      <4>2. e # K
        BY <1>3, <1>5, <3>1, <3>2
      <4>3. A = B \cup {K}
        BY <1>1, <1>5
      <4> QED BY <4>1, <4>2, <4>3
    <3>3. \A e \in B : e.user + 1 >= lo
      BY <1>2 DEF Ahead
    <3>4. \A e \in B : skipping /\ e.user <= skip => Passes(S, lo, B, e)
      BY <1>2, <2>3 DEF Ahead
    <3>5. ASSUME NEW e \in B, Passes(S, lo, B, e) PROVE skipping /\ e.user <= skip
      BY <1>2, <2>2, <2>5, <3>5 DEF Ahead
    <3> QED BY <1>2, <3>2, <3>3, <3>4, <3>5 DEF Ahead
  <2>6. ASSUME K.type = "value", ~ (skipping /\ K.user <= skip)
        PROVE  Found(S, lo, K)
    <3>1. ~ Passes(S, lo, A, K)
      BY <1>3, <1>5, <2>6 DEF Ahead
    <3>2. K.user >= lo /\ \A d \in S : d.user = K.user => ~ Before(d, K)
      BY <1>1, <1>3, <1>5, <3>1, UserOrder DEF Passes
    <3>3. K \in ShownOf(S)
      BY <1>5, <2>6, <3>2, ShownIsFirst
    <3>4. \A e \in ShownOf(S) : e.user >= lo => ~ Before(e, K)
      BY DEF Ahead
    <3> QED BY <3>2, <3>3, <3>4 DEF Found
  <2> QED BY <1>5, <2>4, <2>5, <2>6
<1> QED BY <1>4, <1>5

(***************************************************************************)
(* The state of the loop: found, or ahead of everything that may be shown. *)
(***************************************************************************)
NextState(r) ==
    /\ r = [m |-> r.m, found |-> r.found, skipping |-> r.skipping, skip |-> r.skip,
            ok |-> r.ok]
    /\ r.found \in BOOLEAN /\ r.skipping \in BOOLEAN /\ r.skip \in Nat
NextOK(S, lo, r) ==
    /\ NextState(r) /\ MergerOK(contents, S, TRUE, r.m)
    /\ r.found => MergeValid(r.m) /\ Found(S, lo, MergeKey(r.m))
    /\ ~ r.found /\ MergeValid(r.m) =>
          Ahead(S, lo, After(TRUE, S, MergeKey(r.m)), r.skipping, r.skip)
    /\ ~ r.found /\ ~ MergeValid(r.m) => \A e \in ShownOf(S) : ~ (e.user >= lo)

LEMMA LookKeeps ==
    ASSUME NEW S, IsView(S), NEW lo \in Int, NEW r, NextState(r), r.found = FALSE,
           MergerOK(contents, S, TRUE, r.m), MergeValid(r.m),
           Ahead(S, lo, ToCome(S, TRUE, r.m), r.skipping, r.skip),
           NEW q, q = LookAtNext(r)
    PROVE  NextOK(S, lo, q) /\ q.m = r.m
<1>1. PICK K : K = MergeKey(r.m)
  OBVIOUS
<1>2. K \in AllOf(contents) /\ (InSnapshot(K) <=> K \in S)
      /\ K.user \in Nat
  <2>1. K \in AllOf(contents)
    BY <1>1, MergerIsAt, ViewFacts
  <2>2. InSnapshot(K) <=> K \in S
    BY <2>1, ViewFacts
  <2>3. Unique(AllOf(contents))
    BY ViewFacts, AllUnique
  <2>4. K \in Entries
    BY <2>1, <2>3 DEF Unique
  <2>5. K.user \in Nat
    BY <2>4, DBIterAssumption DEF Entries
  <2> QED BY <2>1, <2>2, <2>5
<1>3. PICK A : A = ToCome(S, TRUE, r.m)
  OBVIOUS
<1>4. A = {e \in S : ~ Before(e, K)}
  BY <1>1, <1>3 DEF ToCome, Prior
<1>5. PICK B : B = After(TRUE, S, K)
  OBVIOUS
<1>6. r.skipping \in BOOLEAN /\ r.skip \in Nat /\ Ahead(S, lo, A, r.skipping, r.skip)
  BY <1>3 DEF NextState
<1>7. /\ K \notin S => Ahead(S, lo, B, r.skipping, r.skip)
      /\ K \in S /\ K.type = "deletion" => Ahead(S, lo, B, TRUE, K.user)
      /\ K \in S /\ K.type = "value" /\ r.skipping /\ K.user <= r.skip
            => Ahead(S, lo, B, r.skipping, r.skip)
      /\ K \in S /\ K.type = "value" /\ ~ (r.skipping /\ K.user <= r.skip) => Found(S, lo, K)
  BY <1>2, <1>4, <1>5, <1>6, AheadMoves
<1>8. PICK hides \in BOOLEAN : hides <=> (K \in S /\ K.type = "deletion")
  OBVIOUS
<1>9. PICK found \in BOOLEAN :
         found <=> (K \in S /\ K.type = "value" /\ ~ (r.skipping /\ K.user <= r.skip))
  OBVIOUS
<1>10. /\ NextState(q) /\ q.m = r.m
       /\ q.found <=> found
       /\ q.skipping <=> (r.skipping \/ hides)
       /\ q.skip = IF hides THEN K.user ELSE r.skip
  <2>1. q = [r EXCEPT !.found = InSnapshot(K) /\ K.type = "value"
                                /\ ~ (r.skipping /\ K.user <= r.skip),
                      !.skipping = @ \/ (InSnapshot(K) /\ K.type = "deletion"),
                      !.skip = IF InSnapshot(K) /\ K.type = "deletion" THEN K.user ELSE @,
                      !.ok = @ /\ Parses(K)]
    BY <1>1 DEF LookAtNext
  <2>2. q = [m |-> r.m,
             found |-> InSnapshot(K) /\ K.type = "value"
                                /\ ~ (r.skipping /\ K.user <= r.skip),
             skipping |-> r.skipping \/ (InSnapshot(K) /\ K.type = "deletion"),
             skip |-> IF InSnapshot(K) /\ K.type = "deletion" THEN K.user ELSE r.skip,
             ok |-> r.ok /\ Parses(K)]
    BY <2>1 DEF NextState
  <2> QED BY <1>2, <1>8, <1>9, <2>2 DEF NextState
<1>11. K.type \in {"value", "deletion"} \/ K \notin S
  BY DEF IsView, ViewOf
<1>12. ~ q.found => Ahead(S, lo, B, q.skipping, q.skip)
  <2>1. CASE K \notin S
    <3>1. (q.skipping <=> r.skipping) /\ q.skip = r.skip
      BY <1>8, <1>10, <2>1
    <3> QED BY <1>7, <2>1, <3>1 DEF Ahead
  <2>2. CASE K \in S /\ K.type = "deletion"
    <3>1. q.skipping /\ q.skip = K.user
      BY <1>8, <1>10, <2>2
    <3> QED BY <1>7, <2>2, <3>1 DEF Ahead
  <2>3. CASE K \in S /\ K.type = "value" /\ r.skipping /\ K.user <= r.skip
    <3>1. q.skipping /\ q.skip = r.skip
      BY <1>8, <1>10, <2>3
    <3> QED BY <1>7, <2>3, <3>1 DEF Ahead
  <2>4. CASE K \in S /\ K.type = "value" /\ ~ (r.skipping /\ K.user <= r.skip)
    BY <1>9, <1>10, <2>4
  <2> QED BY <1>11, <2>1, <2>2, <2>3, <2>4
<1>13. q.found => Found(S, lo, K)
  BY <1>7, <1>9, <1>10
<1> QED BY <1>1, <1>5, <1>10, <1>12, <1>13 DEF NextOK

NextDone(r) == r.found \/ ~ MergeValid(r.m)

LEMMA NextRoundKeeps ==
    ASSUME NEW S, IsView(S), NEW lo \in Int, NEW r, NextOK(S, lo, r), NEW q, q = NextRound(r)
    PROVE  /\ NextOK(S, lo, q)
           /\ NextDone(r) => q = r
           /\ ~ NextDone(r) => NextDone(q) \/ LeftFor(TRUE, q.m) < LeftFor(TRUE, r.m)
<1>1. CASE NextDone(r)
  BY <1>1 DEF NextDone, NextRound
<1>2. CASE ~ NextDone(r)
  <2>1. PICK n : n = MergeNext(r.m)
    OBVIOUS
  <2>2. r.found = FALSE /\ MergeValid(r.m) /\ MergerOK(contents, S, TRUE, r.m)
    BY <1>2 DEF NextDone, NextOK, NextState
  <2>3. PICK K : K = MergeKey(r.m)
    OBVIOUS
  <2>4. Ahead(S, lo, After(TRUE, S, K), r.skipping, r.skip)
    BY <2>2, <2>3 DEF NextOK
  <2>5. n = MoveOf(TRUE, r.m)
    BY <2>1 DEF MoveOf
  <2>6. S \subseteq AllOf(contents) /\ DataOK(contents, last_sequence)
    BY ViewFacts
  <2>7. MergerOK(contents, S, TRUE, n) /\ ToCome(S, TRUE, n) = After(TRUE, S, K)
    <3>1. PICK w \in BOOLEAN : w = TRUE
      OBVIOUS
    <3>2. n = MoveOf(w, r.m) /\ MergerOK(contents, S, w, r.m)
      BY <2>2, <2>5, <3>1
    <3>3. MergerOK(contents, S, w, n)
      BY <2>2, <2>3, <2>6, <3>2, MoveKeeps
    <3>4. ToCome(S, w, n) = After(w, S, K)
      BY <2>2, <2>3, <2>6, <3>2, MoveKeeps
    <3> QED BY <3>1, <3>3, <3>4
  <2>8. LeftFor(TRUE, n) < LeftFor(TRUE, r.m)
    BY <2>2, <2>5, <2>6, MoveLeavesFewer
  <2>9. PICK t : t = [r EXCEPT !.m = n]
    OBVIOUS
  <2>10. NextState(t) /\ t.m = n /\ t.found = FALSE /\ t.skipping = r.skipping /\ t.skip = r.skip
    BY <2>2, <2>9 DEF NextState, NextOK
  <2>11. CASE ~ MergeValid(n)
    <3>1. q = t
      BY <1>2, <2>1, <2>9, <2>11 DEF NextRound, NextDone
    <3>2. After(TRUE, S, K) = {}
      BY <2>7, <2>11 DEF ToCome
    <3>3. \A e \in ShownOf(S) : ~ (e.user >= lo)
      BY <2>4, <3>2 DEF Ahead
    <3>4. NextOK(S, lo, q)
      BY <2>7, <2>10, <2>11, <3>1, <3>3 DEF NextOK
    <3>5. NextDone(q)
      BY <2>10, <2>11, <3>1 DEF NextDone
    <3> QED BY <1>2, <3>4, <3>5
  <2>12. CASE MergeValid(n)
    <3>1. q = LookAtNext(t)
      BY <1>2, <2>1, <2>9, <2>12 DEF NextRound, NextDone
    <3>2. Ahead(S, lo, ToCome(S, TRUE, t.m), t.skipping, t.skip)
      BY <2>4, <2>7, <2>10
    <3>3. NextOK(S, lo, q) /\ q.m = n
      BY <2>7, <2>10, <2>12, <3>1, <3>2, LookKeeps
    <3> QED BY <1>2, <2>8, <3>3
  <2> QED BY <2>11, <2>12
<1> QED BY <1>1, <1>2

(***************************************************************************)
(* The loops, by which one it is; each is a run of its rounds.             *)
(***************************************************************************)
RoundOf(which, key, r) == IF which = "next" THEN NextRound(r)
                          ELSE IF which = "prev" THEN PrevRound(r)
                          ELSE ScanRound(r, key)

LoopStep(which, key, a, N, f) ==
    [n \in 0 .. N |-> IF n = 0 THEN a ELSE RoundOf(which, key, f[n - 1])]

LEMMA IterLoopRuns ==
    ASSUME NEW which, NEW key, NEW a, NEW N \in Nat
    PROVE  \E f : f = LoopStep(which, key, a, N, f)
<1> DEFINE Run(f, k) ==
              /\ DOMAIN f = 0 .. k /\ f = [n \in DOMAIN f |-> f[n]]
              /\ \A n \in 0 .. k : f[n] = IF n = 0 THEN a ELSE RoundOf(which, key, f[n - 1])
           T == {k \in 0 .. N : \E f : Run(f, k)}
<1>1. 0 \in T
  <2>1. PICK f : f = [n \in 0 .. 0 |-> a]
    OBVIOUS
  <2>2. Run(f, 0)
    BY <2>1
  <2>3. 0 \in 0 .. N
    OBVIOUS
  <2> HIDE DEF Run
  <2> QED BY <2>2, <2>3
<1>2. ASSUME NEW k \in 1 .. N, k - 1 \in T PROVE k \in T
  <2>1. PICK f : Run(f, k - 1)
    BY <1>2
  <2>2. PICK g : g = [n \in 0 .. k |-> IF n = k THEN RoundOf(which, key, f[k - 1]) ELSE f[n]]
    OBVIOUS
  <2>3. \A n \in 0 .. k - 1 : n \in 0 .. k /\ n # k /\ g[n] = f[n]
    BY <2>2
  <2>4. ASSUME NEW n \in 0 .. k
        PROVE  g[n] = IF n = 0 THEN a ELSE RoundOf(which, key, g[n - 1])
    <3>1. CASE n = k
      <4>1. g[n] = RoundOf(which, key, f[k - 1]) /\ g[k - 1] = f[k - 1] /\ n # 0
        BY <2>2, <2>3, <3>1
      <4> QED BY <3>1, <4>1
    <3>2. CASE n # k
      <4>1. n \in 0 .. k - 1
        BY <3>2
      <4>2. f[n] = IF n = 0 THEN a ELSE RoundOf(which, key, f[n - 1])
        BY <2>1, <4>1
      <4>3. n # 0 => n - 1 \in 0 .. k - 1
        BY <4>1
      <4> QED BY <2>3, <4>1, <4>2, <4>3
    <3> QED BY <3>1, <3>2
  <2>5. DOMAIN g = 0 .. k /\ g = [n \in DOMAIN g |-> g[n]]
    BY <2>2
  <2>6. Run(g, k)
    BY <2>4, <2>5
  <2>7. k \in 0 .. N
    OBVIOUS
  <2> HIDE DEF Run
  <2> QED BY <2>6, <2>7
<1>3. N \in T
  <2>1. \A k \in 0 .. N : k \in T
    <3> HIDE DEF T
    <3> QED BY <1>1, <1>2, Upwards
  <2> QED BY <2>1
<1>4. PICK f : Run(f, N)
  BY <1>3
<1>5. f = LoopStep(which, key, a, N, f)
  BY <1>4 DEF LoopStep
<1> QED BY <1>5

(* A loop's result: the last of N + 1 states of which each follows a round. *)
LoopOf(which, key, a, N) ==
    (CHOOSE f : f = [n \in 0 .. N |-> IF n = 0 THEN a ELSE RoundOf(which, key, f[n - 1])])[N]
LoopEnds(which, key, a, N, z) ==
    \E f : /\ f[0] = a /\ f[N] = z
           /\ \A i \in 1 .. N : f[i] = RoundOf(which, key, f[i - 1])

LEMMA LoopResult ==
    ASSUME NEW which, NEW key, NEW a, NEW N \in Nat, NEW z, z = LoopOf(which, key, a, N)
    PROVE  LoopEnds(which, key, a, N, z)
<1>1. PICK loop : loop = CHOOSE f : f = LoopStep(which, key, a, N, f)
  OBVIOUS
<1>2. z = loop[N]
  BY <1>1 DEF LoopOf, LoopStep
<1>3. loop = LoopStep(which, key, a, N, loop)
  BY <1>1, IterLoopRuns, Zenon
<1>4. loop[0] = a /\ \A i \in 1 .. N : loop[i] = RoundOf(which, key, loop[i - 1])
  <2>1. \A i \in 0 .. N :
           loop[i] = LoopStep(which, key, a, N, loop)[i]
    BY <1>3
  <2> QED BY <2>1 DEF LoopStep
<1> QED BY <1>2, <1>4 DEF LoopEnds

(* A loop whose rounds count down is done in time. *)
LEMMA LoopStops ==
    ASSUME NEW N \in Nat, NEW left \in [0 .. N -> Nat], left[0] <= N,
           \A i \in 1 .. N : left[i] = 0 \/ left[i] < left[i - 1]
    PROVE  left[N] = 0
<1> DEFINE T == {i \in 0 .. N : left[i] <= N - i}
<1>1. 0 \in T
  OBVIOUS
<1>2. ASSUME NEW i \in 1 .. N, i - 1 \in T PROVE i \in T
  <2>1. i - 1 \in 0 .. N /\ left[i] \in Nat /\ left[i - 1] \in Nat
    OBVIOUS
  <2>2. left[i - 1] <= N - (i - 1)
    BY <1>2
  <2>3. left[i] <= N - i
    BY <2>1, <2>2
  <2> QED BY <2>3
<1>3. \A i \in 0 .. N : i \in T
  <2> HIDE DEF T
  <2> QED BY <1>1, <1>2, Upwards
<1>4. N \in T /\ left[N] \in Nat
  BY <1>3
<1> QED BY <1>4

(* The rounds the loop of FindNextUserEntry may still take. *)
NextLeft(r) == IF NextDone(r) THEN 0 ELSE LeftFor(TRUE, r.m) + 1

LEMMA NextLeftIs ==
    ASSUME DataOK(contents, last_sequence), NEW N, N = Rounds
    PROVE  /\ N \in Nat
           /\ \A r : NextLeft(r) \in Nat /\ NextLeft(r) <= N /\ (NextLeft(r) = 0 <=> NextDone(r))
           /\ \A q, r : ~ NextDone(r) /\ LeftFor(TRUE, q.m) < LeftFor(TRUE, r.m)
                           => NextLeft(q) = 0 \/ NextLeft(q) < NextLeft(r)
<1>1. PICK w \in BOOLEAN : w = TRUE
  OBVIOUS
<1>2. \A r : LeftFor(w, r.m) \in Nat /\ LeftFor(w, r.m) < N
  BY LeftIsCount
<1>3. N \in Nat
  BY LeftIsCount
<1>4. \A r : NextLeft(r) = IF NextDone(r) THEN 0 ELSE LeftFor(w, r.m) + 1
  BY <1>1 DEF NextLeft
<1>5. \A r : NextLeft(r) \in Nat /\ NextLeft(r) <= N /\ (NextLeft(r) = 0 <=> NextDone(r))
  BY <1>2, <1>3, <1>4
<1>6. \A q, r : ~ NextDone(r) /\ LeftFor(w, q.m) < LeftFor(w, r.m)
                   => NextLeft(q) = 0 \/ NextLeft(q) < NextLeft(r)
  BY <1>2, <1>3, <1>4
<1> QED BY <1>1, <1>3, <1>5, <1>6

LEMMA FindNextFinds ==
    ASSUME NEW S, IsView(S), NEW lo \in Int, NEW m, NEW skipping \in BOOLEAN, NEW skip \in Nat,
           MergerOK(contents, S, TRUE, m), MergeValid(m),
           Ahead(S, lo, ToCome(S, TRUE, m), skipping, skip), NEW ok,
           NEW r, r = FindNextUserEntry(m, skipping, skip, ok)
    PROVE  /\ MergerOK(contents, S, TRUE, r.m) /\ r.valid \in BOOLEAN
           /\ r.valid => MergeValid(r.m) /\ Found(S, lo, MergeKey(r.m))
           /\ ~ r.valid => \A e \in ShownOf(S) : ~ (e.user >= lo)
<1>1. PICK t : t = [m |-> m, found |-> FALSE, skipping |-> skipping, skip |-> skip, ok |-> ok]
  OBVIOUS
<1>2. PICK a : a = LookAtNext(t)
  OBVIOUS
<1>3. NextState(t) /\ t.found = FALSE /\ t.m = m /\ t.skipping = skipping /\ t.skip = skip
  BY <1>1 DEF NextState
<1>4. NextOK(S, lo, a)
  BY <1>2, <1>3, LookKeeps
<1>5. PICK z : z = LoopOf("next", 0, a, Rounds)
  OBVIOUS
<1>6. r = [m |-> z.m, valid |-> z.found, ok |-> z.ok]
  BY <1>1, <1>2, <1>5 DEF FindNextUserEntry, LoopOf, RoundOf
<1>7. DataOK(contents, last_sequence)
  BY ViewFacts
<1>8. PICK N \in Nat : N = Rounds
  BY <1>7, LeftIsCount
<1>9. PICK f : /\ f[0] = a /\ f[N] = z
               /\ \A i \in 1 .. N : f[i] = NextRound(f[i - 1])
  <2>1. LoopEnds("next", 0, a, N, z)
    BY <1>5, <1>8, LoopResult
  <2> QED BY <2>1 DEF LoopEnds, RoundOf
<1> DEFINE T == {i \in 0 .. N : NextOK(S, lo, f[i])}
<1>10. \A i \in 0 .. N : NextOK(S, lo, f[i])
  <2>1. 0 \in T
    BY <1>4, <1>9
  <2>2. ASSUME NEW i \in 1 .. N, i - 1 \in T PROVE i \in T
    <3>1. PICK x, y : x = f[i - 1] /\ y = NextRound(x)
      OBVIOUS
    <3>2. NextOK(S, lo, x)
      BY <2>2, <3>1
    <3>3. NextOK(S, lo, y)
      BY <3>1, <3>2, NextRoundKeeps
    <3> QED BY <1>9, <3>1, <3>3
  <2>3. \A i \in 0 .. N : i \in T
    <3> HIDE DEF T
    <3> QED BY <2>1, <2>2, Upwards
  <2> QED BY <2>3
<1>11. /\ \A x : NextLeft(x) \in Nat /\ NextLeft(x) <= N /\ (NextLeft(x) = 0 <=> NextDone(x))
       /\ \A x, y : ~ NextDone(x) /\ LeftFor(TRUE, y.m) < LeftFor(TRUE, x.m)
                       => NextLeft(y) = 0 \/ NextLeft(y) < NextLeft(x)
  BY <1>7, <1>8, NextLeftIs
<1>12. ASSUME NEW i \in 1 .. N
       PROVE  NextLeft(f[i]) = 0 \/ NextLeft(f[i]) < NextLeft(f[i - 1])
  <2>1. PICK x, y : x = f[i - 1] /\ y = f[i]
    OBVIOUS
  <2>2. y = NextRound(x) /\ NextOK(S, lo, x)
    BY <1>9, <1>10, <2>1
  <2>3. CASE NextDone(x)
    <3>1. y = x
      BY <2>2, <2>3, NextRoundKeeps
    <3> QED BY <1>11, <2>1, <2>3, <3>1
  <2>4. CASE ~ NextDone(x)
    <3>1. NextDone(y) \/ LeftFor(TRUE, y.m) < LeftFor(TRUE, x.m)
      BY <2>2, <2>4, NextRoundKeeps
    <3> QED BY <1>11, <2>1, <2>4, <3>1
  <2> QED BY <2>3, <2>4
<1>13. PICK left : left = [i \in 0 .. N |-> NextLeft(f[i])]
  OBVIOUS
<1>14. left[N] = 0 /\ left[N] = NextLeft(f[N])
  <2>1. left \in [0 .. N -> Nat] /\ left[0] <= N
    BY <1>11, <1>13
  <2>2. \A i \in 1 .. N : left[i] = 0 \/ left[i] < left[i - 1]
    BY <1>12, <1>13
  <2>3. left[N] = 0
    BY <2>1, <2>2, LoopStops
  <2> QED BY <1>13, <2>3
<1>15. NextOK(S, lo, z) /\ NextDone(z)
  BY <1>9, <1>10, <1>11, <1>14
<1>16. r.m = z.m /\ r.valid = z.found
  BY <1>6
<1>17. z.found \in BOOLEAN /\ (z.found \/ ~ MergeValid(z.m))
  BY <1>15 DEF NextOK, NextDone, NextState
<1>18. z.found => MergeValid(z.m) /\ Found(S, lo, MergeKey(z.m))
  BY <1>15 DEF NextOK
<1>19. ~ z.found => \A e \in ShownOf(S) : ~ (e.user >= lo)
  BY <1>15, <1>17 DEF NextOK
<1>20. MergerOK(contents, S, TRUE, z.m)
  BY <1>15 DEF NextOK
<1> QED BY <1>16, <1>17, <1>18, <1>19, <1>20

-----------------------------------------------------------------------------
(* FindPrevUserEntry                                                       *)

(***************************************************************************)
(* The entries B are still to come, going backward over the entries L of   *)
(* the keys below some key; the value kept is the last one passed, unless  *)
(* that was a deletion, and any entry passed that is shown.                *)
(***************************************************************************)
Below(S, L) == L \subseteq S /\ \A e \in L, f \in S : f.user <= e.user => f \in L
Behind(S, L, B, kept, key, value) ==
    /\ B \subseteq L
    /\ \A e \in ShownOf(S) : e \in L /\ e \notin B => kept /\ value = e
    /\ kept => /\ value \in L \ B /\ value.type = "value" /\ value.user = key
               /\ \A f \in L \ B : ~ Before(f, value)

LEMMA BehindMoves ==
    ASSUME NEW S, IsView(S), NEW L, Below(S, L), NEW A, NEW kept \in BOOLEAN, NEW key, NEW value,
           Behind(S, L, A, kept, key, value), NEW K \in AllOf(contents),
           A = {e \in S : ~ Before(K, e)}, NEW B, B = {e \in S : Before(e, K)},
           ~ (K \in S /\ kept /\ K.user < key)
    PROVE  /\ K \notin S => Behind(S, L, B, kept, key, value)
           /\ K \in S /\ K.type = "value" => Behind(S, L, B, TRUE, K.user, K)
           /\ K \in S /\ K.type = "deletion" => Behind(S, L, B, FALSE, Empty, NotValid)
<1>1. A = IF K \in S THEN B \cup {K} ELSE B
  <2>1. Unique(AllOf(contents)) /\ S \subseteq AllOf(contents)
    BY AllUnique, ViewFacts
  <2>2. PICK w \in BOOLEAN : w
    OBVIOUS
  <2>3. \A e \in S : ~ Before(K, e) <=> e = K \/ Before(e, K)
    BY <2>1, <2>2, PriorOrder DEF Prior
  <2> QED BY <2>3
<1>2. CASE K \notin S
  BY <1>1, <1>2
<1>3. CASE K \in S
  <2>1. K \in A /\ K \in L /\ K \notin B /\ A = B \cup {K} /\ B \subseteq L
    BY <1>1, <1>3, UserOrder DEF Behind
  <2>2. ASSUME NEW e \in L \ A PROVE Before(K, e) /\ ~ Before(e, K) /\ e \in S
    BY <1>3, UserOrder DEF Below
  <2>3. \A e \in ShownOf(S) : e \in L => e \in A
    <3> SUFFICES ASSUME NEW e \in ShownOf(S), e \in L, e \notin A PROVE FALSE
      OBVIOUS
    <3>1. Before(K, e) /\ e \in S
      BY <2>2
    <3>2. kept /\ value = e /\ value.user = key
      BY DEF Behind
    <3>3. K.user <= e.user /\ K.user \in Nat /\ e.user \in Nat
      BY <1>3, <3>1, UserOrder, ViewFacts
    <3>4. K.user = e.user
      BY <1>3, <3>2, <3>3
    <3> QED BY <1>3, <3>1, <3>4, ShownIsFirst
  <2>4. \A e \in ShownOf(S) : e \in L /\ e \notin B => e = K
    BY <2>1, <2>3
  <2>5. K.type = "value" => Behind(S, L, B, TRUE, K.user, K)
    <3>1. \A f \in L \ B : ~ Before(f, K)
      BY <1>3, <2>1, <2>2, UserOrder
    <3> QED BY <2>1, <2>4, <3>1 DEF Behind
  <2>6. K.type = "deletion" => Behind(S, L, B, FALSE, Empty, NotValid)
    <3>1. K.type = "deletion" => K \notin ShownOf(S)
      BY ShownIsFirst
    <3> QED BY <2>1, <2>4, <3>1 DEF Behind
  <2> QED BY <1>3, <2>5, <2>6
<1> QED BY <1>2, <1>3

(* v is what the user is to be shown last of L. *)
FoundLast(S, L, v) == /\ v \in ShownOf(S) /\ v \in L
                      /\ \A e \in ShownOf(S) : e \in L => e.user <= v.user

LEMMA BehindEnds ==
    ASSUME NEW S, IsView(S), NEW L, Below(S, L), NEW B, NEW kept \in BOOLEAN, NEW key, NEW value,
           Behind(S, L, B, kept, key, value), \A e \in B : kept /\ e.user < key
    PROVE  /\ kept => /\ FoundLast(S, L, value) /\ key = value.user
                      /\ \A e : e \in B <=> e \in S /\ e.user < key
           /\ ~ kept => \A e \in ShownOf(S) : e \notin L
<1>1. ASSUME kept
      PROVE  /\ FoundLast(S, L, value) /\ key = value.user
             /\ \A e : e \in B <=> e \in S /\ e.user < key
  <2>1. /\ value \in L /\ value \in S /\ value \notin B /\ value.type = "value" /\ key = value.user
        /\ \A f \in L \ B : ~ Before(f, value)
    BY <1>1 DEF Behind, Below
  <2>2. \A f \in S : f.user \in Nat
    BY ViewFacts
  <2>3. \A f \in S : f.user = value.user => ~ Before(f, value)
    <3> SUFFICES ASSUME NEW f \in S, f.user = value.user PROVE ~ Before(f, value)
      OBVIOUS
    <3>1. f \in L
      BY <2>1, <2>2 DEF Below
    <3>2. f \notin B
      BY <2>1, <2>2
    <3> QED BY <2>1, <3>1, <3>2
  <2>4. value \in ShownOf(S)
    BY <2>1, <2>3, ShownIsFirst
  <2>5. \A e \in ShownOf(S) : e \in L => e.user <= value.user
    <3> SUFFICES ASSUME NEW e \in ShownOf(S), e \in L PROVE e.user <= value.user
      OBVIOUS
    <3>1. e \in S /\ e.user \in Nat /\ value.user \in Nat
      BY <2>1, <2>2 DEF Below
    <3>2. CASE e \in B
      BY <2>1, <3>1, <3>2
    <3>3. CASE e \notin B
      BY <3>1, <3>3 DEF Behind
    <3> QED BY <3>2, <3>3
  <2>6. ASSUME NEW e \in S, e.user < key PROVE e \in B
    <3>1. Before(e, value) /\ e.user <= value.user
      BY <2>1, <2>2, <2>6, UserOrder
    <3>2. e \in L
      BY <2>1, <3>1 DEF Below
    <3> QED BY <2>1, <3>1, <3>2
  <2>7. \A e \in B : e \in S
    BY DEF Behind, Below
  <2> QED BY <2>1, <2>4, <2>5, <2>6, <2>7 DEF FoundLast
<1>2. ASSUME ~ kept PROVE \A e \in ShownOf(S) : e \notin L
  BY <1>2 DEF Behind
<1> QED BY <1>1, <1>2

(***************************************************************************)
(* The state of the loop.                                                  *)
(***************************************************************************)
PrevState(r) ==
    /\ r = [m |-> r.m, stop |-> r.stop, kept |-> r.kept, key |-> r.key, value |-> r.value,
            ok |-> r.ok]
    /\ r.stop \in BOOLEAN /\ r.kept \in BOOLEAN
PrevOK(S, L, r) ==
    /\ PrevState(r) /\ MergerOK(contents, S, FALSE, r.m)
    /\ Behind(S, L, ToCome(S, FALSE, r.m), r.kept, r.key, r.value)
    /\ r.stop => /\ r.kept /\ MergeValid(r.m)
                 /\ MergeKey(r.m) \in S /\ MergeKey(r.m).user < r.key
PrevDone(r) == r.stop \/ ~ MergeValid(r.m)

LEMMA PrevRoundKeeps ==
    ASSUME NEW S, IsView(S), NEW L, Below(S, L), NEW r, PrevOK(S, L, r), NEW q, q = PrevRound(r)
    PROVE  /\ PrevOK(S, L, q)
           /\ PrevDone(r) => q = r
           /\ ~ PrevDone(r) => PrevDone(q) \/ LeftFor(FALSE, q.m) < LeftFor(FALSE, r.m)
<1>1. CASE PrevDone(r)
  BY <1>1 DEF PrevDone, PrevRound
<1>2. CASE ~ PrevDone(r)
  <2>1. PICK K : K = MergeKey(r.m)
    OBVIOUS
  <2>2. /\ r.stop = FALSE /\ MergeValid(r.m) /\ MergerOK(contents, S, FALSE, r.m)
        /\ r.kept \in BOOLEAN /\ PrevState(r)
    BY <1>2 DEF PrevDone, PrevOK, PrevState
  <2>3. S \subseteq AllOf(contents) /\ DataOK(contents, last_sequence)
    BY ViewFacts
  <2>4. K \in AllOf(contents) /\ (InSnapshot(K) <=> K \in S)
    <3>1. K \in AllOf(contents)
      BY <2>1, <2>2, <2>3, MergerIsAt
    <3> QED BY <3>1, ViewFacts
  <2>5. K \in S => K.type = "value" \/ K.type = "deletion"
    BY DEF IsView, ViewOf
  <2>6. CASE K \in S /\ r.kept /\ K.user < r.key
    <3>1. q = [r EXCEPT !.stop = TRUE]
      BY <1>2, <2>1, <2>4, <2>6 DEF PrevRound, PrevDone
    <3>2. /\ PrevState(q) /\ q.stop = TRUE /\ q.m = r.m /\ q.kept = r.kept
          /\ q.key = r.key /\ q.value = r.value
      BY <2>2, <3>1 DEF PrevState
    <3>3. PrevOK(S, L, q)
      BY <2>1, <2>2, <2>6, <3>2 DEF PrevOK
    <3> QED BY <1>2, <3>2, <3>3 DEF PrevDone
  <2>7. CASE ~ (K \in S /\ r.kept /\ K.user < r.key)
    <3>1. PICK n : n = MergePrev(r.m)
      OBVIOUS
    <3>2. PICK k, key, value :
             /\ k = (IF InSnapshot(K) THEN InSnapshot(K) /\ K.type = "value" ELSE r.kept)
             /\ key = (IF InSnapshot(K) /\ K.type = "value" THEN K.user
                       ELSE IF InSnapshot(K) THEN Empty ELSE r.key)
             /\ value = (IF InSnapshot(K) /\ K.type = "value" THEN K
                         ELSE IF InSnapshot(K) THEN NotValid ELSE r.value)
      OBVIOUS
    <3>a. q = [m |-> n, stop |-> FALSE, kept |-> k, key |-> key, value |-> value,
               ok |-> r.ok /\ Parses(K)]
      BY <1>2, <2>1, <2>4, <2>7, <3>1, <3>2 DEF PrevRound, PrevDone
    <3>b. /\ K \notin S => k = r.kept /\ key = r.key /\ value = r.value
          /\ K \in S /\ K.type = "value" => k = TRUE /\ key = K.user /\ value = K
          /\ K \in S /\ K.type = "deletion" => k = FALSE /\ key = Empty /\ value = NotValid
      BY <2>4, <3>2
    <3>c. k \in BOOLEAN
      BY <2>2, <2>5, <3>b
    <3>3. PrevState(q) /\ q.m = n /\ q.stop = FALSE
      BY <3>a, <3>c DEF PrevState
    <3>4. /\ K \notin S => q.kept = r.kept /\ q.key = r.key /\ q.value = r.value
          /\ K \in S /\ K.type = "value" => q.kept = TRUE /\ q.key = K.user /\ q.value = K
          /\ K \in S /\ K.type = "deletion" =>
                q.kept = FALSE /\ q.key = Empty /\ q.value = NotValid
      BY <3>a, <3>b
    <3>5. PICK w \in BOOLEAN : w = FALSE
      OBVIOUS
    <3>6. n = MoveOf(w, r.m) /\ MergerOK(contents, S, w, r.m)
      BY <2>2, <3>1, <3>5 DEF MoveOf
    <3>7. MergerOK(contents, S, w, n)
      BY <2>1, <2>2, <2>3, <3>6, MoveKeeps
    <3>8. PICK B : B = ToCome(S, w, n)
      OBVIOUS
    <3>9. B = {e \in S : Before(e, K)}
      <4>1. B = After(w, S, K)
        BY <2>1, <2>2, <2>3, <3>6, <3>8, MoveKeeps
      <4> QED BY <3>5, <4>1 DEF After, Prior
    <3>10. PICK A : A = ToCome(S, w, r.m)
      OBVIOUS
    <3>11. A = {e \in S : ~ Before(K, e)}
      BY <2>1, <2>2, <3>5, <3>10 DEF ToCome, Prior
    <3>12. Behind(S, L, A, r.kept, r.key, r.value)
      BY <3>5, <3>10 DEF PrevOK
    <3>13. /\ K \notin S => Behind(S, L, B, r.kept, r.key, r.value)
           /\ K \in S /\ K.type = "value" => Behind(S, L, B, TRUE, K.user, K)
           /\ K \in S /\ K.type = "deletion" => Behind(S, L, B, FALSE, Empty, NotValid)
      BY <2>2, <2>4, <2>7, <3>9, <3>11, <3>12, BehindMoves
    <3>14. Behind(S, L, B, q.kept, q.key, q.value)
      BY <2>5, <3>4, <3>13
    <3>15. PrevOK(S, L, q)
      BY <3>3, <3>5, <3>7, <3>8, <3>14 DEF PrevOK
    <3>16. LeftFor(w, n) < LeftFor(w, r.m)
      BY <2>2, <2>3, <3>6, MoveLeavesFewer
    <3> QED BY <1>2, <3>3, <3>5, <3>15, <3>16
  <2> QED BY <2>6, <2>7
<1> QED BY <1>1, <1>2

(* The rounds the loop of FindPrevUserEntry may still take. *)
PrevLeft(r) == IF PrevDone(r) THEN 0 ELSE LeftFor(FALSE, r.m) + 1

LEMMA PrevLeftIs ==
    ASSUME DataOK(contents, last_sequence), NEW N, N = Rounds
    PROVE  /\ N \in Nat
           /\ \A r : PrevLeft(r) \in Nat /\ PrevLeft(r) <= N /\ (PrevLeft(r) = 0 <=> PrevDone(r))
           /\ \A q, r : ~ PrevDone(r) /\ LeftFor(FALSE, q.m) < LeftFor(FALSE, r.m)
                           => PrevLeft(q) = 0 \/ PrevLeft(q) < PrevLeft(r)
<1>1. PICK w \in BOOLEAN : w = FALSE
  OBVIOUS
<1>2. \A r : LeftFor(w, r.m) \in Nat /\ LeftFor(w, r.m) < N
  BY LeftIsCount
<1>3. N \in Nat
  BY LeftIsCount
<1>4. \A r : PrevLeft(r) = IF PrevDone(r) THEN 0 ELSE LeftFor(w, r.m) + 1
  BY <1>1 DEF PrevLeft
<1>5. \A r : PrevLeft(r) \in Nat /\ PrevLeft(r) <= N /\ (PrevLeft(r) = 0 <=> PrevDone(r))
  BY <1>2, <1>3, <1>4
<1>6. \A q, r : ~ PrevDone(r) /\ LeftFor(w, q.m) < LeftFor(w, r.m)
                   => PrevLeft(q) = 0 \/ PrevLeft(q) < PrevLeft(r)
  BY <1>2, <1>3, <1>4
<1> QED BY <1>1, <1>3, <1>5, <1>6

(* What FindPrevUserEntry returns, from before the entries L on. *)
PrevFound(S, L, r) ==
    /\ MergerOK(contents, S, FALSE, r.m) /\ r.kept \in BOOLEAN
    /\ r.kept => /\ FoundLast(S, L, r.value) /\ r.key = r.value.user
                 /\ \A e : e \in ToCome(S, FALSE, r.m) <=> e \in S /\ e.user < r.key
    /\ ~ r.kept => \A e \in ShownOf(S) : e \notin L

LEMMA FindPrevFinds ==
    ASSUME NEW S, IsView(S), NEW L, Below(S, L), NEW m, MergerOK(contents, S, FALSE, m),
           ToCome(S, FALSE, m) = L, NEW key, NEW value, NEW ok,
           NEW r, r = FindPrevUserEntry(m, key, value, ok)
    PROVE  PrevFound(S, L, r)
<1>1. PICK a : a = [m |-> m, stop |-> FALSE, kept |-> FALSE, key |-> key, value |-> value,
                    ok |-> ok]
  OBVIOUS
<1>2. PrevState(a) /\ a.stop = FALSE /\ a.kept = FALSE /\ a.m = m
  BY <1>1 DEF PrevState
<1>3. Behind(S, L, ToCome(S, FALSE, a.m), a.kept, a.key, a.value)
  <2>1. PICK B : B = ToCome(S, FALSE, a.m)
    OBVIOUS
  <2>2. B = L
    BY <1>2, <2>1
  <2> QED BY <1>2, <2>1, <2>2 DEF Behind
<1>4. PrevOK(S, L, a)
  BY <1>2, <1>3 DEF PrevOK
<1>5. r = LoopOf("prev", 0, a, Rounds)
  BY <1>1 DEF FindPrevUserEntry, LoopOf, RoundOf
<1>7. DataOK(contents, last_sequence)
  BY ViewFacts
<1>8. PICK N \in Nat : N = Rounds
  BY <1>7, LeftIsCount
<1>9. PICK f : /\ f[0] = a /\ f[N] = r
               /\ \A i \in 1 .. N : f[i] = PrevRound(f[i - 1])
  <2>1. LoopEnds("prev", 0, a, N, r)
    BY <1>5, <1>8, LoopResult
  <2> QED BY <2>1 DEF LoopEnds, RoundOf
<1> DEFINE T == {i \in 0 .. N : PrevOK(S, L, f[i])}
<1>10. \A i \in 0 .. N : PrevOK(S, L, f[i])
  <2>1. 0 \in T
    BY <1>4, <1>9
  <2>2. ASSUME NEW i \in 1 .. N, i - 1 \in T PROVE i \in T
    <3>1. PICK x, y : x = f[i - 1] /\ y = PrevRound(x)
      OBVIOUS
    <3>2. PrevOK(S, L, x)
      BY <2>2, <3>1
    <3>3. PrevOK(S, L, y)
      BY <3>1, <3>2, PrevRoundKeeps
    <3> QED BY <1>9, <3>1, <3>3
  <2>3. \A i \in 0 .. N : i \in T
    <3> HIDE DEF T
    <3> QED BY <2>1, <2>2, Upwards
  <2> QED BY <2>3
<1>11. /\ \A x : PrevLeft(x) \in Nat /\ PrevLeft(x) <= N /\ (PrevLeft(x) = 0 <=> PrevDone(x))
       /\ \A x, y : ~ PrevDone(x) /\ LeftFor(FALSE, y.m) < LeftFor(FALSE, x.m)
                       => PrevLeft(y) = 0 \/ PrevLeft(y) < PrevLeft(x)
  BY <1>7, <1>8, PrevLeftIs
<1>12. ASSUME NEW i \in 1 .. N
       PROVE  PrevLeft(f[i]) = 0 \/ PrevLeft(f[i]) < PrevLeft(f[i - 1])
  <2>1. PICK x, y : x = f[i - 1] /\ y = f[i]
    OBVIOUS
  <2>2. y = PrevRound(x) /\ PrevOK(S, L, x)
    BY <1>9, <1>10, <2>1
  <2>3. CASE PrevDone(x)
    <3>1. y = x
      BY <2>2, <2>3, PrevRoundKeeps
    <3> QED BY <1>11, <2>1, <2>3, <3>1
  <2>4. CASE ~ PrevDone(x)
    <3>1. PrevDone(y) \/ LeftFor(FALSE, y.m) < LeftFor(FALSE, x.m)
      BY <2>2, <2>4, PrevRoundKeeps
    <3> QED BY <1>11, <2>1, <2>4, <3>1
  <2> QED BY <2>3, <2>4
<1>13. PICK left : left = [i \in 0 .. N |-> PrevLeft(f[i])]
  OBVIOUS
<1>14. left[N] = 0 /\ left[N] = PrevLeft(f[N])
  <2>1. left \in [0 .. N -> Nat] /\ left[0] <= N
    BY <1>11, <1>13
  <2>2. \A i \in 1 .. N : left[i] = 0 \/ left[i] < left[i - 1]
    BY <1>12, <1>13
  <2>3. left[N] = 0
    BY <2>1, <2>2, LoopStops
  <2> QED BY <1>13, <2>3
<1>15. PrevOK(S, L, r) /\ PrevDone(r)
  BY <1>9, <1>10, <1>11, <1>14
<1>16. PICK B : B = ToCome(S, FALSE, r.m)
  OBVIOUS
<1>17. /\ r.kept \in BOOLEAN /\ Behind(S, L, B, r.kept, r.key, r.value)
       /\ MergerOK(contents, S, FALSE, r.m)
  BY <1>15, <1>16 DEF PrevOK, PrevState
<1>18. ASSUME NEW e \in B PROVE r.kept /\ e.user < r.key
  <2>1. MergeValid(r.m) /\ e \in S /\ ~ Before(MergeKey(r.m), e)
    BY <1>16 DEF ToCome, Prior
  <2>2. r.kept /\ MergeKey(r.m) \in S /\ MergeKey(r.m).user < r.key
    BY <1>15, <2>1 DEF PrevOK, PrevDone, PrevState
  <2>3. e.user <= MergeKey(r.m).user
    <3>1. e.user \in Nat /\ MergeKey(r.m).user \in Nat
      BY <2>1, <2>2, ViewFacts
    <3> QED BY <2>1, <2>2, <3>1, UserOrder
  <2>4. r.key \in Nat
    <3>1. r.value \in S /\ r.key = r.value.user
      BY <1>17, <2>2 DEF Behind, Below
    <3> QED BY <3>1, ViewFacts
  <2>5. e.user \in Nat /\ MergeKey(r.m).user \in Nat
    BY <2>1, <2>2, ViewFacts
  <2> QED BY <2>2, <2>3, <2>4, <2>5
<1>19. /\ r.kept => /\ FoundLast(S, L, r.value) /\ r.key = r.value.user
                    /\ \A e : e \in B <=> e \in S /\ e.user < r.key
       /\ ~ r.kept => \A e \in ShownOf(S) : e \notin L
  BY <1>17, <1>18, BehindEnds
<1> QED BY <1>16, <1>17, <1>19 DEF PrevFound

-----------------------------------------------------------------------------
(* Prev from the forward direction                                         *)

LEMMA UsersAreNumbers ==
    ASSUME DataOK(contents, last_sequence)
    PROVE  \A e \in AllOf(contents) : e.user \in Nat /\ e.seq \in Nat
BY AllUnique, DBIterAssumption DEF Unique, Entries

(* Only entries of key and above have been passed, going backward. *)
ScanOK(S, key, p) == /\ MergerOK(contents, S, FALSE, p)
                     /\ \A e \in S : e.user < key => e \in ToCome(S, FALSE, p)
ScanDone(key, p) == ~ MergeValid(p) \/ MergeKey(p).user < key

LEMMA PrevScans ==
    ASSUME NEW S, IsView(S), NEW key \in Nat, NEW g \in BOOLEAN, NEW p,
           MergerOK(contents, S, g, p), MergeValid(p), ~ (MergeKey(p).user < key),
           NEW q, q = MergePrev(p)
    PROVE  ScanOK(S, key, q)
<1>1. PICK w \in BOOLEAN : w = FALSE
  OBVIOUS
<1>2. PICK K : K = MergeKey(p)
  OBVIOUS
<1>3. q = MoveOf(w, p) /\ S \subseteq AllOf(contents) /\ DataOK(contents, last_sequence)
  BY <1>1, ViewFacts DEF MoveOf
<1>4. MergerOK(contents, S, w, q) /\ K \in AllOf(contents)
  BY <1>2, <1>3, MoveKeeps
<1>5. PICK B : B = ToCome(S, w, q)
  OBVIOUS
<1>6. B = After(w, S, K)
  BY <1>2, <1>3, <1>5, MoveKeeps
<1>7. ASSUME NEW e \in S, e.user < key PROVE e \in B
  <2>1. e.user \in Nat /\ K.user \in Nat
    BY <1>3, <1>4, UsersAreNumbers
  <2>2. Before(e, K)
    BY <1>2, <1>7, <2>1 DEF Before
  <2> QED BY <1>1, <1>6, <2>2 DEF After, Prior
<1> QED BY <1>1, <1>4, <1>5, <1>7 DEF ScanOK

LEMMA ScanRoundKeeps ==
    ASSUME NEW S, IsView(S), NEW key \in Nat, NEW p, ScanOK(S, key, p),
           NEW q, q = ScanRound(p, key)
    PROVE  /\ ScanOK(S, key, q)
           /\ ScanDone(key, p) => q = p
           /\ ~ ScanDone(key, p) => LeftFor(FALSE, q) < LeftFor(FALSE, p)
<1>1. CASE ScanDone(key, p)
  BY <1>1 DEF ScanDone, ScanRound
<1>2. CASE ~ ScanDone(key, p)
  <2>1. q = MergePrev(p) /\ MergeValid(p) /\ ~ (MergeKey(p).user < key)
    BY <1>2 DEF ScanDone, ScanRound
  <2>2. PICK w \in BOOLEAN : w = FALSE
    OBVIOUS
  <2>3. MergerOK(contents, S, w, p) /\ q = MoveOf(w, p)
    BY <2>1, <2>2 DEF ScanOK, MoveOf
  <2>4. S \subseteq AllOf(contents) /\ DataOK(contents, last_sequence)
    BY ViewFacts
  <2>5. LeftFor(w, q) < LeftFor(w, p)
    BY <2>1, <2>3, <2>4, MoveLeavesFewer
  <2>6. ScanOK(S, key, q)
    BY <2>1, <2>3, PrevScans
  <2> QED BY <1>2, <2>2, <2>5, <2>6
<1> QED BY <1>1, <1>2

(* The rounds the loop may still take. *)
ScanLeft(key, p) == IF ScanDone(key, p) THEN 0 ELSE LeftFor(FALSE, p) + 1

LEMMA ScanLeftIs ==
    ASSUME DataOK(contents, last_sequence), NEW N, N = Rounds, NEW key
    PROVE  /\ N \in Nat
           /\ \A p : /\ ScanLeft(key, p) \in Nat /\ ScanLeft(key, p) <= N
                     /\ ScanLeft(key, p) = 0 <=> ScanDone(key, p)
           /\ \A q, p : ~ ScanDone(key, p) /\ LeftFor(FALSE, q) < LeftFor(FALSE, p)
                           => ScanLeft(key, q) = 0 \/ ScanLeft(key, q) < ScanLeft(key, p)
<1>1. PICK w \in BOOLEAN : w = FALSE
  OBVIOUS
<1>2. \A p : LeftFor(w, p) \in Nat /\ LeftFor(w, p) < N
  BY LeftIsCount
<1>3. N \in Nat
  BY LeftIsCount
<1>4. \A p : ScanLeft(key, p) = IF ScanDone(key, p) THEN 0 ELSE LeftFor(w, p) + 1
  BY <1>1 DEF ScanLeft
<1>5. \A p : /\ ScanLeft(key, p) \in Nat /\ ScanLeft(key, p) <= N
             /\ ScanLeft(key, p) = 0 <=> ScanDone(key, p)
  BY <1>2, <1>3, <1>4
<1>6. \A q, p : ~ ScanDone(key, p) /\ LeftFor(w, q) < LeftFor(w, p)
                   => ScanLeft(key, q) = 0 \/ ScanLeft(key, q) < ScanLeft(key, p)
  BY <1>2, <1>3, <1>4
<1> QED BY <1>1, <1>3, <1>5, <1>6

LEMMA ScanBeforeFinds ==
    ASSUME NEW S, IsView(S), NEW m, MergerOK(contents, S, TRUE, m), MergeValid(m),
           NEW key \in Nat, key = MergeKey(m).user, NEW z, z = ScanBefore(m, key)
    PROVE  /\ MergerOK(contents, S, FALSE, z)
           /\ \A e : e \in ToCome(S, FALSE, z) <=> e \in S /\ e.user < key
<1>1. PICK a : a = MergePrev(m)
  OBVIOUS
<1>2. ScanOK(S, key, a)
  <2>1. PICK g \in BOOLEAN : g = TRUE
    OBVIOUS
  <2>2. MergerOK(contents, S, g, m)
    BY <2>1
  <2>3. ~ (MergeKey(m).user < key)
    <3>1. ~ (key < key)
      OBVIOUS
    <3> QED BY <3>1
  <2> QED BY <1>1, <2>2, <2>3, PrevScans
<1>5. z = LoopOf("scan", key, a, Rounds)
  BY <1>1 DEF ScanBefore, LoopOf, RoundOf
<1>7. DataOK(contents, last_sequence)
  BY ViewFacts
<1>8. PICK N \in Nat : N = Rounds
  BY <1>7, LeftIsCount
<1>9. PICK f : /\ f[0] = a /\ f[N] = z
               /\ \A i \in 1 .. N : f[i] = ScanRound(f[i - 1], key)
  <2>1. LoopEnds("scan", key, a, N, z)
    BY <1>5, <1>8, LoopResult
  <2> QED BY <2>1 DEF LoopEnds, RoundOf
<1> DEFINE T == {i \in 0 .. N : ScanOK(S, key, f[i])}
<1>10. \A i \in 0 .. N : ScanOK(S, key, f[i])
  <2>1. 0 \in T
    BY <1>2, <1>9
  <2>2. ASSUME NEW i \in 1 .. N, i - 1 \in T PROVE i \in T
    <3>1. PICK x, y : x = f[i - 1] /\ y = ScanRound(x, key)
      OBVIOUS
    <3>2. ScanOK(S, key, x)
      BY <2>2, <3>1
    <3>3. ScanOK(S, key, y)
      BY <3>1, <3>2, ScanRoundKeeps
    <3> QED BY <1>9, <3>1, <3>3
  <2>3. \A i \in 0 .. N : i \in T
    <3> HIDE DEF T
    <3> QED BY <2>1, <2>2, Upwards
  <2> QED BY <2>3
<1>11. /\ \A x : /\ ScanLeft(key, x) \in Nat /\ ScanLeft(key, x) <= N
                 /\ ScanLeft(key, x) = 0 <=> ScanDone(key, x)
       /\ \A x, y : ~ ScanDone(key, x) /\ LeftFor(FALSE, y) < LeftFor(FALSE, x)
                       => ScanLeft(key, y) = 0 \/ ScanLeft(key, y) < ScanLeft(key, x)
  BY <1>7, <1>8, ScanLeftIs, Zenon
<1>12. ASSUME NEW i \in 1 .. N
       PROVE  ScanLeft(key, f[i]) = 0 \/ ScanLeft(key, f[i]) < ScanLeft(key, f[i - 1])
  <2>1. PICK x, y : x = f[i - 1] /\ y = f[i]
    OBVIOUS
  <2>2. y = ScanRound(x, key) /\ ScanOK(S, key, x)
    BY <1>9, <1>10, <2>1
  <2>3. CASE ScanDone(key, x)
    <3>1. y = x
      BY <2>2, <2>3, ScanRoundKeeps
    <3> QED BY <1>11, <2>1, <2>3, <3>1
  <2>4. CASE ~ ScanDone(key, x)
    <3>1. LeftFor(FALSE, y) < LeftFor(FALSE, x)
      BY <2>2, <2>4, ScanRoundKeeps
    <3> QED BY <1>11, <2>1, <2>4, <3>1
  <2> QED BY <2>3, <2>4
<1>13. PICK left : left = [i \in 0 .. N |-> ScanLeft(key, f[i])]
  OBVIOUS
<1>14. left[N] = 0 /\ left[N] = ScanLeft(key, f[N])
  <2>1. left \in [0 .. N -> Nat] /\ left[0] <= N
    BY <1>11, <1>13
  <2>2. \A i \in 1 .. N : left[i] = 0 \/ left[i] < left[i - 1]
    BY <1>12, <1>13
  <2>3. left[N] = 0
    BY <2>1, <2>2, LoopStops
  <2> QED BY <1>13, <2>3
<1>15. ScanOK(S, key, z) /\ ScanDone(key, z)
  BY <1>9, <1>10, <1>11, <1>14
<1>16. PICK B : B = ToCome(S, FALSE, z)
  OBVIOUS
<1>17. ASSUME NEW e \in B PROVE e \in S /\ e.user < key
  <2>1. MergeValid(z) /\ e \in S /\ ~ Before(MergeKey(z), e)
    BY <1>16 DEF ToCome, Prior
  <2>2. MergeKey(z).user < key
    BY <1>15, <2>1 DEF ScanDone
  <2>3. MergeKey(z) \in AllOf(contents)
    <3>1. PICK g \in BOOLEAN : g = FALSE
      OBVIOUS
    <3>2. MergerOK(contents, S, g, z)
      BY <1>15, <3>1 DEF ScanOK
    <3> QED BY <1>7, <2>1, <3>2, MergerIsAt
  <2>4. e.user \in Nat /\ MergeKey(z).user \in Nat
    BY <1>7, <2>1, <2>3, UsersAreNumbers, ViewFacts
  <2> QED BY <2>1, <2>2, <2>4 DEF Before
<1> QED BY <1>15, <1>16, <1>17 DEF ScanOK

-----------------------------------------------------------------------------
(* The user's view                                                         *)

LEMMA NewestIs ==
    ASSUME NEW S, IsView(S), NEW u, NEW V, V = {e \in S : e.user = u}
    PROVE  /\ V = {} => Newest(u) = NotValid
           /\ V # {} => Newest(u) \in V /\ \A f \in V : f.seq <= Newest(u).seq
<1> DEFINE W == {e \in UNION {contents[i] : i \in Children} : InSnapshot(e) /\ e.user = u}
<1>1. V = W
  <2>1. S = {e \in AllOf(contents) : InSnapshot(e)}
    BY ViewFacts
  <2> QED BY <2>1 DEF AllOf
<1>2. Newest(u) = IF V = {} THEN NotValid ELSE CHOOSE e \in V : \A f \in V : f.seq <= e.seq
  <2>1. Newest(u) = IF W = {} THEN NotValid ELSE CHOOSE e \in W : \A f \in W : f.seq <= e.seq
    BY DEF Newest
  <2> HIDE DEF W
  <2> QED BY <1>1, <2>1
<1>3. ASSUME V # {} PROVE \E e \in V : \A f \in V : f.seq <= e.seq
  <2>1. V \subseteq S
    OBVIOUS
  <2>2. Unique(V) /\ IsFiniteSet(V)
    BY <2>1, ViewFacts, FS_Subset DEF Unique
  <2>3. PICK w \in BOOLEAN : w
    OBVIOUS
  <2>4. PICK e \in V : \A f \in V \ {e} : Prior(w, e, f)
    BY <1>3, <2>2, FirstExists
  <2>5. ASSUME NEW f \in V PROVE f.seq <= e.seq
    <3>1. e.seq \in Nat /\ f.seq \in Nat /\ e.user \in Nat /\ e.user = f.user
      BY <2>1, ViewFacts
    <3>2. f = e \/ Before(e, f)
      BY <2>3, <2>4 DEF Prior
    <3> QED BY <3>1, <3>2 DEF Before
  <2> QED BY <2>5
<1> QED BY <1>2, <1>3

LEMMA ShownAreLive ==
    ASSUME NEW S, IsView(S)
    PROVE  /\ \A e \in ShownOf(S) : e.user \in Live /\ Newest(e.user) = e /\ e.user \in Nat
           /\ \A u \in Live : u \in Nat /\ \E e \in ShownOf(S) : e.user = u
<1>1. ASSUME NEW e \in ShownOf(S)
      PROVE  e.user \in Live /\ Newest(e.user) = e /\ e.user \in Nat
  <2>1. PICK V : V = {f \in S : f.user = e.user}
    OBVIOUS
  <2>2. e \in V /\ \A f \in V : f.seq <= e.seq
    BY <2>1 DEF ShownOf
  <2>3. PICK n : n = Newest(e.user)
    OBVIOUS
  <2>4. n \in V /\ \A f \in V : f.seq <= n.seq
    BY <2>1, <2>2, <2>3, NewestIs
  <2>5. e.seq \in Nat /\ n.seq \in Nat /\ e \in S /\ n \in S
    BY <2>1, <2>2, <2>4, ViewFacts
  <2>6. e.seq = n.seq
    BY <2>2, <2>4, <2>5
  <2>7. e = n
    BY <2>5, <2>6, ViewFacts DEF Unique
  <2>8. e.user \in UserKeys /\ e.user \in Nat /\ e.type = "value"
    BY <2>5, ViewFacts, ShownIsFirst
  <2> QED BY <2>3, <2>7, <2>8 DEF Live
<1>2. ASSUME NEW u \in Live PROVE u \in Nat /\ \E e \in ShownOf(S) : e.user = u
  <2>1. PICK V : V = {f \in S : f.user = u}
    OBVIOUS
  <2>2. PICK n : n = Newest(u)
    OBVIOUS
  <2>3. n.type = "value" /\ u \in Nat
    BY <2>2, DBIterAssumption DEF Live
  <2>4. n # NotValid
    BY <2>3 DEF NotValid
  <2>5. n \in V /\ \A f \in V : f.seq <= n.seq
    BY <2>1, <2>2, <2>4, NewestIs
  <2>6. n \in ShownOf(S) /\ n.user = u
    BY <2>1, <2>3, <2>5 DEF ShownOf
  <2> QED BY <2>3, <2>6
<1> QED BY <1>1, <1>2

LEMMA LowestIs ==
    ASSUME NEW T, T \subseteq Nat
    PROVE  /\ T = {} => LowestOf(T) = NoKey /\ HighestOf(T) = NoKey
           /\ \A u \in T : (\A v \in T : u <= v) => LowestOf(T) = u
           /\ \A u \in T : (\A v \in T : v <= u) => HighestOf(T) = u
<1>1. ASSUME NEW u \in T, \A v \in T : u <= v PROVE LowestOf(T) = u
  <2>1. PICK x : x = LowestOf(T)
    OBVIOUS
  <2>2. x \in T /\ \A v \in T : x <= v
    BY <1>1, <2>1 DEF LowestOf
  <2>3. x \in Nat /\ u \in Nat /\ x <= u /\ u <= x
    BY <1>1, <2>2
  <2> QED BY <2>1, <2>3
<1>2. ASSUME NEW u \in T, \A v \in T : v <= u PROVE HighestOf(T) = u
  <2>1. PICK x : x = HighestOf(T)
    OBVIOUS
  <2>2. x \in T /\ \A v \in T : v <= x
    BY <1>2, <2>1 DEF HighestOf
  <2>3. x \in Nat /\ u \in Nat /\ x <= u /\ u <= x
    BY <1>2, <2>2
  <2> QED BY <2>1, <2>3
<1>3. T = {} => LowestOf(T) = NoKey /\ HighestOf(T) = NoKey
  BY DEF LowestOf, HighestOf
<1> QED BY <1>1, <1>2, <1>3

(***************************************************************************)
(* Before each search: what is still to come.                              *)
(***************************************************************************)
LEMMA AheadFrom ==
    ASSUME NEW S, IsView(S), NEW lo \in Nat, NEW A, A = {e \in S : e.user >= lo}
    PROVE  Ahead(S, lo, A, FALSE, Empty)
<1>1. \A e \in S : e.user \in Nat
  BY ViewFacts
<1>2. \A e \in ShownOf(S) : e \in S
  BY ShownIsFirst
<1>3. \A e \in A : e.user + 1 >= lo
  BY <1>1
<1>4. \A e \in A : ~ Passes(S, lo, A, e)
  BY <1>1 DEF Passes
<1> QED BY <1>2, <1>3, <1>4 DEF Ahead

LEMMA AheadAfter ==
    ASSUME NEW S, IsView(S), NEW p \in Nat, NEW A, A \subseteq S,
           \A e \in S : e.user > p => e \in A, \A e \in A : e.user >= p
    PROVE  Ahead(S, p + 1, A, TRUE, p)
<1>1. \A e \in S : e.user \in Nat
  BY ViewFacts
<1>2. \A e \in ShownOf(S) : e \in S
  BY ShownIsFirst
<1>3. \A e \in ShownOf(S) : e.user >= p + 1 => e \in A
  BY <1>1, <1>2
<1>4. \A e \in A : e.user + 1 >= p + 1
  BY <1>1
<1>5. \A e \in A : e.user <= p => Passes(S, p + 1, A, e)
  BY <1>1 DEF Passes
<1>6. \A e \in A : Passes(S, p + 1, A, e) => e.user <= p
  BY <1>1 DEF Passes
<1> QED BY <1>3, <1>4, <1>5, <1>6 DEF Ahead

-----------------------------------------------------------------------------
(* The operations                                                          *)

(* Where the iterator is after an operation that leaves the entries alone. *)
IteratorAfter(S) ==
    /\ valid_' \in BOOLEAN
    /\ valid_' => AtShown(contents, S, Merger', direction_', saved_key_', saved_value_',
                          position')
    /\ ~ valid_' => position' = NoKey

LEMMA MergerAfter ==
    ASSUME NEW C, NEW S, NEW w, NEW m, MergerOK(C, S, w, m), MergerIs(m)
    PROVE  Merger' = m
BY DEF MergerOK, MergerIs, Merger

LEMMA GoForwardShows ==
    ASSUME NEW S, IsView(S), NEW lo \in Int, NEW m, NEW skipping \in BOOLEAN, NEW skip \in Nat,
           MergerOK(contents, S, TRUE, m), Ahead(S, lo, ToCome(S, TRUE, m), skipping, skip),
           GoForward(m, skipping, skip),
           NEW T, \A v : v \in T <=> v \in Live /\ v >= lo, position' = LowestOf(T)
    PROVE  IteratorAfter(S)
<1>1. T \subseteq Nat /\ \A u \in T : u >= lo /\ \E e \in ShownOf(S) : e.user = u
  BY ShownAreLive
<1>2. \A e \in ShownOf(S) : e \in S /\ e.user \in Nat /\ (e.user >= lo => e.user \in T)
  BY ShownAreLive, ShownIsFirst
<1>3. CASE ~ MergeValid(m)
  <2>1. valid_' = FALSE
    BY <1>3 DEF GoForward
  <2>2. ToCome(S, TRUE, m) = {}
    BY <1>3 DEF ToCome
  <2>3. \A e \in ShownOf(S) : ~ (e.user >= lo)
    BY <2>2 DEF Ahead
  <2>4. T = {}
    BY <1>1, <2>3
  <2> QED BY <2>1, <2>4, LowestIs DEF IteratorAfter
<1>4. CASE MergeValid(m)
  <2>1. PICK r : r = FindNextUserEntry(m, skipping, skip, iter_status)
    OBVIOUS
  <2>2. MergerIs(r.m) /\ valid_' = r.valid /\ direction_' = "forward"
    BY <1>4, <2>1 DEF GoForward
  <2>3. /\ MergerOK(contents, S, TRUE, r.m) /\ r.valid \in BOOLEAN
        /\ r.valid => MergeValid(r.m) /\ Found(S, lo, MergeKey(r.m))
        /\ ~ r.valid => \A e \in ShownOf(S) : ~ (e.user >= lo)
    BY <1>4, <2>1, FindNextFinds
  <2>4. Merger' = r.m
    BY <2>2, <2>3, MergerAfter
  <2>5. CASE ~ r.valid
    <3>1. T = {}
      BY <1>1, <2>3, <2>5
    <3> QED BY <2>2, <2>3, <2>5, <3>1, LowestIs DEF IteratorAfter
  <2>6. CASE r.valid
    <3>1. PICK K : K = MergeKey(r.m)
      OBVIOUS
    <3>2. MergeValid(r.m) /\ K \in ShownOf(S) /\ K.user >= lo
          /\ \A e \in ShownOf(S) : e.user >= lo => ~ Before(e, K)
      BY <2>3, <2>6, <3>1 DEF Found
    <3>3. ASSUME NEW v \in T PROVE K.user <= v
      <4>1. PICK e \in ShownOf(S) : e.user = v
        BY <1>1
      <4>2. e \in S /\ K \in S /\ ~ Before(e, K) /\ e.user \in Nat /\ K.user \in Nat
        BY <1>1, <1>2, <3>2, <4>1
      <4> QED BY <4>1, <4>2 DEF Before
    <3>4. K.user \in T
      BY <1>2, <3>2
    <3>5. position' = K.user
      BY <1>1, <3>3, <3>4, LowestIs
    <3>6. AtShown(contents, S, r.m, "forward", saved_key_', saved_value_', K.user)
      BY <2>3, <3>1, <3>2 DEF AtShown
    <3>7. AtShown(contents, S, Merger', direction_', saved_key_', saved_value_', position')
      BY <2>2, <2>4, <3>5, <3>6
    <3> QED BY <2>2, <2>6, <3>7 DEF IteratorAfter
  <2> QED BY <2>3, <2>5, <2>6
<1> QED BY <1>3, <1>4

LEMMA GoBackwardShows ==
    ASSUME NEW S, IsView(S), NEW L, Below(S, L), NEW m, NEW key, NEW value,
           MergerOK(contents, S, FALSE, m), \A e : e \in ToCome(S, FALSE, m) <=> e \in L,
           GoBackward(m, key, value),
           NEW T, T \subseteq Live, \A e \in ShownOf(S) : e \in L <=> e.user \in T,
           position' = HighestOf(T)
    PROVE  IteratorAfter(S)
<1>1. T \subseteq Nat /\ \A u \in T : \E e \in ShownOf(S) : e.user = u
  BY ShownAreLive
<1>2. PICK r : r = FindPrevUserEntry(m, key, value, iter_status)
  OBVIOUS
<1>3. /\ MergerIs(r.m) /\ valid_' = r.kept
      /\ r.kept => saved_key_' = r.key /\ saved_value_' = r.value /\ direction_' = "reverse"
  BY <1>2 DEF GoBackward
<1>4. PICK B : B = ToCome(S, FALSE, m)
  OBVIOUS
<1>5. B = L
  BY <1>4
<1>6. ToCome(S, FALSE, m) = L
  BY <1>4, <1>5
<1>7. /\ MergerOK(contents, S, FALSE, r.m) /\ r.kept \in BOOLEAN
      /\ r.kept => /\ FoundLast(S, L, r.value) /\ r.key = r.value.user
                   /\ \A e : e \in ToCome(S, FALSE, r.m) <=> e \in S /\ e.user < r.key
      /\ ~ r.kept => \A e \in ShownOf(S) : e \notin L
  <2>1. PrevFound(S, L, r)
    BY <1>2, <1>6, FindPrevFinds
  <2> QED BY <2>1 DEF PrevFound
<1>8. Merger' = r.m
  BY <1>3, <1>7, MergerAfter
<1>9. CASE ~ r.kept
  <2>1. T = {}
    BY <1>1, <1>7, <1>9
  <2> QED BY <1>1, <1>3, <1>7, <1>9, <2>1, LowestIs DEF IteratorAfter
<1>10. CASE r.kept
  <2>1. PICK v : v = r.value
    OBVIOUS
  <2>2. /\ v \in ShownOf(S) /\ v \in L /\ r.key = v.user
        /\ \A e \in ShownOf(S) : e \in L => e.user <= v.user
    BY <1>7, <1>10, <2>1 DEF FoundLast
  <2>3. v.user \in T /\ \A u \in T : u <= v.user
    BY <1>1, <2>2
  <2>4. position' = v.user
    BY <1>1, <2>3, LowestIs
  <2>5. PICK p : p = v.user
    OBVIOUS
  <2>6. PICK D : D = ToCome(S, FALSE, r.m)
    OBVIOUS
  <2>7. D = {f \in S : f.user < p}
    BY <1>7, <1>10, <2>2, <2>5, <2>6
  <2>8. ToCome(S, FALSE, r.m) = {f \in S : f.user < p}
    BY <2>6, <2>7
  <2>9. AtShown(contents, S, r.m, "reverse", p, v, p)
    BY <1>7, <2>2, <2>5, <2>8 DEF AtShown
  <2>10. AtShown(contents, S, Merger', direction_', saved_key_', saved_value_', position')
    BY <1>3, <1>8, <1>10, <2>1, <2>2, <2>4, <2>5, <2>9
  <2> QED BY <1>3, <1>10, <2>10 DEF IteratorAfter
<1> QED BY <1>7, <1>9, <1>10

(* The last loop of Prev has found nothing below. *)
LEMMA NothingBelow ==
    ASSUME NEW S, IsView(S), NEW p \in Nat, ~ \E e \in S : e.user < p,
           NEW T, T = {v \in Live : v < p}
    PROVE  T = {} /\ HighestOf(T) = NoKey
<1>1. T = {}
  <2> SUFFICES ASSUME NEW v \in T PROVE FALSE
    OBVIOUS
  <2>1. PICK e \in ShownOf(S) : e.user = v
    BY ShownAreLive
  <2> QED BY <2>1, ShownIsFirst
<1> QED BY <1>1, LowestIs

LEMMA InvFacts ==
    ASSUME DBIterInv, NEW S, S = ViewOf(contents, sequence_)
    PROVE  /\ IsView(S) /\ S \subseteq AllOf(contents) /\ sequence_ \in Nat
           /\ DataOK(contents, last_sequence)
           /\ \A e \in S : e.seq <= sequence_ /\ e.user \in Nat
           /\ valid_ => AtShown(contents, S, Merger, direction_, saved_key_, saved_value_, position)
<1>1. IsView(S)
  BY DEF DBIterInv, IsView
<1> QED BY <1>1, ViewFacts DEF DBIterInv

LEMMA InvAfter ==
    ASSUME DBIterInv, Unmoved, NEW S, S = ViewOf(contents, sequence_), IteratorAfter(S)
    PROVE  DBIterInv'
BY DEF DBIterInv, Unmoved, IteratorAfter

LEMMA SeekShows ==
    ASSUME DBIterInv, NEW u \in UserKeys, IterSeek(u)
    PROVE  DBIterInv'
<1>1. PICK S : S = ViewOf(contents, sequence_)
  OBVIOUS
<1>2. PICK n : n = MergeSeek([user |-> u, seq |-> sequence_, type |-> "value"])
  OBVIOUS
<1>3. /\ IsView(S) /\ S \subseteq AllOf(contents) /\ sequence_ \in Nat
      /\ DataOK(contents, last_sequence) /\ \A e \in S : e.seq <= sequence_
  BY <1>1, InvFacts
<1>4. PICK w \in BOOLEAN : w = TRUE
  OBVIOUS
<1>5. PICK A : A = ToCome(S, w, n)
  OBVIOUS
<1>6. MergerOK(contents, S, w, n)
  BY <1>2, <1>3, <1>4, SeekKeeps
<1>7. A = {e \in S : e.user >= u}
  BY <1>2, <1>3, <1>4, <1>5, SeekKeeps
<1>8. u \in Nat
  BY DBIterAssumption
<1>9. Ahead(S, u, A, FALSE, Empty)
  BY <1>3, <1>7, <1>8, AheadFrom
<1>10. /\ GoForward(n, FALSE, Empty) /\ Unmoved
       /\ position' = LowestOf({v \in Live : v >= u})
  BY <1>2 DEF IterSeek
<1>11. Ahead(S, u, ToCome(S, TRUE, n), FALSE, Empty) /\ MergerOK(contents, S, TRUE, n)
  BY <1>4, <1>5, <1>6, <1>9
<1>12. PICK T : T = {v \in Live : v >= u}
  OBVIOUS
<1>13. /\ \A v : v \in T <=> v \in Live /\ v >= u
       /\ position' = LowestOf(T)
  BY <1>10, <1>12
<1>14. Empty \in Nat /\ u \in Int
  BY <1>8 DEF Empty
<1>15. PICK skipping \in BOOLEAN : skipping = FALSE
  OBVIOUS
<1>16. IteratorAfter(S)
  BY <1>3, <1>10, <1>11, <1>13, <1>14, <1>15, GoForwardShows
<1> QED BY <1>1, <1>10, <1>16, InvAfter

LEMMA SeekToFirstShows ==
    ASSUME DBIterInv, IterSeekToFirst
    PROVE  DBIterInv'
<1>1. PICK S : S = ViewOf(contents, sequence_)
  OBVIOUS
<1>2. PICK n : n = MergeSeekToFirst
  OBVIOUS
<1>3. /\ IsView(S) /\ S \subseteq AllOf(contents) /\ DataOK(contents, last_sequence)
      /\ \A e \in S : e.user \in Nat
  BY <1>1, InvFacts
<1>4. PICK w \in BOOLEAN : w = TRUE
  OBVIOUS
<1>5. PICK A : A = ToCome(S, w, n)
  OBVIOUS
<1>6. MergerOK(contents, S, w, n)
  BY <1>2, <1>3, <1>4, SeekToEndKeeps
<1>a. PICK lo \in Nat : lo = 0
  OBVIOUS
<1>7. A = {e \in S : e.user >= lo}
  <2>1. A = S
    BY <1>2, <1>3, <1>4, <1>5, SeekToEndKeeps
  <2> QED BY <1>3, <1>a, <2>1
<1>9. Ahead(S, lo, A, FALSE, Empty)
  BY <1>3, <1>7, AheadFrom
<1>10. /\ GoForward(n, FALSE, Empty) /\ Unmoved
       /\ position' = LowestOf(Live)
  BY <1>2 DEF IterSeekToFirst
<1>11. Ahead(S, lo, ToCome(S, TRUE, n), FALSE, Empty) /\ MergerOK(contents, S, TRUE, n)
  BY <1>4, <1>5, <1>6, <1>9
<1>13. \A v : v \in Live <=> v \in Live /\ v >= lo
  BY <1>3, <1>a, ShownAreLive
<1>14. Empty \in Nat /\ lo \in Int
  BY DEF Empty
<1>15. PICK skipping \in BOOLEAN : skipping = FALSE
  OBVIOUS
<1>16. IteratorAfter(S)
  BY <1>3, <1>10, <1>11, <1>13, <1>14, <1>15, GoForwardShows
<1> QED BY <1>1, <1>10, <1>16, InvAfter

LEMMA SeekToLastShows ==
    ASSUME DBIterInv, IterSeekToLast
    PROVE  DBIterInv'
<1>1. PICK S : S = ViewOf(contents, sequence_)
  OBVIOUS
<1>2. PICK n : n = MergeSeekToLast
  OBVIOUS
<1>3. /\ IsView(S) /\ S \subseteq AllOf(contents) /\ DataOK(contents, last_sequence)
  BY <1>1, InvFacts
<1>4. PICK w \in BOOLEAN : w = FALSE
  OBVIOUS
<1>5. PICK A : A = ToCome(S, w, n)
  OBVIOUS
<1>6. MergerOK(contents, S, w, n)
  BY <1>2, <1>3, <1>4, SeekToEndKeeps
<1>7. A = S
  BY <1>2, <1>3, <1>4, <1>5, SeekToEndKeeps
<1>8. Below(S, S)
  BY DEF Below
<1>9. /\ GoBackward(n, saved_key_, NotValid) /\ Unmoved /\ position' = HighestOf(Live)
  BY <1>2 DEF IterSeekToLast
<1>10. MergerOK(contents, S, FALSE, n) /\ \A e : e \in ToCome(S, FALSE, n) <=> e \in S
  BY <1>4, <1>5, <1>6, <1>7
<1>11. \A e \in ShownOf(S) : e \in S <=> e.user \in Live
  BY <1>3, ShownAreLive, ShownIsFirst
<1>12. IteratorAfter(S)
  BY <1>3, <1>8, <1>9, <1>10, <1>11, GoBackwardShows
<1> QED BY <1>1, <1>9, <1>12, InvAfter

(* Next, going forward: what is still to come is the current entry and on. *)
LEMMA ForwardIsAhead ==
    ASSUME NEW S, IsView(S), NEW m, NEW K \in S, MergeValid(m), MergeKey(m) = K,
           NEW p, p = K.user
    PROVE  Ahead(S, p + 1, ToCome(S, TRUE, m), TRUE, p)
<1>1. PICK A : A = ToCome(S, TRUE, m)
  OBVIOUS
<1>2. A = {e \in S : ~ Before(e, K)}
  BY <1>1 DEF ToCome, Prior
<1>3. p \in Nat /\ \A e \in S : e.user \in Nat
  BY ViewFacts
<1>4. \A e \in S : e.user > p => e \in A
  <2> SUFFICES ASSUME NEW e \in S, e.user > p PROVE ~ Before(e, K)
    BY <1>2
  <2>1. e.user \in Nat /\ K.user \in Nat /\ p = K.user
    BY <1>3
  <2> QED BY <2>1 DEF Before
<1>5. \A e \in A : e.user >= p
  <2> SUFFICES ASSUME NEW e \in A PROVE e.user >= p
    OBVIOUS
  <2>1. e.user \in Nat /\ K.user \in Nat /\ p = K.user /\ ~ Before(e, K)
    BY <1>2, <1>3
  <2> QED BY <2>1 DEF Before
<1>6. A \subseteq S
  BY <1>2
<1>7. Ahead(S, p + 1, A, TRUE, p)
  BY <1>3, <1>4, <1>5, <1>6, AheadAfter
<1> QED BY <1>1, <1>7

(* Next, going backward: all entries of the current key and on. *)
LEMMA TurnForward ==
    ASSUME NEW S, IsView(S), NEW p \in Nat, NEW m, MergerOK(contents, S, FALSE, m),
           \A e : e \in ToCome(S, FALSE, m) <=> e \in S /\ e.user < p,
           NEW n, n = IF MergeValid(m) THEN MergeNext(m) ELSE MergeSeekToFirst
    PROVE  MergerOK(contents, S, TRUE, n) /\ Ahead(S, p + 1, ToCome(S, TRUE, n), TRUE, p)
<1>1. S \subseteq AllOf(contents) /\ DataOK(contents, last_sequence)
      /\ \A e \in S : e.user \in Nat
  BY ViewFacts
<1>2. PICK w, g \in BOOLEAN : w = TRUE /\ g = FALSE
  OBVIOUS
<1>3. PICK A : A = ToCome(S, w, n)
  OBVIOUS
<1>4. MergerOK(contents, S, w, n) /\ \A e : e \in A <=> e \in S /\ ~ (e.user < p)
  <2>1. CASE MergeValid(m)
    <3>1. n = MoveOf(w, m) /\ MergerOK(contents, S, g, m)
      BY <1>2, <2>1 DEF MoveOf
    <3>2. PICK K : K = MergeKey(m)
      OBVIOUS
    <3>3. MergerOK(contents, S, w, n)
      BY <1>1, <2>1, <3>1, MoveKeeps
    <3>4. A = After(w, S, K)
      BY <1>1, <1>3, <2>1, <3>1, <3>2, MoveKeeps
    <3>5. \A e : e \in A <=> e \in S /\ Before(K, e)
      BY <1>2, <3>4 DEF After, Prior
    <3>6. \A e \in S : Before(K, e) <=> ~ (e.user < p)
      BY <2>1, <3>2 DEF ToCome, Prior
    <3> QED BY <3>3, <3>5, <3>6
  <2>2. CASE ~ MergeValid(m)
    <3>1. n = IF w THEN MergeSeekToFirst ELSE MergeSeekToLast
      BY <1>2, <2>2
    <3>2. MergerOK(contents, S, w, n)
      BY <1>1, <3>1, SeekToEndKeeps
    <3>3. A = S
      BY <1>1, <1>3, <3>1, SeekToEndKeeps
    <3>4. \A e \in S : ~ (e.user < p)
      BY <2>2 DEF ToCome
    <3> QED BY <3>2, <3>3, <3>4
  <2> QED BY <2>1, <2>2
<1>5. Ahead(S, p + 1, A, TRUE, p)
  <2>1. A \subseteq S
    BY <1>4
  <2>2. \A e \in S : e.user > p => e \in A
    BY <1>1, <1>4
  <2>3. \A e \in A : e.user >= p
    BY <1>1, <1>4
  <2> QED BY <2>1, <2>2, <2>3, AheadAfter
<1> QED BY <1>2, <1>3, <1>4, <1>5

LEMMA NextShows ==
    ASSUME DBIterInv, IterNext
    PROVE  DBIterInv'
<1>1. PICK S : S = ViewOf(contents, sequence_)
  OBVIOUS
<1>2. IsView(S) /\ valid_ /\ Unmoved
  BY <1>1, InvFacts DEF IterNext
<1>3. AtShown(contents, S, Merger, direction_, saved_key_, saved_value_, position)
  BY <1>1, <1>2, InvFacts
<1>4. PICK e \in ShownOf(S) :
         /\ position = e.user
         /\ \/ /\ direction_ = "forward" /\ MergerOK(contents, S, TRUE, Merger)
               /\ MergeValid(Merger) /\ MergeKey(Merger) = e
            \/ /\ direction_ = "reverse" /\ MergerOK(contents, S, FALSE, Merger)
               /\ ToCome(S, FALSE, Merger) = {f \in S : f.user < position}
               /\ saved_key_ = position /\ saved_value_ = e
  BY <1>3 DEF AtShown
<1>5. e \in S /\ position \in Nat
  BY <1>2, <1>4, ShownAreLive, ShownIsFirst
<1>6. PICK T : T = {v \in Live : v > position}
  OBVIOUS
<1>7. /\ \A v : v \in T <=> v \in Live /\ v >= position + 1
      /\ position' = LowestOf(T) /\ position + 1 \in Int
  <2>1. \A v \in Live : v \in Nat
    BY <1>2, ShownAreLive
  <2>2. \A v : v \in T <=> v \in Live /\ v >= position + 1
    BY <1>5, <1>6, <2>1
  <2> QED BY <1>5, <1>6, <2>2 DEF IterNext
<1>8. \E m : /\ MergerOK(contents, S, TRUE, m) /\ GoForward(m, TRUE, position)
             /\ Ahead(S, position + 1, ToCome(S, TRUE, m), TRUE, position)
  <2>1. CASE direction_ = "forward"
    <3>1. /\ MergerOK(contents, S, TRUE, Merger) /\ MergeValid(Merger)
          /\ MergeKey(Merger) = e
      BY <1>4, <2>1
    <3>2. GoForward(Merger, TRUE, position)
      BY <1>4, <2>1, <3>1 DEF IterNext
    <3>3. Ahead(S, position + 1, ToCome(S, TRUE, Merger), TRUE, position)
      BY <1>2, <1>4, <1>5, <3>1, ForwardIsAhead
    <3> QED BY <3>1, <3>2, <3>3
  <2>2. CASE direction_ = "reverse"
    <3>1. PICK n : n = IF MergeValid(Merger) THEN MergeNext(Merger) ELSE MergeSeekToFirst
      OBVIOUS
    <3>2. /\ MergerOK(contents, S, FALSE, Merger) /\ saved_key_ = position
          /\ ToCome(S, FALSE, Merger) = {f \in S : f.user < position}
      BY <1>4, <2>2
    <3>3. \A f : f \in ToCome(S, FALSE, Merger) <=> f \in S /\ f.user < position
      BY <3>2
    <3>4. MergerOK(contents, S, TRUE, n)
          /\ Ahead(S, position + 1, ToCome(S, TRUE, n), TRUE, position)
      BY <1>2, <1>5, <3>1, <3>2, <3>3, TurnForward
    <3>5. GoForward(n, TRUE, position)
      BY <2>2, <3>1, <3>2 DEF IterNext
    <3> QED BY <3>4, <3>5
  <2> QED BY <1>4, <2>1, <2>2
<1>9. IteratorAfter(S)
  <2>1. PICK skipping \in BOOLEAN : skipping = TRUE
    OBVIOUS
  <2> QED BY <1>2, <1>5, <1>7, <1>8, <2>1, GoForwardShows
<1> QED BY <1>1, <1>2, <1>9, InvAfter

LEMMA BelowKey ==
    ASSUME NEW S, IsView(S), NEW p \in Nat, NEW L, L = {f \in S : f.user < p},
           NEW T, T = {v \in Live : v < p}
    PROVE  /\ Below(S, L) /\ T \subseteq Live
           /\ \A e \in ShownOf(S) : e \in L <=> e.user \in T
<1>1. \A f \in S : f.user \in Nat
  BY ViewFacts
<1>2. Below(S, L)
  BY <1>1 DEF Below
<1> QED BY <1>2, ShownAreLive, ShownIsFirst

LEMMA PrevShows ==
    ASSUME DBIterInv, IterPrev
    PROVE  DBIterInv'
<1>1. PICK S : S = ViewOf(contents, sequence_)
  OBVIOUS
<1>2. IsView(S) /\ valid_ /\ Unmoved
  BY <1>1, InvFacts DEF IterPrev
<1>3. AtShown(contents, S, Merger, direction_, saved_key_, saved_value_, position)
  BY <1>1, <1>2, InvFacts
<1>4. PICK e \in ShownOf(S) :
         /\ position = e.user
         /\ \/ /\ direction_ = "forward" /\ MergerOK(contents, S, TRUE, Merger)
               /\ MergeValid(Merger) /\ MergeKey(Merger) = e
            \/ /\ direction_ = "reverse" /\ MergerOK(contents, S, FALSE, Merger)
               /\ ToCome(S, FALSE, Merger) = {f \in S : f.user < position}
               /\ saved_key_ = position /\ saved_value_ = e
  BY <1>3 DEF AtShown
<1>5. e \in S /\ position \in Nat
  BY <1>2, <1>4, ShownAreLive, ShownIsFirst
<1>6. PICK T : T = {v \in Live : v < position}
  OBVIOUS
<1>7. PICK L : L = {f \in S : f.user < position}
  OBVIOUS
<1>8. /\ Below(S, L) /\ T \subseteq Live
      /\ \A f \in ShownOf(S) : f \in L <=> f.user \in T
  BY <1>2, <1>5, <1>6, <1>7, BelowKey
<1>9. position' = HighestOf(T)
  BY <1>6 DEF IterPrev
<1>10. ASSUME NEW m, NEW key, NEW value, GoBackward(m, key, value),
              MergerOK(contents, S, FALSE, m),
              \A f : f \in ToCome(S, FALSE, m) <=> f \in S /\ f.user < position
       PROVE  IteratorAfter(S)
  <2>1. \A f : f \in ToCome(S, FALSE, m) <=> f \in L
    BY <1>7, <1>10
  <2> QED BY <1>2, <1>8, <1>9, <1>10, <2>1, GoBackwardShows
<1>11. IteratorAfter(S)
  <2>1. CASE direction_ = "reverse"
    <3>1. GoBackward(Merger, saved_key_, saved_value_)
      BY <2>1 DEF IterPrev
    <3>2. /\ MergerOK(contents, S, FALSE, Merger)
          /\ ToCome(S, FALSE, Merger) = {f \in S : f.user < position}
      BY <1>4, <2>1
    <3>3. \A f : f \in ToCome(S, FALSE, Merger) <=> f \in S /\ f.user < position
      BY <3>2
    <3> QED BY <1>10, <3>1, <3>2, <3>3
  <2>2. CASE direction_ = "forward"
    <3>1. /\ MergerOK(contents, S, TRUE, Merger) /\ MergeValid(Merger)
          /\ MergeKey(Merger).user = position
      BY <1>4, <2>2
    <3>2. PICK m : m = ScanBefore(Merger, position)
      OBVIOUS
    <3>3. /\ MergerOK(contents, S, FALSE, m)
          /\ \A f : f \in ToCome(S, FALSE, m) <=> f \in S /\ f.user < position
      BY <1>2, <1>5, <3>1, <3>2, ScanBeforeFinds
    <3>4. IF MergeValid(m) THEN GoBackward(m, position, saved_value_)
          ELSE MergerIs(m) /\ valid_' = FALSE
      BY <2>2, <3>1, <3>2 DEF IterPrev
    <3>5. CASE MergeValid(m)
      BY <1>10, <3>3, <3>4, <3>5
    <3>6. CASE ~ MergeValid(m)
      <4>1. ~ \E f \in S : f.user < position
        BY <3>3, <3>6 DEF ToCome
      <4>2. HighestOf(T) = NoKey
        BY <1>2, <1>5, <1>6, <4>1, NothingBelow
      <4> QED BY <1>9, <3>4, <3>6, <4>2 DEF IteratorAfter
    <3> QED BY <3>5, <3>6
  <2> QED BY <1>4, <2>1, <2>2
<1> QED BY <1>1, <1>2, <1>11, InvAfter

(***************************************************************************)
(* A write is newer than the view and is in no child's way.                *)
(***************************************************************************)
Adds(C, D, e) == \A i \in Children : C[i] \subseteq D[i] /\ D[i] \subseteq C[i] \cup {e}

LEMMA WriteKeepsData ==
    ASSUME DataOK(contents, last_sequence), NEW n, n = last_sequence + 1,
           NEW e \in Entries, e.seq = n,
           NEW C, C = [contents EXCEPT ![1] = @ \cup {e}]
    PROVE  /\ DataOK(C, n) /\ Adds(contents, C, e)
           /\ \A f \in AllOf(contents) : f.seq \in Nat /\ f.seq <= last_sequence
<1>1. /\ contents \in [Children -> SUBSET Entries] /\ last_sequence \in Nat
      /\ \A a, b \in AllOf(contents) : a.seq = b.seq => a = b
      /\ \A f \in AllOf(contents) : f.seq <= last_sequence
      /\ \A i, j \in Children : i # j => contents[i] \cap contents[j] = {}
  BY DEF DataOK
<1>2. \A i \in Children : C[i] = IF i = 1 THEN contents[i] \cup {e} ELSE contents[i]
  BY <1>1
<1>3. \A f \in AllOf(contents) : f.seq \in Nat
  BY UsersAreNumbers
<1>4. C \in [Children -> SUBSET Entries]
  BY <1>1, <1>2
<1>5. \A f \in AllOf(C) : f \in AllOf(contents) \/ f = e
  BY <1>2 DEF AllOf
<1>6. n \in Nat /\ e \notin AllOf(contents) /\ \A f \in AllOf(contents) : f.seq < n
  BY <1>1, <1>3
<1>7. \A a, b \in AllOf(C) : a.seq = b.seq => a = b
  BY <1>1, <1>3, <1>5, <1>6
<1>8. \A f \in AllOf(C) : f.seq <= n
  BY <1>3, <1>5, <1>6
<1>9. \A i \in Children : e \notin contents[i]
  BY <1>6 DEF AllOf
<1>10. \A i, j \in Children : i # j => C[i] \cap C[j] = {}
  BY <1>1, <1>2, <1>9
<1>11. DataOK(C, n)
  BY <1>4, <1>6, <1>7, <1>8, <1>10 DEF DataOK
<1>12. Adds(contents, C, e)
  BY <1>2 DEF Adds
<1> QED BY <1>1, <1>3, <1>11, <1>12

LEMMA WriteKeepsMerger ==
    ASSUME NEW C, NEW D, NEW e, NEW S, e \notin S, Adds(C, D, e),
           NEW w, NEW m, MergerOK(C, S, w, m)
    PROVE  MergerOK(D, S, w, m)
<1>1. Placed(D, m.at)
  <2>1. AllOf(C) \subseteq AllOf(D)
    BY DEF AllOf, Adds
  <2> QED BY <2>1 DEF MergerOK, Placed, Adds
<1>2. \A i \in Children : D[i] \cap S = C[i] \cap S
  BY DEF Adds
<1> QED BY <1>1, <1>2 DEF MergerOK

LEMMA WriteShows ==
    ASSUME DBIterInv, NEW u \in UserKeys, NEW t \in {"value", "deletion"}, NewWrite(u, t)
    PROVE  DBIterInv'
<1>1. PICK S : S = ViewOf(contents, sequence_)
  OBVIOUS
<1>2. PICK e : e = [user |-> u, seq |-> last_sequence + 1, type |-> t]
  OBVIOUS
<1>3. PICK n : n = last_sequence + 1
  OBVIOUS
<1>4. /\ contents' = [contents EXCEPT ![1] = @ \cup {e}] /\ last_sequence' = n
      /\ sequence_' = sequence_ /\ Merger' = Merger /\ direction_' = direction_
      /\ valid_' = valid_ /\ saved_key_' = saved_key_ /\ saved_value_' = saved_value_
      /\ position' = position
  BY <1>2, <1>3 DEF NewWrite, mergerVars, Merger
<1>5. /\ DataOK(contents, last_sequence) /\ sequence_ \in Nat /\ sequence_ <= last_sequence
      /\ last_sequence \in Nat /\ valid_ \in BOOLEAN
  BY DEF DBIterInv, DataOK
<1>6. e \in Entries /\ e.seq = n
  BY <1>2, <1>3, <1>5 DEF Entries, EntryTypes
<1>7. /\ DataOK(contents', n) /\ Adds(contents, contents', e)
      /\ \A f \in AllOf(contents) : f.seq \in Nat /\ f.seq <= last_sequence
  <2>1. PICK C : C = [contents EXCEPT ![1] = @ \cup {e}]
    OBVIOUS
  <2>2. /\ DataOK(C, n) /\ Adds(contents, C, e)
        /\ \A f \in AllOf(contents) : f.seq \in Nat /\ f.seq <= last_sequence
    BY <1>3, <1>5, <1>6, <2>1, WriteKeepsData
  <2>3. contents' = C
    BY <1>4, <2>1
  <2> QED BY <2>2, <2>3
<1>8. e \notin S /\ ViewOf(contents', sequence_) = S
  <2>1. ~ (e.seq <= sequence_)
    BY <1>3, <1>5, <1>6
  <2>2. \A f : f \in AllOf(contents') <=> f \in AllOf(contents) \/ (f = e /\ f \in AllOf(contents'))
    BY <1>7 DEF AllOf, Adds
  <2> QED BY <1>1, <2>1, <2>2 DEF ViewOf
<1>9. ASSUME NEW w, MergerOK(contents, S, w, Merger)
      PROVE  MergerOK(contents', S, w, Merger)
  BY <1>7, <1>8, <1>9, WriteKeepsMerger
<1>10. valid_ => AtShown(contents', S, Merger, direction_, saved_key_, saved_value_, position)
  <2> SUFFICES ASSUME valid_
               PROVE  AtShown(contents', S, Merger, direction_, saved_key_, saved_value_, position)
    OBVIOUS
  <2>1. AtShown(contents, S, Merger, direction_, saved_key_, saved_value_, position)
    BY <1>1 DEF DBIterInv
  <2> QED BY <1>9, <2>1 DEF AtShown
<1>11. ~ valid_ => position = NoKey
  BY DEF DBIterInv
<1>12. n \in Nat /\ sequence_ <= n
  BY <1>3, <1>5
<1>13. IF valid_ THEN AtShown(contents', S, Merger, direction_, saved_key_, saved_value_, position)
       ELSE position = NoKey
  BY <1>10, <1>11
<1> QED BY <1>4, <1>5, <1>7, <1>8, <1>12, <1>13 DEF DBIterInv

LEMMA InitIsOK ==
    ASSUME DBIterInit
    PROVE  DBIterInv
<1>1. PICK user \in [1 .. StoredWrites -> UserKeys],
           type \in [1 .. StoredWrites -> {"value", "deletion", "corrupt"}],
           home \in [1 .. StoredWrites -> Children] :
         contents = [i \in Children |->
                {[user |-> user[s], seq |-> s, type |-> type[s]] :
                    s \in {t \in 1 .. StoredWrites : home[t] = i}}]
  BY DEF DBIterInit
<1>2. PICK entry : entry = [s \in 1 .. StoredWrites |->
                              [user |-> user[s], seq |-> s, type |-> type[s]]]
  OBVIOUS
<1>3. \A s \in 1 .. StoredWrites : entry[s] \in Entries /\ entry[s].seq = s
  BY <1>1, <1>2, DBIterAssumption DEF Entries, EntryTypes
<1>4. \A i \in Children : \A e \in contents[i] :
         \E s \in 1 .. StoredWrites : home[s] = i /\ e = entry[s]
  BY <1>1, <1>2
<1>5. contents = [i \in Children |-> contents[i]]
  BY <1>1
<1>6. contents \in [Children -> SUBSET Entries]
  BY <1>3, <1>4, <1>5
<1>7. \A e \in AllOf(contents) : \E s \in 1 .. StoredWrites : e = entry[s]
  BY <1>4 DEF AllOf
<1>8. StoredWrites \in Nat
  BY DBIterAssumption
<1>9. \A i, j \in Children : i # j => contents[i] \cap contents[j] = {}
  BY <1>3, <1>4
<1>10. /\ \A a, b \in AllOf(contents) : a.seq = b.seq => a = b
       /\ \A e \in AllOf(contents) : e.seq <= StoredWrites
  BY <1>3, <1>7, <1>8
<1>11. DataOK(contents, StoredWrites)
  BY <1>6, <1>8, <1>9, <1>10 DEF DataOK
<1>12. /\ last_sequence = StoredWrites /\ sequence_ \in 1 .. StoredWrites
       /\ valid_ = FALSE /\ position = NoKey
  BY DEF DBIterInit
<1>13. sequence_ \in Nat /\ sequence_ <= last_sequence
  BY <1>8, <1>12
<1> QED BY <1>11, <1>12, <1>13 DEF DBIterInv

LEMMA InvShows ==
    ASSUME DBIterInv
    PROVE  IteratorShowsSnapshot
<1>1. PICK S : S = ViewOf(contents, sequence_)
  OBVIOUS
<1>2. IsView(S)
  BY <1>1, InvFacts
<1>3. CASE valid_
  <2>1. PICK e \in ShownOf(S) :
           /\ position = e.user
           /\ \/ /\ direction_ = "forward" /\ MergeKey(Merger) = e
              \/ /\ direction_ = "reverse" /\ saved_key_ = position /\ saved_value_ = e
    BY <1>1, <1>3, InvFacts DEF AtShown
  <2>2. Newest(position) = e /\ position \in Nat
    BY <1>2, <2>1, ShownAreLive
  <2>3. position # NoKey
    BY <2>2 DEF NoKey
  <2>4. IterKey = position /\ IterValue = e
    BY <2>1 DEF IterKey, IterValue
  <2> QED BY <1>3, <2>2, <2>3, <2>4 DEF IteratorShowsSnapshot
<1>4. CASE ~ valid_
  BY <1>4 DEF DBIterInv, IteratorShowsSnapshot
<1> QED BY <1>3, <1>4

(***************************************************************************)
(* An iterator over the database is where the user's view at its sequence  *)
(* number puts it, and its merging iterator has passed no entry of that    *)
(* view that is still to come: DBIter's operations (db/db_iter.cc:139-317) *)
(* on MergingIterator (table/merger.cc:30-160), with writes arriving in    *)
(* between.                                                                *)
(***************************************************************************)
THEOREM IteratorInvariant == DBIterSpec => []DBIterInv
<1>1. DBIterInit => DBIterInv
  BY InitIsOK
<1>2. DBIterInv /\ [DBIterNext]_dbIterVars => DBIterInv'
  <2> SUFFICES ASSUME DBIterInv, [DBIterNext]_dbIterVars PROVE DBIterInv'
    OBVIOUS
  <2>1. ASSUME NEW u \in UserKeys, IterSeek(u) PROVE DBIterInv'
    BY <2>1, SeekShows
  <2>2. CASE IterSeekToFirst
    BY <2>2, SeekToFirstShows
  <2>3. CASE IterSeekToLast
    BY <2>3, SeekToLastShows
  <2>4. CASE IterNext
    BY <2>4, NextShows
  <2>5. CASE IterPrev
    BY <2>5, PrevShows
  <2>6. ASSUME NEW u \in UserKeys, NEW t \in {"value", "deletion"}, NewWrite(u, t)
        PROVE  DBIterInv'
    BY <2>6, WriteShows
  <2>7. CASE UNCHANGED dbIterVars
    <3>1. /\ contents' = contents /\ last_sequence' = last_sequence /\ sequence_' = sequence_
          /\ Merger' = Merger /\ direction_' = direction_ /\ valid_' = valid_
          /\ saved_key_' = saved_key_ /\ saved_value_' = saved_value_ /\ position' = position
      BY <2>7 DEF dbIterVars, mergerVars, Merger
    <3> QED BY <3>1 DEF DBIterInv
  <2> QED BY <2>1, <2>2, <2>3, <2>4, <2>5, <2>6, <2>7 DEF DBIterNext
<1> QED BY <1>1, <1>2, PTL DEF DBIterSpec

(***************************************************************************)
(* The iterator shows one snapshot, for every number of children, keys and *)
(* entries: in whatever order it is sought, moved forward and backward,    *)
(* Valid(), key() and value() (db/db_iter.cc) are those that stepping      *)
(* through the user's view at sequence_ gives, past deletions, overwritten *)
(* and unparsable entries and whatever is written meanwhile.               *)
(***************************************************************************)
THEOREM IteratorSnapshot == DBIterSpec => []IteratorShowsSnapshot
<1>1. DBIterInv => IteratorShowsSnapshot
  BY InvShows
<1> QED BY <1>1, IteratorInvariant, PTL
==============================================================================
