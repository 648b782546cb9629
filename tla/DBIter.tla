------------------------------- MODULE DBIter -------------------------------
(***************************************************************************)
(* Iteration over the database: DBIter (db/db_iter.cc) turns the entries   *)
(* (user key, sequence, type) of a MergingIterator (table/merger.cc) into  *)
(* the user's view at one sequence number.  The children are iterators     *)
(* over the memtable, which keeps growing while the iterator is in use,    *)
(* and over immutable tables.                                              *)
(*                                                                         *)
(* User keys are numbers.  0 is the empty key, and also what a cleared     *)
(* saved_key_ holds: the code keeps an empty string in both cases.  An     *)
(* entry is its own value.                                                 *)
(***************************************************************************)
EXTENDS Integers, FiniteSets

CONSTANTS
    UserKeys,        \* a set of numbers; 0 is the empty key
    Children,        \* 1 .. n: the memtable and n - 1 tables
    StoredWrites,    \* entries there are when the iterator is created
    MaxNewWrites,    \* bound: entries added afterwards
    MaxCorrupt       \* bound: entries whose internal key does not parse

ASSUME DBIterAssumption ==
    /\ UserKeys \subseteq Nat /\ Children \subseteq Nat \ {0}
    /\ StoredWrites \in Nat
    /\ MaxNewWrites \in Nat /\ MaxCorrupt \in Nat

VARIABLES
    contents,        \* the entries of each child
    last_sequence,   \* VersionSet::LastSequence
    sequence_,       \* DBIter::sequence_
    children_,       \* where each child is: an entry, or NotValid
    current_,        \* the child MergingIterator is at, or 0
    merge_direction, \* its direction_
    direction_, valid_, saved_key_, saved_value_,
    iter_status,     \* DBIter::status_ is ok
    position         \* where a reader of the snapshot would be, or NoKey

mergerVars  == <<children_, current_, merge_direction>>
dbIterVars  == <<contents, last_sequence, sequence_, mergerVars, direction_,
                 valid_, saved_key_, saved_value_, iter_status, position>>

NotValid == [user |-> 0, seq |-> 0, type |-> "none"]
NoKey    == -1
Empty    == 0

----------------------------------------------------------------------------
(* A child: a position in a sorted set of entries                          *)

Before(a, b) == a.user < b.user \/ (a.user = b.user /\ a.seq > b.seq)
First(S) == IF S = {} THEN NotValid
            ELSE CHOOSE e \in S : \A f \in S \ {e} : Before(e, f)
Last(S)  == IF S = {} THEN NotValid
            ELSE CHOOSE e \in S : \A f \in S \ {e} : Before(f, e)
SeekChild(i, e) == First({f \in contents[i] : ~Before(f, e)})
NextChild(i, e) == First({f \in contents[i] : Before(e, f)})
PrevChild(i, e) == Last({f \in contents[i] : Before(f, e)})

----------------------------------------------------------------------------
(* MergingIterator: [at, current, forward]                                 *)

(* Of equal children FindSmallest keeps the first and FindLargest the last *)
(* one; there are none, for sequence numbers are unique.                   *)
FindSmallest(at) ==
    LET valid == {i \in Children : at[i] /= NotValid}
    IN IF valid = {} THEN 0
       ELSE CHOOSE i \in valid : \A j \in valid \ {i} : Before(at[i], at[j])
FindLargest(at) ==
    LET valid == {i \in Children : at[i] /= NotValid}
    IN IF valid = {} THEN 0
       ELSE CHOOSE i \in valid : \A j \in valid \ {i} : Before(at[j], at[i])

Forwards(at)  == [at |-> at, current |-> FindSmallest(at), forward |-> TRUE]
Backwards(at) == [at |-> at, current |-> FindLargest(at), forward |-> FALSE]

MergeSeekToFirst == Forwards([i \in Children |-> First(contents[i])])
MergeSeekToLast  == Backwards([i \in Children |-> Last(contents[i])])
MergeSeek(e)     == Forwards([i \in Children |-> SeekChild(i, e)])

MergeValid(m) == m.current /= 0
MergeKey(m)   == m.at[m.current]

OthersNotMoved(m) == m.at                            \* variant of OthersAfter

(* The other children when the direction changes: after the current key,   *)
(* or before it.                                                           *)
OthersAfter(m) ==
    [i \in Children |->
        IF m.forward \/ i = m.current THEN m.at[i]
        ELSE LET e == SeekChild(i, MergeKey(m))
             IN IF e = MergeKey(m) THEN NextChild(i, e) ELSE e]
OthersBefore(m) ==
    [i \in Children |->
        IF ~m.forward \/ i = m.current THEN m.at[i]
        ELSE LET e == SeekChild(i, MergeKey(m))
             IN IF e = NotValid THEN Last(contents[i]) ELSE PrevChild(i, e)]

MergeNext(m) ==
    Forwards([OthersAfter(m) EXCEPT ![m.current] = NextChild(m.current, @)])
MergePrev(m) ==
    Backwards([OthersBefore(m) EXCEPT ![m.current] = PrevChild(m.current, @)])

----------------------------------------------------------------------------
(* DBIter.  A result is [m, valid, key, value, ok].                        *)

(* The loops below end after one round for every entry.                    *)
Rounds == Cardinality(UNION {contents[i] : i \in Children}) + 1

Parses(e)     == e.type \in {"value", "deletion"}
InSnapshot(e) == Parses(e) /\ e.seq <= sequence_

(* FindNextUserEntry(skipping, skip) from a valid m.                       *)
LookAtNext(r) ==
    LET e == MergeKey(r.m)
        hides == InSnapshot(e) /\ e.type = "deletion"
    IN [r EXCEPT !.found = InSnapshot(e) /\ e.type = "value"
                           /\ ~(r.skipping /\ e.user <= r.skip),
                 !.skipping = @ \/ hides,
                 !.skip = IF hides THEN e.user ELSE @,
                 !.ok = @ /\ Parses(e)]
NextRound(r) ==
    LET next == [r EXCEPT !.m = MergeNext(r.m)]
    IN IF r.found \/ ~MergeValid(r.m) THEN r
       ELSE IF MergeValid(next.m) THEN LookAtNext(next) ELSE next
FindNextUserEntry(m, skipping, skip, ok) ==
    LET start == LookAtNext([m |-> m, found |-> FALSE, skipping |-> skipping,
                             skip |-> skip, ok |-> ok])
        loop[n \in 0 .. Rounds] == IF n = 0 THEN start ELSE NextRound(loop[n - 1])
        end == loop[Rounds]
    IN [m |-> end.m, valid |-> end.found, ok |-> end.ok]

(* FindPrevUserEntry; the value kept is the last one passed of the first   *)
(* user key, going backwards, that is not deleted.                         *)
PrevRound(r) ==
    LET e == MergeKey(r.m)
        seen == InSnapshot(e)
        keep == seen /\ e.type = "value"
    IN IF r.stop \/ ~MergeValid(r.m) THEN r
       ELSE IF seen /\ r.kept /\ e.user < r.key THEN [r EXCEPT !.stop = TRUE]
       ELSE [m |-> MergePrev(r.m), stop |-> FALSE,
             kept |-> IF seen THEN keep ELSE r.kept,
             key |-> IF keep THEN e.user ELSE IF seen THEN Empty ELSE r.key,
             value |-> IF keep THEN e ELSE IF seen THEN NotValid ELSE r.value,
             ok |-> r.ok /\ Parses(e)]
FindPrevUserEntry(m, key, value, ok) ==
    LET start == [m |-> m, stop |-> FALSE, kept |-> FALSE, key |-> key,
                  value |-> value, ok |-> ok]
        loop[n \in 0 .. Rounds] == IF n = 0 THEN start ELSE PrevRound(loop[n - 1])
    IN loop[Rounds]

(* Prev from the forward direction: back to before all entries of key.     *)
ScanRound(p, key) ==
    IF ~MergeValid(p) \/ MergeKey(p).user < key THEN p ELSE MergePrev(p)
ScanBefore(m, key) ==
    LET scan[n \in 0 .. Rounds] ==
            IF n = 0 THEN MergePrev(m) ELSE ScanRound(scan[n - 1], key)
    IN scan[Rounds]

----------------------------------------------------------------------------
(* The snapshot the iterator shows                                         *)

Newest(u) ==
    LET versions == {e \in UNION {contents[i] : i \in Children} :
                        InSnapshot(e) /\ e.user = u}
    IN IF versions = {} THEN NotValid
       ELSE CHOOSE e \in versions : \A f \in versions : f.seq <= e.seq
Live == {u \in UserKeys : Newest(u).type = "value"}
LowestOf(S)  == IF S = {} THEN NoKey ELSE CHOOSE u \in S : \A v \in S : u <= v
HighestOf(S) == IF S = {} THEN NoKey ELSE CHOOSE u \in S : \A v \in S : v <= u

----------------------------------------------------------------------------
Merger == [at |-> children_, current |-> current_, forward |-> merge_direction]
MergerIs(m) == /\ children_' = m.at /\ current_' = m.current
               /\ merge_direction' = m.forward

(* n writes split over the children, newer ones in earlier children.  The  *)
(* memtable holds no entry that does not parse.                            *)
DBIterInit ==
    /\ \E user \in [1 .. StoredWrites -> UserKeys],
          type \in [1 .. StoredWrites -> {"value", "deletion", "corrupt"}],
          home \in [1 .. StoredWrites -> Children] :
          /\ \A s, t \in 1 .. StoredWrites : s < t => home[t] <= home[s]
          /\ \A s \in 1 .. StoredWrites : type[s] = "corrupt" => home[s] > 1
          /\ Cardinality({s \in 1 .. StoredWrites : type[s] = "corrupt"}) <= MaxCorrupt
          /\ contents = [i \in Children |->
                {[user |-> user[s], seq |-> s, type |-> type[s]] :
                    s \in {t \in 1 .. StoredWrites : home[t] = i}}]
    /\ last_sequence = StoredWrites /\ sequence_ \in 1 .. StoredWrites
    /\ children_ = [i \in Children |-> NotValid] /\ current_ = 0
    /\ merge_direction = TRUE
    /\ direction_ = "forward" /\ valid_ = FALSE
    /\ saved_key_ = Empty /\ saved_value_ = NotValid
    /\ iter_status = TRUE /\ position = NoKey

Unmoved == UNCHANGED <<contents, last_sequence, sequence_>>

(* The end of an operation that went forward from m.                       *)
GoForward(m, skipping, skip) ==
    LET r == FindNextUserEntry(m, skipping, skip, iter_status)
    IN /\ IF MergeValid(m)
          THEN /\ MergerIs(r.m) /\ valid_' = r.valid
               /\ iter_status' = r.ok
          ELSE MergerIs(m) /\ valid_' = FALSE /\ UNCHANGED iter_status
       /\ direction_' = "forward" /\ saved_key_' = Empty

GoBackward(m, key, value) ==
    LET r == FindPrevUserEntry(m, key, value, iter_status)
    IN /\ MergerIs(r.m) /\ valid_' = r.kept /\ iter_status' = r.ok
       /\ saved_key_' = IF r.kept THEN r.key ELSE Empty
       /\ saved_value_' = IF r.kept THEN r.value ELSE NotValid
       /\ direction_' = IF r.kept THEN "reverse" ELSE "forward"

IterSeek(u) ==
    /\ GoForward(MergeSeek([user |-> u, seq |-> sequence_, type |-> "value"]),
                 FALSE, Empty)
    /\ saved_value_' = NotValid
    /\ position' = LowestOf({v \in Live : v >= u})
    /\ Unmoved

IterSeekToFirst ==
    /\ GoForward(MergeSeekToFirst, FALSE, Empty)
    /\ saved_value_' = NotValid
    /\ position' = LowestOf(Live)
    /\ Unmoved

IterSeekToLast ==
    /\ GoBackward(MergeSeekToLast, saved_key_, NotValid)
    /\ position' = HighestOf(Live)
    /\ Unmoved

(* Going backward iter_ is before the entries of saved_key_, which are     *)
(* then skipped.                                                           *)
IterNext ==
    /\ valid_
    /\ IF direction_ = "reverse"
       THEN GoForward(IF MergeValid(Merger) THEN MergeNext(Merger)
                      ELSE MergeSeekToFirst, TRUE, saved_key_)
       ELSE GoForward(Merger, TRUE, MergeKey(Merger).user)
    /\ position' = LowestOf({v \in Live : v > position})
    /\ UNCHANGED saved_value_ /\ Unmoved

IterPrev ==
    /\ valid_
    /\ IF direction_ = "reverse"
       THEN GoBackward(Merger, saved_key_, saved_value_)
       ELSE LET key == MergeKey(Merger).user
                m   == ScanBefore(Merger, key)
            IN IF MergeValid(m) THEN GoBackward(m, key, saved_value_)
               ELSE /\ MergerIs(m) /\ valid_' = FALSE
                    /\ saved_key_' = Empty /\ saved_value_' = NotValid
                    /\ UNCHANGED <<direction_, iter_status>>
    /\ position' = HighestOf({v \in Live : v < position})
    /\ Unmoved

(* A write reaches the memtable while the iterator is open.  The wrappers  *)
(* around the children keep the positions they have.                       *)
NewWrite(u, t) ==
    /\ last_sequence < StoredWrites + MaxNewWrites
    /\ last_sequence' = last_sequence + 1
    /\ contents' = [contents EXCEPT ![1] =
                       @ \cup {[user |-> u, seq |-> last_sequence', type |-> t]}]
    /\ UNCHANGED <<sequence_, mergerVars, direction_, valid_, saved_key_,
                   saved_value_, iter_status, position>>

DBIterNext ==
    \/ \E u \in UserKeys : IterSeek(u)
    \/ IterSeekToFirst \/ IterSeekToLast \/ IterNext \/ IterPrev
    \/ \E u \in UserKeys, t \in {"value", "deletion"} : NewWrite(u, t)

DBIterSpec == DBIterInit /\ [][DBIterNext]_dbIterVars

----------------------------------------------------------------------------
IterKey   == IF direction_ = "forward" THEN MergeKey(Merger).user ELSE saved_key_
IterValue == IF direction_ = "forward" THEN MergeKey(Merger) ELSE saved_value_

(* The iterator shows one snapshot: in whatever order it is moved forward, *)
(* backward and about, with deletions, overwritten and unparsable entries  *)
(* in its way and writes arriving in between, key() and value() are those  *)
(* that stepping through the user's view at sequence_ would give, and      *)
(* Valid() ends where that view ends (DBIter::Next, Prev and the           *)
(* re-seeking of MergingIterator when the direction changes).              *)
IteratorShowsSnapshot ==
    /\ valid_ <=> position /= NoKey
    /\ valid_ => IterKey = position /\ IterValue = Newest(position)
=============================================================================
