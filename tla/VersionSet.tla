----------------------------- MODULE VersionSet -----------------------------
(***************************************************************************)
(* The levels of leveldb (db/version_set.cc, and the compactions of        *)
(* db/db_impl.cc): memtables are flushed to tables, tables are merged into *)
(* deeper levels while entries that no reader needs are dropped, and a     *)
(* read looks level by level and stops at the first level that knows the   *)
(* key.                                                                    *)
(*                                                                         *)
(* One background thread does all flushes and compactions; writers and     *)
(* readers run while a merge is in progress, and the merge itself stops to *)
(* flush a full memtable.  An entry is [key, seq, type]; its value is its  *)
(* sequence number.  The size of a table is its number of entries.         *)
(***************************************************************************)
EXTENDS Integers, Sequences, FiniteSets, SequencesExt

CONSTANTS
    Keys,                      \* user keys: 1 .. n
    Stored,                    \* databases to start from: [written, files, next,
                               \* snapshots, left], left with what may still happen to
                               \* each (bounds): write, snapshot, seek, manual
    MaxSequence,               \* kMaxSequenceNumber
    kNumLevels, kMaxMemCompactLevel, kL0_CompactionTrigger,
    kTargetFileSize, kMaxGrandParentOverlap, kExpandedCompactionLimit,
    MaxBytesForLevel1          \* MaxBytesForLevel is this, ten times more per level

None == [none |-> TRUE]        \* NULL
Levels == 0 .. kNumLevels - 1
EmptyLevels == [l \in Levels |-> <<>>]

VARIABLES
    mem_, imm_,                \* the memtables; an empty imm_ is NULL
    files_,                    \* the current Version: a sequence of tables per level
    file_to_compact_,          \* its table charged with too many seeks
    compact_pointer_,          \* where the next compaction of a level starts
    next_file_number_, snapshots_,
    compaction,                \* the Compaction in progress
    manual_compaction_,        \* the caller of TEST_CompactRange, if any
    written,                   \* history: [key, type] of every write, by sequence number
    exposed,                   \* history: which of Exposures have happened
    left                       \* what the bounds still allow

levelVars == <<mem_, imm_, files_, file_to_compact_, compact_pointer_,
               next_file_number_, snapshots_, compaction, manual_compaction_,
               written, exposed, left>>

(* The two situations after which levels and reads go wrong: a user key    *)
(* whose entries are cut over two tables of a level, and a memtable that   *)
(* is flushed to the output level, or below it, in a gap between the       *)
(* inputs of a manual compaction.                                          *)
Exposures == {"key split", "flush into a gap"}

LevelsInit ==
    /\ mem_ = {} /\ imm_ = {}
    /\ \E db \in Stored : /\ files_ = db.files /\ written = db.written
                          /\ left = db.left /\ snapshots_ = db.snapshots
                          /\ next_file_number_ = db.next
    /\ exposed = {}
    /\ file_to_compact_ = None
    /\ compact_pointer_ = [l \in Levels |-> None]
    /\ compaction = None /\ manual_compaction_ = None

LastSequence == Len(written)

----------------------------------------------------------------------------
(* Internal keys: by user key, then newest first. *)

Precedes(a, b) == a.key < b.key \/ (a.key = b.key /\ a.seq > b.seq)

LeastOf(S)    == CHOOSE x \in S : \A y \in S : x <= y
GreatestOf(S) == CHOOSE x \in S : \A y \in S : x >= y

(* S in the order Lt, and the elements of a sequence at the indices I. *)
InOrder(S, Lt(_, _)) ==
    [i \in 1 .. Cardinality(S) |->
        CHOOSE e \in S : Cardinality({o \in S : Lt(o, e)}) = i - 1]
Ascending(S) == InOrder(S, <)
ElementsAt(fs, I) == LET at == Ascending(I) IN [n \in DOMAIN at |-> fs[at[n]]]

SmallestEntry(f) == CHOOSE e \in f.entries :
                       \A o \in f.entries : o = e \/ Precedes(e, o)
LargestEntry(f)  == CHOOSE e \in f.entries :
                       \A o \in f.entries : o = e \/ Precedes(o, e)
FileSize(f) == Cardinality(f.entries)
TotalFileSize(fs) == Cardinality(UNION {{i} \X fs[i].entries : i \in DOMAIN fs})

(* The entries of the writes W, each write under its place in W, and the   *)
(* tables with numbers below n that may hold them.                         *)
EntriesOf(W) == {[key |-> W[i].key, seq |-> i, type |-> W[i].type] : i \in DOMAIN W}
TablesOf(W, n) == [number : 0 .. n - 1, entries : (SUBSET EntriesOf(W)) \ {{}}]
Disjoint(fs) == \A i \in 1 .. Len(fs) - 1 :
                   Precedes(LargestEntry(fs[i]), SmallestEntry(fs[i + 1]))

(* A database to start from is one the code could have left: its tables    *)
(* hold what was written, those of level 0 have numbers of their own and   *)
(* those of a deeper level are apart, and the writes that may still come   *)
(* do not exhaust the sequence numbers.  There are at least two levels.    *)
StoredIsSound(db) ==
    /\ db.written \in Seq([key : Keys, type : {"value", "deletion"}])
    /\ db.left \in [{"write", "snapshot", "seek", "manual"} -> Nat]
    /\ Len(db.written) + db.left.write <= MaxSequence
    /\ db.next \in Nat /\ db.files \in [Levels -> Seq(TablesOf(db.written, db.next))]
    /\ \A f, g \in Range(db.files[0]) : f.number = g.number => f = g
    /\ \A l \in Levels \ {0} : Disjoint(db.files[l])
ASSUME LevelsAssumption ==
    /\ Keys \subseteq Nat /\ MaxSequence \in Nat
    /\ kNumLevels \in Nat /\ kNumLevels >= 2
    /\ kMaxMemCompactLevel \in 0 .. kNumLevels - 1
    /\ kL0_CompactionTrigger \in Nat \ {0} /\ MaxBytesForLevel1 \in Nat \ {0}
    /\ \A db \in Stored : StoredIsSound(db)

(* The entry of key k that a reader at sequence number s sees. *)
VisibleAt(entries, k, s) == {e \in entries : e.key = k /\ e.seq <= s}
NewestOf(entries) == CHOOSE e \in entries : \A o \in entries : o.seq <= e.seq

(* FindFile: the index of the first table whose largest key is not before  *)
(* the internal key, or one past the end.                                  *)
FindFile(fs, ikey) ==
    CHOOSE i \in 1 .. Len(fs) + 1 :
       /\ \A j \in 1 .. i - 1 : Precedes(LargestEntry(fs[j]), ikey)
       /\ i <= Len(fs) => ~Precedes(LargestEntry(fs[i]), ikey)

----------------------------------------------------------------------------
(* Version *)

Newest(f, g) == f.number > g.number
NewestFirst(fs) == InOrder(fs, Newest)

(* Version::Get and ForEachOverlapping: the tables a read of k at s looks  *)
(* at, in order: those of level 0 whose range holds k, newest first, then  *)
(* at most one of each deeper level.                                       *)
Candidates(fs, k, s) ==
    LET Holds(f) == SmallestEntry(f).key <= k /\ k <= LargestEntry(f).key
        level0   == NewestFirst({f \in Range(fs[0]) : Holds(f)})
        Index(l) == FindFile(fs[l], [key |-> k, seq |-> s])
        deeper   == Ascending({l \in 1 .. kNumLevels - 1 :
                                 /\ Index(l) <= Len(fs[l])
                                 /\ SmallestEntry(fs[l][Index(l)]).key <= k})
    IN [i \in DOMAIN level0 |-> [level |-> 0, file |-> level0[i]]] \o
       [i \in DOMAIN deeper |-> [level |-> deeper[i], file |-> fs[deeper[i]][Index(deeper[i])]]]

(* The memtables are asked first, then the tables, until one of them knows *)
(* the key; a deletion is known too.                                       *)
Sources(k, s) ==
    <<mem_, imm_>> \o [i \in DOMAIN Candidates(files_, k, s) |->
                          Candidates(files_, k, s)[i].file.entries]
Answer(entries, k, s) ==
    LET v == VisibleAt(entries, k, s)
    IN IF v = {} \/ NewestOf(v).type = "deletion" THEN 0 ELSE NewestOf(v).seq
DBGet(k, s) ==
    LET knows == SelectSeq(Sources(k, s), LAMBDA es : VisibleAt(es, k, s) /= {})
    IN IF knows = <<>> THEN 0 ELSE Answer(Head(knows), k, s)

(* Version::Get charges the first table it read if it had to read a second *)
(* one; UpdateStats then makes it a candidate for compaction (the count of *)
(* allowed seeks is one here).                                             *)
Charged(k, s) ==
    LET cs   == Candidates(files_, k, s)
        hits == {i \in DOMAIN cs : VisibleAt(cs[i].file.entries, k, s) /= {}}
        read == IF hits = {} THEN Len(cs)
                ELSE LeastOf(hits)
    IN IF VisibleAt(mem_ \cup imm_, k, s) = {} /\ read >= 2 THEN cs[1] ELSE None

(* RecordReadSample, of an iterator: the first of two tables that may hold *)
(* the key is charged.                                                     *)
ReadSample(k) == LET cs == Candidates(files_, k, MaxSequence)
                 IN IF Len(cs) >= 2 THEN cs[1] ELSE None

(* GetOverlappingInputs: the tables of a level that meet the range of user *)
(* keys; on level 0 the range grows with every table it takes in.          *)
Meets(f, r) == LargestEntry(f).key >= r.lo /\ SmallestEntry(f).key <= r.hi
Meeting(fs, r) == ElementsAt(fs, {i \in DOMAIN fs : Meets(fs[i], r)})
Hull(r, fs) == [lo |-> LeastOf({r.lo} \cup {SmallestEntry(f).key : f \in Range(fs)}),
                hi |-> GreatestOf({r.hi} \cup {LargestEntry(f).key : f \in Range(fs)})]
Grown(fs, r) == Hull(r, Meeting(fs, r))
GrownRange(fs, r) ==       \* one more round for every table is enough
    LET after[n \in 0 .. Len(fs)] ==
            IF n = 0 THEN r ELSE Grown(fs, after[n - 1])
    IN  after[Len(fs)]
GetOverlappingInputs(l, r) ==
    Meeting(files_[l], IF l = 0 THEN GrownRange(files_[0], r) ELSE r)

(* OverlapInLevel, SomeFileOverlapsRange: by binary search below level 0. *)
OverlapInLevel(l, r) ==
    IF l = 0 THEN Meeting(files_[0], r) /= <<>>
    ELSE LET i == FindFile(files_[l], [key |-> r.lo, seq |-> MaxSequence])
         IN i <= Len(files_[l]) /\ SmallestEntry(files_[l][i]).key <= r.hi

OnlyLevel0Checked(r) ==                                     \* variant of
    IF OverlapInLevel(0, r) THEN 0 ELSE kMaxMemCompactLevel \* PickLevelForMemTableOutput
(* The deepest level, up to kMaxMemCompactLevel, that the table of a       *)
(* memtable may be put at: nothing above or there overlaps it, and little  *)
(* below.                                                                  *)
PickLevelForMemTableOutput(r) ==
    LET MayPass(l) ==
          /\ ~OverlapInLevel(l + 1, r)
          /\ l + 2 < kNumLevels =>
                TotalFileSize(GetOverlappingInputs(l + 2, r)) <= kMaxGrandParentOverlap
    IN IF OverlapInLevel(0, r) THEN 0
       ELSE CHOOSE l \in 0 .. kMaxMemCompactLevel :
               /\ \A m \in 0 .. l - 1 : MayPass(m)
               /\ l = kMaxMemCompactLevel \/ ~MayPass(l)

----------------------------------------------------------------------------
(* VersionSet *)

(* Builder and LogAndApply: deleted tables leave their level, added ones   *)
(* join it, sorted by smallest key.  A new Version has no charged table.   *)
BySmallestKey(f, g) ==
    \/ Precedes(SmallestEntry(f), SmallestEntry(g))
    \/ SmallestEntry(f) = SmallestEntry(g) /\ f.number < g.number
Sorted(fs) == InOrder(fs, BySmallestKey)
Apply(deleted, added) ==
    /\ files_' = [l \in Levels |->
          LET kept == {f \in Range(files_[l]) : <<l, f.number>> \notin deleted}
          IN Sorted(kept \cup {a[2] : a \in {x \in added : x[1] = l}})]
    /\ file_to_compact_' = None

(* Finalize: the level with the best score; sizes are scaled so that a     *)
(* score of at least 1 means the level is due.                             *)
MaxBytesForLevel(l) ==
    LET bytes[n \in 0 .. l - 1] ==
            IF n = 0 THEN MaxBytesForLevel1 ELSE 10 * bytes[n - 1]
    IN  bytes[l - 1]
ScoreOf(l) ==     \* <<numerator, denominator>>
    IF l = 0 THEN <<Len(files_[0]), kL0_CompactionTrigger>>
    ELSE <<TotalFileSize(files_[l]), MaxBytesForLevel(l)>>
BetterOf(l, m) ==
    IF ScoreOf(l)[1] * ScoreOf(m)[2] > ScoreOf(m)[1] * ScoreOf(l)[2] THEN l ELSE m
CompactionLevel ==
    LET best[l \in 0 .. kNumLevels - 2] == IF l = 0 THEN 0 ELSE BetterOf(l, best[l - 1])
    IN  best[kNumLevels - 2]
SizeCompaction == ScoreOf(CompactionLevel)[1] >= ScoreOf(CompactionLevel)[2]

RangeOf(fs) == [lo |-> LeastOf({SmallestEntry(f).key : f \in Range(fs)}),
                hi |-> GreatestOf({LargestEntry(f).key : f \in Range(fs)})]

(* PickCompaction: the table after the compaction pointer, wrapping round, *)
(* or the charged one; on level 0 everything that overlaps it.             *)
PickedFile ==
    LET l    == CompactionLevel
        past == {i \in DOMAIN files_[l] :
                    \/ compact_pointer_[l] = None
                    \/ Precedes(compact_pointer_[l], LargestEntry(files_[l][i]))}
    IN files_[l][IF past = {} THEN 1 ELSE LeastOf(past)]
Picked ==
    LET l == IF SizeCompaction THEN CompactionLevel ELSE file_to_compact_.level
        f == IF SizeCompaction THEN PickedFile ELSE file_to_compact_.file
    IN [level   |-> l,
        inputs0 |-> IF l = 0 THEN GetOverlappingInputs(0, RangeOf(<<f>>)) ELSE <<f>>]

(* VersionSet::CompactRange: below level 0 the inputs are cut off once     *)
(* they reach the size of one output.                                      *)
Upto(fs) ==
    LET full == {i \in DOMAIN fs : TotalFileSize(SubSeq(fs, 1, i)) >= kTargetFileSize}
    IN IF full = {} THEN fs ELSE SubSeq(fs, 1, LeastOf(full))
ManualInputs(m) ==
    LET fs == GetOverlappingInputs(m.level, [lo |-> m.lo, hi |-> m.hi])
    IN IF m.level > 0 THEN Upto(fs) ELSE fs

(* SetupOtherInputs: the tables of the next level, the inputs widened      *)
(* where that adds none to the next level, and the grandparents.           *)
Below(l, fs) == GetOverlappingInputs(l + 1, RangeOf(fs))
Widens(l, inputs0, inputs1, expanded0) ==
    /\ inputs1 /= <<>>
    /\ Len(expanded0) > Len(inputs0)
    /\ TotalFileSize(inputs1) + TotalFileSize(expanded0) < kExpandedCompactionLimit
    /\ Len(Below(l, expanded0)) = Len(inputs1)
Widened(l, inputs0, inputs1, expanded0) ==
    IF Widens(l, inputs0, inputs1, expanded0)
    THEN <<expanded0, Below(l, expanded0)>> ELSE <<inputs0, inputs1>>
WithGrandparents(l, in, manual) ==
    [level |-> l, manual |-> manual, inputs0 |-> in[1], inputs1 |-> in[2],
     grandparents |-> IF l + 2 < kNumLevels
                      THEN Below(l + 1, in[1] \o in[2]) ELSE <<>>,
     version |-> files_,
     smallest_snapshot |-> IF snapshots_ = {} THEN LastSequence
                           ELSE CHOOSE s \in snapshots_ : \A t \in snapshots_ : s <= t]
WithInputs1(l, inputs0, inputs1, manual) ==
    WithGrandparents(l, Widened(l, inputs0, inputs1,
                                GetOverlappingInputs(l, RangeOf(inputs0 \o inputs1))),
                     manual)
WithOtherInputs(l, inputs0, manual) ==
    WithInputs1(l, inputs0, Below(l, inputs0), manual)

LargestInput(fs) == LargestEntry(CHOOSE f \in Range(fs) : \A g \in Range(fs) :
                        f = g \/ Precedes(LargestEntry(g), LargestEntry(f)))

----------------------------------------------------------------------------
(* DoCompactionWork *)

(* IsBaseLevelForKey: no table below the output level may hold the key. *)
IsBaseLevelForKey(c, k) ==
    \A l \in c.level + 2 .. kNumLevels - 1 : \A f \in Range(c.version[l]) :
        ~(SmallestEntry(f).key <= k /\ k <= LargestEntry(f).key)

DropsHidden(c, e, last) ==                                  \* variant of Drops
    last <= LastSequence \/ (e.type = "deletion" /\ IsBaseLevelForKey(c, e.key))
(* An entry hidden from every snapshot by a newer one, and a deletion that *)
(* has nothing left to hide.  last is the sequence number of the previous  *)
(* entry of the same key.                                                  *)
Drops(c, e, last) ==
    \/ last <= c.smallest_snapshot
    \/ /\ e.type = "deletion" /\ e.seq <= c.smallest_snapshot
       /\ IsBaseLevelForKey(c, e.key)

(* ShouldStopBefore: the output is closed once it overlaps too many bytes  *)
(* of grandparents.                                                        *)
Passed(c, e) == Cardinality({i \in DOMAIN c.grandparents :
                                Precedes(LargestEntry(c.grandparents[i]), e)})
Overlapped(c, st, e) ==
    st.overlapped + IF st.seen
        THEN TotalFileSize(SubSeq(c.grandparents, st.passed + 1, Passed(c, e))) ELSE 0

Closed(outs, cur) == IF cur = {} THEN outs ELSE Append(outs, cur)

(* One round of the loop over the merged inputs. *)
MergeStep(c, st, e) ==
    LET over == Overlapped(c, st, e)
        stop == over > kMaxGrandParentOverlap
        outs == IF stop THEN Closed(st.outs, st.cur) ELSE st.outs
        cur  == IF stop THEN {} ELSE st.cur
        last == IF st.key = e.key THEN st.last ELSE MaxSequence
        new  == IF Drops(c, e, last) THEN cur ELSE cur \cup {e}
        full == new /= cur /\ Cardinality(new) >= kTargetFileSize
    IN [outs |-> IF full THEN Append(outs, new) ELSE outs,
        cur  |-> IF full THEN {} ELSE new,
        key  |-> e.key, last |-> e.seq, seen |-> TRUE, passed |-> Passed(c, e),
        overlapped |-> IF stop THEN 0 ELSE over]

Merged(entries) == InOrder(entries, Precedes)
MergedOutputs(c) ==
    LET merged == Merged(UNION {f.entries : f \in Range(c.inputs0 \o c.inputs1)})
        start  == [outs |-> <<>>, cur |-> {}, key |-> 0, last |-> 0,
                   seen |-> FALSE, passed |-> 0, overlapped |-> 0]
        after[n \in 0 .. Len(merged)] ==
            IF n = 0 THEN start ELSE MergeStep(c, after[n - 1], merged[n])
        end    == after[Len(merged)]
    IN Closed(end.outs, end.cur)

----------------------------------------------------------------------------
(* Clients *)

Uses(what) == left[what] > 0 /\ left' = [left EXCEPT ![what] = @ - 1]

(* A write, through the log and into the memtable (Write, MemTable::Add). *)
WriteEntry(k, t) ==
    /\ Uses("write")
    /\ written' = Append(written, [key |-> k, type |-> t])
    /\ mem_' = mem_ \cup {[key |-> k, seq |-> LastSequence + 1, type |-> t]}
    /\ UNCHANGED <<imm_, files_, file_to_compact_, compact_pointer_,
                   next_file_number_, snapshots_, compaction,
                   manual_compaction_, exposed>>

(* MakeRoomForWrite switches to a new memtable. *)
SwitchMemTable ==
    /\ mem_ /= {} /\ imm_ = {}
    /\ imm_' = mem_ /\ mem_' = {}
    /\ UNCHANGED <<files_, file_to_compact_, compact_pointer_,
                   next_file_number_, snapshots_, compaction,
                   manual_compaction_, written, exposed, left>>

GetSnapshot ==
    /\ Uses("snapshot")
    /\ LastSequence \notin snapshots_ /\ LastSequence > 0
    /\ snapshots_' = snapshots_ \cup {LastSequence}
    /\ UNCHANGED <<mem_, imm_, files_, file_to_compact_, compact_pointer_,
                   next_file_number_, compaction, manual_compaction_, written,
                   exposed>>

ReleaseSnapshot(s) ==
    /\ s \in snapshots_
    /\ snapshots_' = snapshots_ \ {s}
    /\ UNCHANGED <<mem_, imm_, files_, file_to_compact_, compact_pointer_,
                   next_file_number_, compaction, manual_compaction_, written,
                   exposed, left>>

(* UpdateStats remembers the first charged table of the current version. *)
UpdateStats(k) ==
    /\ Uses("seek")
    /\ file_to_compact_ = None
    /\ file_to_compact_' \in {Charged(k, LastSequence), ReadSample(k)} \ {None}
    /\ UNCHANGED <<mem_, imm_, files_, compact_pointer_, next_file_number_,
                   snapshots_, compaction, manual_compaction_, written,
                   exposed>>

(* TEST_CompactRange asks for a level to be compacted from lo to hi, and   *)
(* asks again, for what is left, until nothing is.                         *)
CompactRange(l, lo, hi) ==
    /\ Uses("manual")
    /\ manual_compaction_ = None
    /\ manual_compaction_' = [level |-> l, lo |-> lo, hi |-> hi, set |-> TRUE]
    /\ UNCHANGED <<mem_, imm_, files_, file_to_compact_, compact_pointer_,
                   next_file_number_, snapshots_, compaction, written,
                   exposed>>

CompactRangeAgain ==
    /\ manual_compaction_ /= None /\ ~manual_compaction_.set /\ compaction = None
    /\ manual_compaction_' = [manual_compaction_ EXCEPT !.set = TRUE]
    /\ UNCHANGED <<mem_, imm_, files_, file_to_compact_, compact_pointer_,
                   next_file_number_, snapshots_, compaction, written,
                   exposed, left>>

----------------------------------------------------------------------------
(* The background thread *)

IntoGap(l, f) == /\ compaction /= None /\ compaction.manual /\ l > compaction.level
                 /\ Meeting(<<f>>, RangeOf(compaction.inputs0 \o compaction.inputs1)) /= <<>>
SplitKey(fs) == \E l \in Levels \ {0} : \E i, j \in DOMAIN fs[l] :
    i < j /\ LargestEntry(fs[l][i]).key = SmallestEntry(fs[l][j]).key

(* CompactMemTable: between two compactions, or in the middle of one. *)
CompactMemTable ==
    /\ imm_ /= {}
    /\ \E f \in {[number |-> next_file_number_, entries |-> imm_]} :
       \E l \in {PickLevelForMemTableOutput(RangeOf(<<f>>))} :
          /\ Apply({}, {<<l, f>>})
          /\ exposed' = exposed \cup
                IF IntoGap(l, f) THEN {"flush into a gap"} ELSE {}
    /\ next_file_number_' = next_file_number_ + 1
    /\ imm_' = {}
    /\ UNCHANGED <<mem_, compact_pointer_, snapshots_, compaction,
                   manual_compaction_, written, left>>

Manual == manual_compaction_ /= None /\ manual_compaction_.set
Idle   == compaction = None /\ imm_ = {}

IsTrivialMove(c) == /\ Len(c.inputs0) = 1 /\ c.inputs1 = <<>>
                    /\ TotalFileSize(c.grandparents) <= kMaxGrandParentOverlap

(* BackgroundCompaction takes up a compaction; a table that overlaps       *)
(* nothing in the next level is moved there as it is.                      *)
StartCompaction ==
    /\ Idle /\ ~Manual /\ (SizeCompaction \/ file_to_compact_ /= None)
    /\ \E c \in {WithOtherInputs(Picked.level, Picked.inputs0, FALSE)} :
          /\ compact_pointer_' =
                [compact_pointer_ EXCEPT ![c.level] = LargestInput(c.inputs0)]
          /\ IF IsTrivialMove(c)
             THEN /\ Apply({<<c.level, c.inputs0[1].number>>},
                           {<<c.level + 1, c.inputs0[1]>>})
                  /\ UNCHANGED compaction
             ELSE /\ compaction' = c
                  /\ UNCHANGED <<files_, file_to_compact_>>
    /\ UNCHANGED <<mem_, imm_, next_file_number_, snapshots_,
                   manual_compaction_, written, exposed, left>>

StartManualCompaction ==
    /\ Idle /\ Manual /\ ManualInputs(manual_compaction_) /= <<>>
    /\ \E m \in {manual_compaction_} :
       \E c \in {WithOtherInputs(m.level, ManualInputs(m), TRUE)} :
          /\ compaction' = c
          /\ compact_pointer_' =
                [compact_pointer_ EXCEPT ![m.level] = LargestInput(c.inputs0)]
          /\ manual_compaction_' =
                [m EXCEPT !.lo = LargestEntry(Last(c.inputs0)).key, !.set = FALSE]
    /\ UNCHANGED <<mem_, imm_, files_, file_to_compact_, next_file_number_,
                   snapshots_, written, exposed, left>>

ManualCompactionDone ==
    /\ Idle /\ Manual /\ ManualInputs(manual_compaction_) = <<>>
    /\ manual_compaction_' = None
    /\ UNCHANGED <<mem_, imm_, files_, file_to_compact_, compact_pointer_,
                   next_file_number_, snapshots_, compaction, written,
                   exposed, left>>

(* InstallCompactionResults: the inputs go, the outputs come, in one edit. *)
InstallCompactionResults ==
    /\ compaction /= None
    /\ \E outs \in {MergedOutputs(compaction)} :
       LET c    == compaction
           del  == {<<c.level, f.number>> : f \in Range(c.inputs0)} \cup
                   {<<c.level + 1, f.number>> : f \in Range(c.inputs1)}
       IN /\ Apply(del, {<<c.level + 1,
                           [number |-> next_file_number_ + i, entries |-> outs[i]]>> :
                         i \in DOMAIN outs})
          /\ next_file_number_' = next_file_number_ + Len(outs) + 1
    /\ exposed' = exposed \cup IF SplitKey(files_') THEN {"key split"} ELSE {}
    /\ compaction' = None
    /\ UNCHANGED <<mem_, imm_, compact_pointer_, snapshots_,
                   manual_compaction_, written, left>>

LevelsNext ==
    \/ \E k \in Keys, t \in {"value", "deletion"} : WriteEntry(k, t)
    \/ SwitchMemTable \/ GetSnapshot
    \/ \E s \in snapshots_ : ReleaseSnapshot(s)
    \/ \E k \in Keys : UpdateStats(k)
    \/ \E l \in 0 .. kNumLevels - 2, lo, hi \in Keys : lo <= hi /\ CompactRange(l, lo, hi)
    \/ CompactRangeAgain \/ CompactMemTable \/ StartCompaction
    \/ StartManualCompaction \/ ManualCompactionDone \/ InstallCompactionResults

LevelsSpec == LevelsInit /\ [][LevelsNext]_levelVars

----------------------------------------------------------------------------
(* What a reader at s should see of k: the last write up to s. *)
Reference(k, s) == Answer(EntriesOf(written), k, s)
Readers == snapshots_ \cup {LastSequence}

(* The tables of every level below 0 are in order and do not overlap. *)
LevelsDisjoint == \A l \in Levels \ {0} : Disjoint(files_[l])

(* Below level 0 the tables of a level do not overlap ("Must not overlap", *)
(* Builder::MaybeAddFile; FindFile searches them by bisection), whatever   *)
(* order flushes, automatic and manual compactions come in, unless a       *)
(* memtable was flushed into the gap of a manual compaction.               *)
TablesDisjoint == "flush into a gap" \notin exposed => LevelsDisjoint

(* Get at the latest sequence number and at every live snapshot returns    *)
(* the last write up to it, or nothing if that was a deletion: compactions *)
(* drop nothing a reader needs and bring nothing back, unless a key was    *)
(* split or a memtable flushed into a gap.                                 *)
ReadsAreCurrent ==
    exposed = {} => \A k \in Keys, s \in Readers : DBGet(k, s) = Reference(k, s)

(* "entries never hop across levels.  Therefore ... if we find data in an  *)
(* smaller level, later levels are irrelevant" (Version::Get): a deeper    *)
(* level holds no newer entry of a key than a shallower one.               *)
LaterLevelsIrrelevant ==
    \A l, m \in Levels : l < m =>
        \A f \in Range(files_[l]), g \in Range(files_[m]) :
            \A d \in f.entries, e \in g.entries : d.key = e.key => d.seq > e.seq
=============================================================================
