------------------------------- MODULE DBImpl -------------------------------
(***************************************************************************)
(* leveldb's DBImpl (db/db_impl.cc): the queue of writers and their group  *)
(* commit, the switch of memtables and logs, the background thread that    *)
(* flushes and compacts with mutex_ released, the MANIFEST, the deletion   *)
(* of obsolete files, shutdown, and recovery after a crash.                *)
(*                                                                         *)
(* A write is identified by its caller w and carries one entry, <<seq, w>>.*)
(* Which level a table belongs to is kept only as "level 0 or deeper"; how *)
(* levels are searched and merged is the subject of VersionSet.  A step is *)
(* what a thread does between two points at which it releases mutex_.      *)
(*                                                                         *)
(* Durability: a crash keeps a prefix of every log and MANIFEST, at least  *)
(* what was synced; tables and CURRENT are synced before they are used;    *)
(* creations, renames and deletions of files are durable in their order.   *)
(***************************************************************************)
EXTENDS Integers, Sequences, FiniteSets, Functions

CONSTANTS
    Writers,            \* calls of Write, 1 .. n, each made at most once
    Kinds,              \* what each may be: "put", "sync" or "force"
    Stored,             \* {0}, {1} or {0, 1}: whether there is a table at first
    kWriteBuffer,       \* entries a memtable may hold before it is full
    kMaxGroup,          \* batches that one log record may hold
    kL0_CompactionTrigger, kL0_StopWritesTrigger,
    MaxEvents           \* bound: crashes, I/O errors, shutdowns and pinned versions

None == [none |-> TRUE]     \* NULL

ASSUME DBAssumption ==
    /\ Writers \subseteq Nat
    /\ Kinds \in [Writers -> SUBSET {"put", "sync", "force"}]
    /\ Stored \subseteq {0, 1}
    /\ kMaxGroup \in Nat \ {0}

VARIABLES
    current, manifests, logs, tables,   \* the directory: CURRENT, and the files by number
    status,             \* "down", "recovering", "manifest", "current", "open", "corrupt"
    call,               \* Writer: [kind, state, forced] by caller
    writers_, writing,  \* the queue; the group being logged, with mutex_ released
    mem_, imm_, logfile_number_,
    log_number_, next_file_number_, last_sequence_, manifest_file_number_,
    files_,             \* the current Version: [number, level]
    pinned,             \* the version a reader holds
    pending_outputs_, bg_compaction_scheduled_, bg_error_, shutting_down_,
    bg,                 \* where the background thread is: [pc, number, edit]
    compact,            \* CompactionState: [inputs, output], or None
    rec,                \* locals of Recover: [logs, read, add, max_sequence, ok]
    promised,           \* history: <<entry, synced>> of the writes acknowledged that no
                        \* crash and no error ignored in recovery may have taken away
    flaws,              \* history: "torn log", "torn manifest", "masked error"
    left                \* what the bounds still allow

disk   == <<current, manifests, logs, tables>>
queue  == <<call, writers_, writing>>
mems   == <<mem_, imm_, logfile_number_>>
vset   == <<log_number_, next_file_number_, last_sequence_,
            manifest_file_number_, files_>>
work   == <<pending_outputs_, bg_compaction_scheduled_, bg_error_,
            shutting_down_, bg, compact>>
vars   == <<disk, status, queue, mems, vset, pinned, work, rec, promised,
            flaws, left>>

Empty == [x \in {} |-> 0]
(* A directory in which file n has been written. *)
With(files, n, contents) ==
    [x \in DOMAIN files \cup {n} |-> IF x = n THEN contents ELSE files[x]]
Idle == [pc |-> "idle", number |-> 0, edit |-> None]

Edit(add, del, log, next, last) ==
    [add |-> add, del |-> del, log |-> log, next |-> next, last |-> last]
Table(n, l) == [number |-> n, level |-> l]

(* No process runs; what the constructor sets. *)
Init ==
    /\ writers_ = <<>> /\ writing = None
    /\ mem_ = {} /\ imm_ = None /\ logfile_number_ = 0
    /\ log_number_ = 0 /\ next_file_number_ = 2 /\ last_sequence_ = 0
    /\ manifest_file_number_ = 0 /\ files_ = {} /\ pinned = None
    /\ pending_outputs_ = {} /\ bg_compaction_scheduled_ = FALSE
    /\ bg_error_ = FALSE /\ shutting_down_ = FALSE
    /\ bg = Idle /\ compact = None /\ rec = None
    /\ logs = Empty
    /\ \E n \in Stored :          \* a new database, or one that holds a table
          /\ current = n
          /\ tables = IF n = 0 THEN Empty ELSE With(Empty, 2, {<<1, 0>>})
          /\ manifests = IF n = 0 THEN Empty ELSE
                With(Empty, 1, [records |-> <<Edit({Table(2, 0)}, {}, 0, 3, 1)>>, synced |-> 1])
    /\ status = "down"
    /\ call = [w \in Writers |-> [kind |-> "put", state |-> "new", forced |-> FALSE]]
    /\ promised = {} /\ flaws = {}
    /\ left = MaxEvents

Event == left > 0 /\ left' = left - 1

----------------------------------------------------------------------------
(* VersionSet: edits, and what a MANIFEST says *)

Numbers(fs) == {f.number : f \in fs}

MaxOf(S) == CHOOSE x \in S : \A y \in S : y <= x
MinOf(S) == CHOOSE x \in S : \A y \in S : x <= y

(* Builder: the files after an edit; WriteSnapshot's edit has no counters. *)
Apply(fs, e) == (fs \ e.del) \cup e.add
Snapshot(fs) == Edit(fs, {}, 0, 0, 0)

(* VersionSet::Recover over the first k records: a file is in the version  *)
(* if an edit adds it and no later one deletes it, and the counters are    *)
(* those of the last edit that has them.  None is a record of which only a *)
(* part is there.                                                          *)
FilesAt(edits, k) ==
    UNION {{f \in edits[i].add : \A j \in i + 1 .. k : edits[j] /= None => f \notin edits[j].del} :
           i \in {h \in 1 .. k : edits[h] /= None}}
CountedAt(edits, k) == {i \in 1 .. k : edits[i] /= None /\ edits[i].next /= 0}
Replay(edits, k) ==
    LET c == CountedAt(edits, k)
        e == edits[MaxOf(c)]
    IN [files |-> FilesAt(edits, k),
        log   |-> IF c = {} THEN 0 ELSE e.log,
        next  |-> IF c = {} THEN 0 ELSE e.next,
        last  |-> IF c = {} THEN 0 ELSE e.last]

Level0 == {f \in files_ : f.level = 0}
NeedsCompaction(fs) ==
    Cardinality({f \in fs : f.level = 0}) >= kL0_CompactionTrigger

(* DeleteObsoleteFiles: nothing goes after a background error.  fs are the *)
(* files of the current version, log and pending the values after the step.*)
KeepsNewestLog(n, log) == n >= logfile_number_          \* variant of KeepsLog
KeepsLog(n, log) == n >= log
OnlyVersions(fs, pending, pin) == Numbers(fs) \cup pin  \* variant of LiveTables
LiveTables(fs, pending, pin) == Numbers(fs) \cup pending \cup pin
PinnedFiles == IF pinned = None THEN {} ELSE pinned.files
Restricted(f, S) == [x \in DOMAIN f \cap S |-> f[x]]
DeleteObsoleteFiles(fs, log, pending) ==
    IF bg_error_ THEN UNCHANGED disk
    ELSE /\ logs' = Restricted(logs, {n \in DOMAIN logs : KeepsLog(n, log)})
         /\ manifests' = Restricted(manifests,
                {n \in DOMAIN manifests : n >= manifest_file_number_})
         /\ tables' = Restricted(tables, LiveTables(fs, pending, PinnedFiles))
         /\ UNCHANGED current

(* MaybeScheduleCompaction, given the values after the step. *)
CompactionsOnly(imm, fs, err) ==                        \* variant of Schedule
    ~shutting_down_ /\ ~err /\ NeedsCompaction(fs)
Schedule(imm, fs, err) ==
    ~shutting_down_ /\ ~err /\ (imm /= None \/ NeedsCompaction(fs))

----------------------------------------------------------------------------
(* Write *)

(* A caller queues its batch: "put", "sync" (WriteOptions::sync), or       *)
(* "force" (the NULL batch of TEST_CompactMemTable).  Callers are numbered *)
(* in the order they come.                                                 *)
Enqueue(w, kind) ==
    /\ status = "open" /\ ~shutting_down_ /\ call[w].state = "new"
    /\ \A v \in 1 .. w - 1 : call[v].state /= "new"
    /\ call' = [call EXCEPT ![w] = [kind |-> kind, state |-> "queued", forced |-> FALSE]]
    /\ writers_' = Append(writers_, w)
    /\ UNCHANGED <<disk, status, writing, mems, vset, pinned, work, rec,
                   promised, flaws, left>>

FrontWriter == Head(writers_)
AtFront == status = "open" /\ writers_ /= <<>> /\ writing = None
MustForce == call[FrontWriter].kind = "force" /\ ~call[FrontWriter].forced

(* The writers at the head of the queue return with this result; a NULL    *)
(* batch that succeeded goes on to wait in TEST_CompactMemTable.           *)
Result(w, result) == IF result = "ok" /\ call[w].kind = "force" THEN "waiting" ELSE result
Return(n, result) ==
    /\ call' = [w \in Writers |->
                   IF w \in Range(SubSeq(writers_, 1, n))
                   THEN [call[w] EXCEPT !.state = Result(w, result)] ELSE call[w]]
    /\ writers_' = SubSeq(writers_, n + 1, Len(writers_))

HasRoom == ~bg_error_ /\ ~MustForce /\ Cardinality(mem_) <= kWriteBuffer
MustSwitch == /\ ~bg_error_ /\ ~HasRoom /\ imm_ = None
              /\ Cardinality(Level0) < kL0_StopWritesTrigger

(* MakeRoomForWrite fails: there is a background error, or the new log     *)
(* cannot be created.                                                      *)
WriteFails ==
    /\ AtFront
    /\ \/ bg_error_ /\ UNCHANGED left
       \/ MustSwitch /\ Event
    /\ Return(1, "failed")
    /\ UNCHANGED <<disk, status, writing, mems, vset, pinned, work, rec,
                   promised, flaws>>

(* MakeRoomForWrite switches to a new log and memtable.  While there is an *)
(* imm_ or too many level-0 files it waits; the 1ms delay in front of that *)
(* releases mutex_ and changes nothing.                                    *)
SwitchMemTable ==
    /\ AtFront /\ MustSwitch
    /\ logs' = With(logs, next_file_number_, [records |-> <<>>, synced |-> 0])
    /\ logfile_number_' = next_file_number_
    /\ next_file_number_' = next_file_number_ + 1
    /\ imm_' = [entries |-> mem_] /\ mem_' = {}
    /\ call' = [call EXCEPT ![FrontWriter].forced = TRUE]
    /\ bg_compaction_scheduled_' =
          (bg_compaction_scheduled_ \/ Schedule(imm_', files_, bg_error_))
    /\ UNCHANGED <<current, manifests, tables, status, writers_, writing,
                   log_number_, last_sequence_, manifest_file_number_, files_,
                   pinned, pending_outputs_, bg_error_, shutting_down_, bg,
                   compact, rec, promised, flaws, left>>

(* A NULL batch is through once there is room again. *)
ForceReturns ==
    /\ AtFront /\ HasRoom /\ call[FrontWriter].kind = "force"
    /\ Return(1, "ok")
    /\ UNCHANGED <<disk, status, writing, mems, vset, pinned, work, rec,
                   promised, flaws, left>>

(* TEST_CompactMemTable returns when the immutable memtable is gone, or    *)
(* never will be.                                                          *)
ForceDone ==
    /\ status = "open" /\ (imm_ = None \/ bg_error_)
    /\ \E w \in Writers :
          /\ call[w].state = "waiting"
          /\ call' = [call EXCEPT ![w].state = IF imm_ = None THEN "ok" ELSE "failed"]
    /\ UNCHANGED <<disk, status, writers_, writing, mems, vset, pinned, work,
                   rec, promised, flaws, left>>

(* BuildBatchGroup: the head and those behind it, up to a sync write that  *)
(* would be handled by one that is not, and up to the size limit.  A NULL  *)
(* batch in the middle is taken along.  Batches are their positions.       *)
Batches(n) == {i \in 1 .. n : call[writers_[i]].kind /= "force"}
GroupOf(n) ==
    /\ Cardinality(Batches(n)) <= kMaxGroup
    /\ \A i \in 2 .. n : call[writers_[i]].kind = "sync" => call[FrontWriter].kind = "sync"
GroupSize == CHOOSE n \in 1 .. Len(writers_) :
    GroupOf(n) /\ \A m \in n + 1 .. Len(writers_) : ~GroupOf(m)

BeginGroup ==
    /\ AtFront /\ HasRoom /\ call[FrontWriter].kind /= "force"
    /\ writing' = [size |-> GroupSize, result |-> "unlogged",
                   entries |-> {<<last_sequence_ + Cardinality(Batches(i)), writers_[i]>> :
                                i \in Batches(GroupSize)}]
    /\ UNCHANGED <<disk, status, call, writers_, mems, vset, pinned, work, rec,
                   promised, flaws, left>>

Append1(log, ok) == [log EXCEPT !.records = Append(@, [entries |-> writing.entries, ok |-> ok])]
Synced(log) == [log EXCEPT !.synced = Len(log.records)]

(* With mutex_ released: AddRecord, Sync, InsertInto.  An AddRecord that   *)
(* fails leaves part or all of its record in the log.                      *)
LogGroup ==
    /\ writing /= None /\ writing.result = "unlogged"
    /\ LET log  == logs[logfile_number_]
           sync == call[FrontWriter].kind = "sync"
       IN \/ /\ logs' = [logs EXCEPT ![logfile_number_] =
                            IF sync THEN Synced(Append1(log, TRUE)) ELSE Append1(log, TRUE)]
             /\ mem_' = mem_ \cup writing.entries
             /\ writing' = [writing EXCEPT !.result = "ok"]
             /\ UNCHANGED <<left, flaws>>
          \/ /\ Event
             /\ logs' = [logs EXCEPT ![logfile_number_] = Append1(log, FALSE)]
             /\ writing' = [writing EXCEPT !.result = "failed"]
             /\ flaws' = flaws \cup {"torn log"}
             /\ UNCHANGED mem_
          \/ /\ sync /\ Event
             /\ logs' = [logs EXCEPT ![logfile_number_] = Append1(log, TRUE)]
             /\ writing' = [writing EXCEPT !.result = "sync error"]
             /\ UNCHANGED <<mem_, flaws>>
    /\ UNCHANGED <<current, manifests, tables, status, call, writers_, imm_,
                   logfile_number_, vset, pinned, work, rec, promised>>

(* With mutex_ held again: last_sequence_ moves whatever the result was.   *)
SequenceAfterOk ==                                     \* variant of SequenceAfter
    IF writing.result = "ok" THEN last_sequence_ + Cardinality(writing.entries)
    ELSE last_sequence_
SequenceAfter == last_sequence_ + Cardinality(writing.entries)
FinishGroup ==
    /\ writing /= None /\ writing.result /= "unlogged"
    /\ bg_error_' = (bg_error_ \/ writing.result = "sync error")
    /\ last_sequence_' = SequenceAfter
    /\ Return(writing.size, IF writing.result = "ok" THEN "ok" ELSE "failed")
    /\ promised' = promised \cup
          IF writing.result = "ok"
          THEN {<<e, call[e[2]].kind = "sync">> : e \in writing.entries} ELSE {}
    /\ writing' = None
    /\ UNCHANGED <<disk, status, mems, log_number_, next_file_number_,
                   manifest_file_number_, files_, pinned, pending_outputs_,
                   bg_compaction_scheduled_, shutting_down_, bg, compact, rec,
                   flaws, left>>

----------------------------------------------------------------------------
(* Readers pin the current version with mutex_ held and read without it. *)

Ref ==
    /\ status = "open" /\ pinned = None /\ Event
    /\ pinned' = [files |-> Numbers(files_)]
    /\ UNCHANGED <<disk, status, queue, mems, vset, work, rec, promised, flaws>>

Unref ==
    /\ pinned /= None /\ pinned' = None
    /\ UNCHANGED <<disk, status, queue, mems, vset, work, rec, promised,
                   flaws, left>>

----------------------------------------------------------------------------
(* The background thread *)

(* LogAndApply is called with what the edit adds and deletes: the counters *)
(* are read before mutex_ is released.                                     *)
ApplyEdit(add, del, log) == Edit(add, del, log, next_file_number_, last_sequence_)

(* BackgroundCall ends and may schedule the next one. *)
EndCall(imm, fs, err) ==
    /\ bg' = Idle
    /\ bg_compaction_scheduled_' = Schedule(imm, fs, err)

Running == status = "open" /\ bg_compaction_scheduled_

(* BackgroundCall with nothing to do, after an error or in a shutdown. *)
NothingToDo ==
    /\ Running /\ bg.pc = "idle"
    /\ shutting_down_ \/ bg_error_ \/ (imm_ = None /\ ~NeedsCompaction(files_))
    /\ EndCall(imm_, files_, bg_error_)
    /\ UNCHANGED <<disk, status, queue, mems, vset, pinned, pending_outputs_,
                   bg_error_, shutting_down_, compact, rec, promised, flaws, left>>

(* CompactMemTable, at the start of a call or in the middle of a merge:    *)
(* WriteLevel0Table takes a file number and releases mutex_.               *)
StartFlush ==
    /\ Running /\ imm_ /= None
    /\ \/ bg.pc = "idle" /\ ~shutting_down_ /\ ~bg_error_
       \/ bg.pc = "merge" /\ ~shutting_down_
    /\ bg' = [pc |-> "build", number |-> next_file_number_, edit |-> None]
    /\ pending_outputs_' = pending_outputs_ \cup {next_file_number_}
    /\ next_file_number_' = next_file_number_ + 1
    /\ UNCHANGED <<disk, status, queue, mems, log_number_, last_sequence_,
                   manifest_file_number_, files_, pinned,
                   bg_compaction_scheduled_, bg_error_, shutting_down_,
                   compact, rec, promised, flaws, left>>

(* What follows a flush: the merge it interrupted, or the end of the call. *)
AfterFlush(imm, fs, err) ==
    IF compact = None THEN EndCall(imm, fs, err)
    ELSE /\ bg' = [pc |-> "merge", number |-> 0, edit |-> None]
         /\ UNCHANGED bg_compaction_scheduled_

(* BuildTable, then WriteLevel0Table with mutex_ held: an empty memtable   *)
(* gives no table.  The flush commits to the log that is current now.      *)
FlushLog == logfile_number_
FlushBuilt ==
    /\ bg.pc = "build" /\ ~shutting_down_
    /\ LET n == bg.number
           empty == imm_.entries = {}
       IN /\ tables' = IF empty THEN tables ELSE With(tables, n, imm_.entries)
          /\ \E l \in {0, 1} :
                bg' = [pc |-> "flush", number |-> n,
                       edit |-> ApplyEdit(IF empty THEN {} ELSE {Table(n, l)}, {}, FlushLog)]
    /\ pending_outputs_' = pending_outputs_ \ {bg.number}
    /\ UNCHANGED <<current, manifests, logs, status, queue, mems, vset, pinned,
                   bg_compaction_scheduled_, bg_error_, shutting_down_,
                   compact, rec, promised, flaws, left>>

(* BuildTable fails and removes its file, or the database is closing. *)
FlushFails ==
    /\ bg.pc = "build"
    /\ \/ Event /\ UNCHANGED tables
       \/ /\ shutting_down_ /\ UNCHANGED left
          /\ tables' = IF imm_.entries = {} THEN tables
                       ELSE With(tables, bg.number, imm_.entries)
    /\ pending_outputs_' = pending_outputs_ \ {bg.number}
    /\ bg_error_' = TRUE
    /\ AfterFlush(imm_, files_, TRUE)
    /\ UNCHANGED <<current, manifests, logs, status, queue, mems, vset, pinned,
                   shutting_down_, compact, rec, promised, flaws>>

(* LogAndApply with mutex_ released: the edit is appended to the MANIFEST  *)
(* and synced, or one of the two fails.  None is a record of which only a  *)
(* part got into the file; a record behind one may be unreadable.          *)
ManifestRecord ==
    /\ bg.pc \in {"flush", "apply"} /\ bg.edit /= None
    /\ LET m == manifests[manifest_file_number_]
           appended == [m EXCEPT !.records = Append(@, bg.edit)]
       IN /\ flaws' = flaws \cup IF None \in Range(m.records) THEN {"torn manifest"} ELSE {}
          /\ \/ /\ manifests' = [manifests EXCEPT ![manifest_file_number_] = Synced(appended)]
                /\ bg' = [bg EXCEPT !.pc = IF @ = "flush" THEN "flushed" ELSE "applied"]
                /\ UNCHANGED left
             \/ /\ Event
                /\ \E r \in {None, bg.edit} : manifests' =
                      [manifests EXCEPT ![manifest_file_number_].records = Append(@, r)]
                /\ bg' = [bg EXCEPT !.edit = None]
    /\ UNCHANGED <<current, logs, tables, status, queue, mems, vset, pinned,
                   pending_outputs_, bg_compaction_scheduled_, bg_error_,
                   shutting_down_, compact, rec, promised>>

(* The new version is installed; CompactMemTable lets go of imm_ and       *)
(* deletes what is obsolete.                                               *)
FlushInstalled ==
    /\ bg.pc = "flushed"
    /\ files_' = Apply(files_, bg.edit) /\ log_number_' = bg.edit.log
    /\ imm_' = None
    /\ DeleteObsoleteFiles(files_', log_number_', pending_outputs_)
    /\ AfterFlush(None, files_', bg_error_)
    /\ UNCHANGED <<status, queue, mem_, logfile_number_, next_file_number_,
                   last_sequence_, manifest_file_number_, pinned,
                   pending_outputs_, bg_error_, shutting_down_, compact, rec,
                   promised, flaws, left>>

FlushNotInstalled ==
    /\ bg.pc = "flush" /\ bg.edit = None
    /\ bg_error_' = TRUE
    /\ AfterFlush(imm_, files_, TRUE)
    /\ UNCHANGED <<disk, status, queue, mems, vset, pinned, pending_outputs_,
                   shutting_down_, compact, rec, promised, flaws, left>>

(* BackgroundCompaction of level 0 with the level below.  All tables       *)
(* overlap here; the move of one that overlaps nothing is in VersionSet.   *)
StartCompaction ==
    /\ Running /\ bg.pc = "idle" /\ ~shutting_down_ /\ ~bg_error_
    /\ imm_ = None /\ NeedsCompaction(files_)
    /\ bg' = [pc |-> "merge", number |-> 0, edit |-> None]
    /\ compact' = [inputs |-> files_, output |-> 0]
    /\ UNCHANGED <<disk, status, queue, mems, vset, pinned, pending_outputs_,
                   bg_compaction_scheduled_, bg_error_, shutting_down_, rec,
                   promised, flaws, left>>

(* OpenCompactionOutputFile: the file is in the directory from now on.     *)
OpenCompactionOutputFile ==
    /\ bg.pc = "merge" /\ compact.output = 0 /\ ~shutting_down_
    /\ compact' = [compact EXCEPT !.output = next_file_number_]
    /\ pending_outputs_' = pending_outputs_ \cup {next_file_number_}
    /\ tables' = With(tables, next_file_number_, {})
    /\ next_file_number_' = next_file_number_ + 1
    /\ UNCHANGED <<current, manifests, logs, status, queue, mems, log_number_,
                   last_sequence_, manifest_file_number_, files_, pinned,
                   bg_compaction_scheduled_, bg_error_, shutting_down_, bg,
                   rec, promised, flaws, left>>

(* The merge is done: FinishCompactionOutputFile, InstallCompactionResults.*)
MergeDone ==
    /\ bg.pc = "merge" /\ compact.output /= 0 /\ ~shutting_down_
    /\ tables' = [tables EXCEPT ![compact.output] =
                     UNION {tables[n] : n \in Numbers(compact.inputs)}]
    /\ bg' = [pc |-> "apply", number |-> 0,
              edit |-> ApplyEdit({Table(compact.output, 1)}, compact.inputs, log_number_)]
    /\ UNCHANGED <<current, manifests, logs, status, queue, mems, vset, pinned,
                   pending_outputs_, bg_compaction_scheduled_, bg_error_,
                   shutting_down_, compact, rec, promised, flaws, left>>

(* CleanupCompaction and DeleteObsoleteFiles at the end of the call. *)
Pending == pending_outputs_ \ {compact.output}
CompactionInstalled ==
    /\ bg.pc = "applied"
    /\ files_' = Apply(files_, bg.edit) /\ log_number_' = bg.edit.log
    /\ pending_outputs_' = Pending /\ compact' = None
    /\ DeleteObsoleteFiles(files_', log_number_', pending_outputs_')
    /\ EndCall(imm_, files_', bg_error_)
    /\ UNCHANGED <<status, queue, mems, next_file_number_, last_sequence_,
                   manifest_file_number_, pinned, bg_error_, shutting_down_,
                   rec, promised, flaws, left>>

(* The merge meets an I/O error or the shutdown, or the MANIFEST failed.   *)
CompactionFails ==
    /\ \/ bg.pc = "merge" /\ Event
       \/ bg.pc = "merge" /\ shutting_down_ /\ UNCHANGED left
       \/ bg.pc = "apply" /\ bg.edit = None /\ UNCHANGED left
    /\ bg_error_' = TRUE
    /\ pending_outputs_' = Pending /\ compact' = None
    /\ EndCall(imm_, files_, TRUE)
    /\ UNCHANGED <<disk, status, queue, mems, vset, pinned, shutting_down_, rec,
                   promised, flaws>>

----------------------------------------------------------------------------
(* The end of the process *)

(* ~DBImpl: no call may be in progress.  It waits for the background call  *)
(* and lets go of everything.                                              *)
Busy(w) == call[w].state \in {"queued", "waiting"}
ShutDown ==
    /\ status = "open" /\ ~shutting_down_ /\ pinned = None
    /\ \A w \in Writers : ~Busy(w)
    /\ Event
    /\ shutting_down_' = TRUE
    /\ UNCHANGED <<disk, status, queue, mems, vset, pinned, pending_outputs_,
                   bg_compaction_scheduled_, bg_error_, bg, compact, rec,
                   promised, flaws>>

Gone ==
    /\ status' = "down" /\ writers_' = <<>> /\ writing' = None
    /\ mem_' = {} /\ imm_' = None /\ logfile_number_' = 0
    /\ log_number_' = 0 /\ next_file_number_' = 2 /\ last_sequence_' = 0
    /\ manifest_file_number_' = 0 /\ files_' = {} /\ pinned' = None
    /\ pending_outputs_' = {} /\ bg_compaction_scheduled_' = FALSE
    /\ bg_error_' = FALSE /\ shutting_down_' = FALSE
    /\ bg' = Idle /\ compact' = None /\ rec' = None

Destroyed ==
    /\ shutting_down_ /\ ~bg_compaction_scheduled_
    /\ Gone
    /\ UNCHANGED <<disk, call, promised, flaws, left>>

(* The machine stops: logs and MANIFESTs keep a prefix. *)
Survivors(f) ==
    {[n \in DOMAIN f |-> [records |-> SubSeq(f[n].records, 1, k[n]), synced |-> k[n]]] :
        k \in {h \in [DOMAIN f -> UNION {f[n].synced .. Len(f[n].records) : n \in DOMAIN f}] :
                  \A n \in DOMAIN f : f[n].synced <= h[n] /\ h[n] <= Len(f[n].records)}}
Crash ==
    /\ status /= "corrupt" /\ Event
    /\ logs' \in Survivors(logs) /\ manifests' \in Survivors(manifests)
    /\ call' = [w \in Writers |-> IF Busy(w) THEN [call[w] EXCEPT !.state = "lost"]
                                   ELSE call[w]]
    /\ promised' = {p \in promised : p[2]}
    /\ Gone
    /\ UNCHANGED <<current, tables, flaws>>

----------------------------------------------------------------------------
(* DB::Open *)

(* NewDB: MANIFEST-1 is written and closed but not synced. *)
NewDB ==
    /\ status = "down" /\ current = 0
    /\ \/ /\ manifests' = With(manifests, 1, [records |-> <<Edit({}, {}, 0, 2, 0)>>,
                                             synced  |-> 0])
          /\ current' = 1 /\ UNCHANGED left
       \/ Event /\ UNCHANGED <<manifests, current>>
    /\ UNCHANGED <<logs, tables, status, queue, mems, vset, pinned, work, rec,
                   promised, flaws>>

(* VersionSet::Recover reads CURRENT and the MANIFEST; DBImpl::Recover     *)
(* checks that the files are there and finds the logs to replay.           *)
Unreadable(edits) ==
    \/ Replay(edits, Len(edits)).next = 0
    \/ \E i \in 1 .. Len(edits) - 1 : edits[i] = None
Recover ==
    /\ status = "down" /\ current /= 0
    /\ LET edits == manifests[current].records
           v     == Replay(edits, Len(edits))
           newer == {n \in DOMAIN logs : n >= v.log}
       IN IF Unreadable(edits) \/ ~(Numbers(v.files) \subseteq DOMAIN tables \cup DOMAIN logs)
          THEN status' = "corrupt" /\ UNCHANGED <<vset, rec>>
          ELSE /\ status' = "recovering"
               /\ files_' = v.files /\ log_number_' = v.log
               /\ last_sequence_' = v.last
               /\ manifest_file_number_' = v.next
               /\ next_file_number_' = v.next + 1
               /\ rec' = [logs |-> newer, read |-> 0, add |-> {},
                          max_sequence |-> 0, ok |-> TRUE]
    /\ UNCHANGED <<disk, queue, mems, pinned, work, promised, flaws, left>>

(* The records the log reader may still return of a log of which it has    *)
(* read the first k: all, but behind one that was written in part only     *)
(* some.                                                                   *)
ReadableIn(log, k) ==
    LET bad == {i \in DOMAIN log.records : ~log.records[i].ok}
        sure == {i \in DOMAIN log.records : \A b \in bad : i < b}
    IN {{i \in sure \cup some : i > k} : some \in SUBSET (DOMAIN log.records \ sure)}

(* RecoverLogFile takes the logs in the order of their numbers and reads   *)
(* the records from rec.read on into a memtable: those up to k.            *)
ThisLog == MinOf(rec.logs)
UpTo(is, k) == {i \in is : i <= k}
Found(n, is) == UNION {logs[n].records[i].entries : i \in is}
Seen(found) == MaxOf({rec.max_sequence} \cup {e[1] : e \in found})
MarkFileNumberUsed(next, n) == IF next <= n THEN n + 1 ELSE next
Recovering == status = "recovering" /\ rec.logs /= {}

(* WriteLevel0Table takes the next number for the table of what was read.  *)
(* When it fails, or at the end, the log is done with.                     *)
Tabled(found, r) ==
    /\ tables' = With(tables, next_file_number_, found)
    /\ rec' = [r EXCEPT !.add = @ \cup {Table(next_file_number_, 0)}, !.max_sequence = Seen(found)]
LogDone(ok) == [rec EXCEPT !.logs = @ \ {ThisLog}, !.read = 0, !.ok = ok]

(* In the middle of a log: record k makes the memtable too large, and it   *)
(* goes to a table of its own.                                             *)
RecoverTable ==
    /\ Recovering
    /\ \E is \in ReadableIn(logs[ThisLog], rec.read) : \E k \in is :
          LET found == Found(ThisLog, UpTo(is, k))
          IN /\ Cardinality(found) > kWriteBuffer
             /\ Cardinality(Found(ThisLog, UpTo(is, k - 1))) <= kWriteBuffer
             /\ \/ /\ Tabled(found, [rec EXCEPT !.read = k])
                   /\ next_file_number_' = next_file_number_ + 1
                   /\ UNCHANGED left
                \/ /\ Event
                   /\ rec' = [LogDone(FALSE) EXCEPT !.max_sequence = Seen(found)]
                   /\ next_file_number_' = MarkFileNumberUsed(next_file_number_ + 1, ThisLog)
                   /\ UNCHANGED tables
    /\ UNCHANGED <<current, manifests, logs, status, queue, mems, log_number_,
                   last_sequence_, manifest_file_number_, files_, pinned, work,
                   promised, flaws>>

(* The end of a log: what the memtable holds goes to a last table.  A log  *)
(* that cannot be opened, or read on behind some record, ends there and no *)
(* error is returned: MaybeIgnoreError and a reporter without a status     *)
(* ignore it (paranoid_checks is off), and what was not read is lost with  *)
(* the log.  The loop in Recover keeps the result of the last log only.    *)
RecoverLogFile ==
    /\ Recovering
    /\ \E is \in ReadableIn(logs[ThisLog], rec.read) : \E k \in is \cup {rec.read} :
          LET found  == Found(ThisLog, UpTo(is, k))
              unread == is \ UpTo(is, k)
              errors == IF unread = {} THEN 0 ELSE 1
          IN /\ Cardinality(found) <= kWriteBuffer
             /\ promised' = {p \in promised : p[1] \notin Found(ThisLog, unread)}
             /\ \/ /\ IF found = {} THEN rec' = LogDone(TRUE) /\ UNCHANGED tables
                      ELSE Tabled(found, LogDone(TRUE))
                   /\ flaws' = flaws \cup IF rec.ok THEN {} ELSE {"masked error"}
                   /\ left >= errors /\ left' = left - errors
                \/ /\ found /= {} /\ left > errors /\ left' = left - errors - 1
                   /\ rec' = [LogDone(FALSE) EXCEPT !.max_sequence = Seen(found)]
                   /\ UNCHANGED <<tables, flaws>>
             /\ next_file_number_' = MarkFileNumberUsed(
                   IF found = {} THEN next_file_number_ ELSE next_file_number_ + 1, ThisLog)
    /\ UNCHANGED <<current, manifests, logs, status, queue, mems, log_number_,
                   last_sequence_, manifest_file_number_, files_, pinned, work>>

(* A new log, and LogAndApply with a new MANIFEST: a snapshot of the old   *)
(* version and the edit, synced before CURRENT is made to point to it.     *)
NewLogAndManifest ==
    /\ status = "recovering" /\ rec.logs = {} /\ rec.ok
    /\ logfile_number_' = next_file_number_
    /\ next_file_number_' = next_file_number_ + 1
    /\ last_sequence_' = MaxOf({last_sequence_, rec.max_sequence})
    /\ logs' = With(logs, logfile_number_', [records |-> <<>>, synced |-> 0])
    /\ LET edits == <<Snapshot(files_),
                      Edit(rec.add, {}, logfile_number_', next_file_number_', last_sequence_')>>
       IN manifests' = With(manifests, manifest_file_number_, [records |-> edits, synced |-> 2])
    /\ status' = "manifest"
    /\ UNCHANGED <<current, tables, queue, mem_, imm_, log_number_,
                   manifest_file_number_, files_, pinned, work, rec, promised,
                   flaws, left>>

SetCurrentFile ==
    /\ status = "manifest" /\ status' = "current"
    /\ current' = manifest_file_number_
    /\ UNCHANGED <<manifests, logs, tables, queue, mems, vset, pinned, work,
                   rec, promised, flaws, left>>

OpenDone ==
    /\ status = "current" /\ status' = "open"
    /\ files_' = files_ \cup rec.add
    /\ log_number_' = logfile_number_
    /\ DeleteObsoleteFiles(files_', log_number_', {})
    /\ bg_compaction_scheduled_' = Schedule(None, files_', FALSE)
    /\ rec' = None
    /\ UNCHANGED <<queue, mems, next_file_number_, last_sequence_,
                   manifest_file_number_, pinned, pending_outputs_, bg_error_,
                   shutting_down_, bg, compact, promised, flaws, left>>

(* Open returns an error; a MANIFEST that was not installed is deleted. *)
OpenFails ==
    /\ \/ /\ status = "recovering" /\ rec.logs = {} /\ ~rec.ok
          /\ UNCHANGED <<manifests, left>>
       \/ /\ status = "recovering" /\ rec.logs = {} /\ rec.ok /\ Event
          /\ UNCHANGED manifests
       \/ /\ status = "manifest" /\ Event
          /\ manifests' = Restricted(manifests, DOMAIN manifests \ {manifest_file_number_})
    /\ Gone
    /\ UNCHANGED <<current, logs, tables, call, promised, flaws>>

----------------------------------------------------------------------------
Flushing == StartFlush \/ FlushBuilt \/ FlushFails \/ FlushInstalled \/ FlushNotInstalled
Compacting == \/ StartCompaction \/ OpenCompactionOutputFile \/ MergeDone
              \/ CompactionInstalled \/ CompactionFails
Background == NothingToDo \/ Flushing \/ ManifestRecord \/ Compacting
Writing == \/ WriteFails \/ SwitchMemTable \/ BeginGroup \/ LogGroup \/ FinishGroup
           \/ ForceReturns \/ ForceDone
Opening == \/ NewDB \/ Recover \/ RecoverTable \/ RecoverLogFile
           \/ NewLogAndManifest \/ SetCurrentFile \/ OpenDone \/ OpenFails

Next ==
    \/ \E w \in Writers : \E k \in Kinds[w] : Enqueue(w, k)
    \/ Writing \/ Ref \/ Unref \/ Background \/ ShutDown \/ Destroyed \/ Crash
    \/ Opening

(* The threads run: the writer at the front, the background thread, the    *)
(* destructor.                                                             *)
Fairness == WF_vars(Writing) /\ WF_vars(Background) /\ WF_vars(Destroyed)

Spec == Init /\ [][Next]_vars /\ Fairness

----------------------------------------------------------------------------
Contents == mem_ \cup (IF imm_ = None THEN {} ELSE imm_.entries)
                 \cup UNION {tables[n] : n \in Numbers(files_) \cap DOMAIN tables}

(* An acknowledged write is there as long as the process lives, and a      *)
(* synced one after any number of crashes, at any step of a flush, of a    *)
(* compaction or of an earlier recovery; a database that acknowledged a    *)
(* write can be opened again.  Of the I/O errors only these may take       *)
(* anything away: an error of opening or reading a log takes the writes of *)
(* the records behind it, which recovery never saw, and nothing else (they *)
(* leave promised); and nothing is said once a flaw occurred, a log or     *)
(* MANIFEST append that failed half way and was written behind, or an      *)
(* error in recovery that a later log masked.                              *)
AcknowledgedWritesSurvive ==
    flaws = {} =>
       /\ status = "open" => \A p \in promised : p[1] \in Contents
       /\ status = "corrupt" => \A w \in Writers : call[w].state /= "ok"

(* DeleteObsoleteFiles deletes no table of the current version, of a       *)
(* version a reader pinned, or that a compaction is writing or reading.    *)
NothingInUseIsDeleted ==
    status = "open" =>
       /\ Numbers(files_) \cup PinnedFiles \subseteq DOMAIN tables
       /\ (compact /= None /\ compact.output /= 0) => compact.output \in DOMAIN tables

(* No sequence number is given to two writes, whatever failed or was lost  *)
(* in between, and none is visible before its group is committed.          *)
SequenceNumbersUnique ==
    status = "open" =>
       /\ \A d, e \in Contents : d[1] = e[1] => d = e
       /\ \A e \in Contents :
             e[1] <= last_sequence_ \/ (writing /= None /\ e \in writing.entries)

(* Every call of Write and TEST_CompactMemTable returns, unless the        *)
(* process dies: full memtables get flushed, level 0 gets compacted, the   *)
(* queue drains, and nobody waits for an imm_ that a background error      *)
(* keeps.                                                                  *)
EveryWriteReturns == (\E w \in Writers : Busy(w)) ~> (\A w \in Writers : ~Busy(w))

(* "Reflect errors immediately so that conditions like full file-systems   *)
(* cause the DB::Open() to fail" (RecoverLogFile): an open database is one *)
(* whose logs have all been recovered.                                     *)
RecoveryErrorsFailOpen == status = "open" => "masked error" \notin flaws
=============================================================================
