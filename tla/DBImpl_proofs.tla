--------------------------- MODULE DBImpl_proofs ---------------------------
(***************************************************************************)
(* Proofs about DBImpl, for any number of writers, crashes and I/O errors. *)
(* First the structure of the files, Inv1: whatever part of the MANIFEST a *)
(* crash leaves, its tables are there, and no file in use is deleted.      *)
(* Then what it keeps: no sequence number is given out twice, and no       *)
(* acknowledged write is lost.                                             *)
(***************************************************************************)
EXTENDS DBImpl, SequenceTheorems, Induction

-----------------------------------------------------------------------------
(* The greatest and the least of a set of numbers                          *)

LEMMA MinOfIsLeast ==
    ASSUME NEW T, T \subseteq Nat, T # {}
    PROVE  MinOf(T) \in T /\ \A y \in T : MinOf(T) <= y
BY LeastExists DEF MinOf

LEMMA MaxOfIsGreatest ==
    ASSUME NEW T, NEW b \in Nat, T \subseteq Nat, \A y \in T : y <= b, T # {}
    PROVE  MaxOf(T) \in T /\ \A y \in T : y <= MaxOf(T)
BY GreatestExists DEF MaxOf

-----------------------------------------------------------------------------
(* Types                                                                   *)

Entries == Nat \X (Writers \cup {0})
FileType == [number : Nat, level : {0, 1}]
EditType == [add : SUBSET FileType, del : SUBSET FileType, log : Nat, next : Nat, last : Nat]
Records == Seq(EditType \cup {None})
ManifestType == {m \in [records : Records, synced : Nat] : m.synced <= Len(m.records)}
LogRecords == Seq([entries : SUBSET Entries, ok : BOOLEAN])
LogType == {m \in [records : LogRecords, synced : Nat] : m.synced <= Len(m.records)}

(* Files of one kind, by number. *)
FilesTyped(f, T) == f \in [DOMAIN f -> T] /\ DOMAIN f \subseteq Nat

DiskType ==
    /\ current \in Nat
    /\ FilesTyped(manifests, ManifestType)
    /\ FilesTyped(logs, LogType)
    /\ FilesTyped(tables, SUBSET Entries)

CallType == [kind : {"put", "sync", "force"},
             state : {"new", "queued", "waiting", "ok", "failed", "lost"}, forced : BOOLEAN]
WritingType == [size : Nat, result : {"unlogged", "ok", "failed", "sync error"},
                entries : SUBSET Entries]
QueueType ==
    /\ call \in [Writers -> CallType]
    /\ writers_ \in Seq(Writers)
    /\ writing # None => writing \in WritingType /\ IsFiniteSet(writing.entries)

VsetType ==
    /\ logfile_number_ \in Nat /\ log_number_ \in Nat /\ next_file_number_ \in Nat
    /\ last_sequence_ \in Nat /\ manifest_file_number_ \in Nat
    /\ files_ \in SUBSET FileType
    /\ mem_ \in SUBSET Entries
    /\ imm_ # None => imm_ \in [entries : SUBSET Entries]

BgType == [pc : {"idle", "build", "flush", "flushed", "merge", "apply", "applied"},
           number : Nat, edit : EditType \cup {None}]
CompactType == [inputs : SUBSET FileType, output : Nat]
RecType == [logs : SUBSET Nat, read : Nat, add : SUBSET FileType, max_sequence : Nat, ok : BOOLEAN]

Statuses == {"down", "recovering", "manifest", "current", "open", "corrupt"}
Opening_ == {"recovering", "manifest", "current"}
WorkType ==
    /\ status \in Statuses
    /\ bg \in BgType
    /\ compact # None => compact \in CompactType
    /\ status \in Opening_ => rec \in RecType
    /\ pending_outputs_ \in SUBSET Nat
    /\ bg_error_ \in BOOLEAN
    /\ pinned # None => pinned \in [files : SUBSET Nat]

(* There is a greatest sequence number in the logs. *)
Bounded ==
    \E b \in Nat :
       /\ \A n \in DOMAIN logs : \A i \in 1 .. Len(logs[n].records) :
             \A e \in logs[n].records[i].entries : e[1] <= b
       /\ writing # None => \A e \in writing.entries : e[1] <= b

TypeInv == DiskType /\ QueueType /\ VsetType /\ WorkType /\ Bounded

-----------------------------------------------------------------------------
(* What a MANIFEST says                                                    *)

ViewType == [files : SUBSET FileType, log : Nat, next : Nat, last : Nat]

LEMMA ReplayFields ==
    ASSUME NEW r, NEW k
    PROVE  /\ Replay(r, k).files = FilesAt(r, k)
           /\ CountedAt(r, k) = {} =>
                 Replay(r, k).log = 0 /\ Replay(r, k).next = 0 /\ Replay(r, k).last = 0
           /\ CountedAt(r, k) # {} =>
                 LET e == r[MaxOf(CountedAt(r, k))]
                 IN  Replay(r, k).log = e.log /\ Replay(r, k).next = e.next
                        /\ Replay(r, k).last = e.last
BY DEF Replay

LEMMA MaxCounted ==
    ASSUME NEW r \in Records, NEW k \in 0 .. Len(r), CountedAt(r, k) # {}
    PROVE  /\ MaxOf(CountedAt(r, k)) \in CountedAt(r, k)
           /\ \A i \in CountedAt(r, k) : i <= MaxOf(CountedAt(r, k))
<1>1. CountedAt(r, k) \subseteq Nat /\ \A y \in CountedAt(r, k) : y <= k
  BY DEF CountedAt
<1> QED BY <1>1, MaxOfIsGreatest

LEMMA ReplayTyped ==
    ASSUME NEW r \in Records, NEW k \in 0 .. Len(r)
    PROVE  Replay(r, k) \in ViewType
<1>1. \A i \in 1 .. k : r[i] # None => r[i] \in EditType
  BY DEF Records
<1>2. FilesAt(r, k) \in SUBSET FileType
  BY <1>1 DEF FilesAt, EditType
<1>3. CountedAt(r, k) # {} => r[MaxOf(CountedAt(r, k))] \in EditType
  BY <1>1, MaxCounted DEF CountedAt
<1> QED BY <1>2, <1>3 DEF Replay, ViewType, EditType

LEMMA SameReplay ==
    ASSUME NEW r, NEW q, NEW k \in Nat, \A i \in 1 .. k : r[i] = q[i]
    PROVE  Replay(r, k) = Replay(q, k)
<1>1. FilesAt(r, k) = FilesAt(q, k)
  BY DEF FilesAt
<1>2. CountedAt(r, k) = CountedAt(q, k)
  BY DEF CountedAt
<1>3. CountedAt(r, k) # {} => MaxOf(CountedAt(r, k)) \in 1 .. k
  <2>1. CountedAt(r, k) \subseteq Nat /\ \A y \in CountedAt(r, k) : y <= k
    BY DEF CountedAt
  <2>2. CountedAt(r, k) # {} => MaxOf(CountedAt(r, k)) \in CountedAt(r, k)
    BY <2>1, MaxOfIsGreatest
  <2> QED BY <2>2 DEF CountedAt
<1> QED BY <1>1, <1>2, <1>3 DEF Replay

(***************************************************************************)
(* An edit appended to a MANIFEST is applied to what was there before.     *)
(***************************************************************************)
LEMMA ReplayAppend ==
    ASSUME NEW r \in Records, NEW e \in EditType \cup {None},
           e # None => e.next # 0
    PROVE  /\ \A k \in 0 .. Len(r) : Replay(Append(r, e), k) = Replay(r, k)
           /\ e = None => Replay(Append(r, e), Len(r) + 1) = Replay(r, Len(r))
           /\ e # None =>
                 LET v == Replay(Append(r, e), Len(r) + 1)
                 IN  /\ v.files = Apply(Replay(r, Len(r)).files, e)
                     /\ v.log = e.log /\ v.next = e.next /\ v.last = e.last
<1> DEFINE q == Append(r, e)
           n == Len(r)
<1>1. /\ q \in Records /\ Len(q) = n + 1 /\ q[n + 1] = e /\ n \in Nat
      /\ \A i \in 1 .. n : q[i] = r[i]
  BY DEF Records
<1> HIDE DEF q
<1>2. \A k \in 0 .. n : Replay(q, k) = Replay(r, k)
  BY <1>1, SameReplay
<1>3. ASSUME e = None PROVE Replay(q, n + 1) = Replay(r, n)
  <2>1. FilesAt(q, n + 1) = FilesAt(q, n)
    BY <1>1, <1>3 DEF FilesAt
  <2>2. CountedAt(q, n + 1) = CountedAt(q, n)
    BY <1>1, <1>3 DEF CountedAt
  <2>3. Replay(q, n + 1) = Replay(q, n)
    BY <2>1, <2>2 DEF Replay
  <2> QED BY <1>1, <1>2, <2>3
<1>4. ASSUME e # None
      PROVE  /\ FilesAt(q, n + 1) = Apply(FilesAt(q, n), e)
             /\ CountedAt(q, n + 1) # {}
             /\ MaxOf(CountedAt(q, n + 1)) = n + 1
  <2>1. FilesAt(q, n + 1) = Apply(FilesAt(q, n), e)
    <3>1. ASSUME NEW f \in FilesAt(q, n + 1) PROVE f \in Apply(FilesAt(q, n), e)
      <4>1. PICK i \in 1 .. n + 1 : /\ q[i] # None /\ f \in q[i].add
                                    /\ \A j \in i + 1 .. n + 1 : q[j] # None => f \notin q[j].del
        BY <3>1 DEF FilesAt
      <4>2. CASE i = n + 1
        BY <1>1, <4>1, <4>2 DEF Apply
      <4>3. CASE i # n + 1
        <5>1. i \in 1 .. n /\ f \notin e.del
          BY <1>1, <1>4, <4>1, <4>3
        <5>2. f \in FilesAt(q, n)
          BY <1>1, <4>1, <5>1 DEF FilesAt
        <5> QED BY <5>1, <5>2 DEF Apply
      <4> QED BY <4>2, <4>3
    <3>2. ASSUME NEW f \in Apply(FilesAt(q, n), e) PROVE f \in FilesAt(q, n + 1)
      <4>1. CASE f \in e.add
        BY <1>1, <1>4, <4>1 DEF FilesAt
      <4>2. CASE f \in FilesAt(q, n) /\ f \notin e.del
        <5>1. PICK i \in 1 .. n : /\ q[i] # None /\ f \in q[i].add
                                  /\ \A j \in i + 1 .. n : q[j] # None => f \notin q[j].del
          BY <4>2 DEF FilesAt
        <5>2. \A j \in i + 1 .. n + 1 : q[j] # None => f \notin q[j].del
          BY <1>1, <4>2, <5>1
        <5> QED BY <1>1, <5>1, <5>2 DEF FilesAt
      <4> QED BY <3>2, <4>1, <4>2 DEF Apply
    <3> QED BY <3>1, <3>2
  <2>2. n + 1 \in CountedAt(q, n + 1)
    BY <1>1, <1>4 DEF CountedAt
  <2>3. \A i \in CountedAt(q, n + 1) : i <= n + 1
    BY <1>1 DEF CountedAt
  <2>4. MaxOf(CountedAt(q, n + 1)) \in CountedAt(q, n + 1) /\ n + 1 <= MaxOf(CountedAt(q, n + 1))
    BY <1>1, <2>2, MaxCounted
  <2> QED BY <1>1, <2>1, <2>2, <2>3, <2>4 DEF CountedAt
<1>5. ASSUME e # None
      PROVE  /\ Replay(q, n + 1).files = Apply(Replay(r, n).files, e)
             /\ Replay(q, n + 1).log = e.log /\ Replay(q, n + 1).next = e.next
             /\ Replay(q, n + 1).last = e.last
  <2>1. FilesAt(q, n) = Replay(r, n).files
    BY <1>1, <1>2, ReplayFields
  <2> QED BY <1>1, <1>4, <1>5, <2>1, ReplayFields
<1> QED BY <1>2, <1>3, <1>5 DEF q

LEMMA ReplayOne ==
    ASSUME NEW e \in EditType, e.next # 0
    PROVE  LET v == Replay(<<e>>, 1)
           IN  v.files = e.add /\ v.log = e.log /\ v.next = e.next /\ v.last = e.last
<1>1. <<>> \in Records /\ Len(<<>>) = 0
  BY DEF Records
<1>2. Append(<<>>, e) = <<e>>
  OBVIOUS
<1>3. Replay(<<>>, 0).files = {}
  BY ReplayFields DEF FilesAt
<1>4. e # None
  BY DEF EditType, None
<1>5. Apply({}, e) = e.add
  BY DEF Apply
<1>6. PICK r : r = <<>>
  OBVIOUS
<1>7. LET v == Replay(Append(r, e), Len(r) + 1)
      IN  /\ v.files = Apply(Replay(r, Len(r)).files, e)
          /\ v.log = e.log /\ v.next = e.next /\ v.last = e.last
  BY <1>1, <1>4, <1>6, ReplayAppend, ZenonT(30)
<1>8. Len(r) = 0 /\ Len(r) + 1 = 1 /\ Append(r, e) = <<e>>
  BY <1>6
<1> QED BY <1>3, <1>5, <1>6, <1>7, <1>8

(***************************************************************************)
(* The MANIFEST that recovery writes: a snapshot and an edit.              *)
(***************************************************************************)
LEMMA ReplayTwo ==
    ASSUME NEW fs \in SUBSET FileType, NEW e \in EditType, e.next # 0, e.del = {}
    PROVE  LET v == Replay(<<Snapshot(fs), e>>, 2)
           IN  /\ v.files = fs \cup e.add
               /\ v.log = e.log /\ v.next = e.next /\ v.last = e.last
<1> DEFINE s == Snapshot(fs)
           r == <<s, e>>
<1>1. s \in EditType /\ s.add = fs /\ s # None /\ e # None /\ s.next = 0
  BY DEF Snapshot, Edit, EditType, None
<1> HIDE DEF s
<1>2. r[1] = s /\ r[2] = e /\ Len(r) = 2 /\ r \in Records
  BY <1>1 DEF Records
<1> HIDE DEF r
<1>3. FilesAt(r, 2) = fs \cup e.add
  <2>1. ASSUME NEW f \in FilesAt(r, 2) PROVE f \in fs \cup e.add
    <3>1. PICK i \in 1 .. 2 : f \in r[i].add
      BY <2>1 DEF FilesAt
    <3> QED BY <1>1, <1>2, <3>1
  <2>2. ASSUME NEW f \in fs PROVE f \in FilesAt(r, 2)
    <3>1. \A j \in 1 + 1 .. 2 : r[j] # None => f \notin r[j].del
      BY <1>2
    <3> QED BY <1>1, <1>2, <3>1 DEF FilesAt
  <2>3. ASSUME NEW f \in e.add PROVE f \in FilesAt(r, 2)
    <3>1. \A j \in 2 + 1 .. 2 : r[j] # None => f \notin r[j].del
      OBVIOUS
    <3> QED BY <1>1, <1>2, <3>1 DEF FilesAt
  <2> QED BY <2>1, <2>2, <2>3
<1>4. CountedAt(r, 2) = {2}
  BY <1>1, <1>2 DEF CountedAt
<1>5. MaxOf({2}) = 2
  BY MaxOfIsGreatest
<1>6. Replay(r, 2).files = fs \cup e.add /\ Replay(r, 2).log = e.log
      /\ Replay(r, 2).next = e.next /\ Replay(r, 2).last = e.last
  <2>1. CountedAt(r, 2) # {} /\ r[MaxOf(CountedAt(r, 2))] = e
    BY <1>2, <1>4, <1>5
  <2> QED BY <1>3, <2>1, ReplayFields
<1> QED BY <1>6 DEF r, s

-----------------------------------------------------------------------------
(* The structure: numbers, and the files that a version may need           *)

Ks(m) == m.synced .. Len(m.records)

(***************************************************************************)
(* What a MANIFEST says after any part of it that a crash may leave.       *)
(***************************************************************************)
ManifestOK(c) ==
    /\ c \in DOMAIN manifests
    /\ \A k \in Ks(manifests[c]) :
          LET v == Replay(manifests[c].records, k)
          IN  /\ Numbers(v.files) \subseteq DOMAIN tables
              /\ v.next # 0 => /\ c < v.next /\ v.log < v.next
                               /\ \A f \in v.files : f.number < v.next
    /\ \A j, k \in Ks(manifests[c]) : j <= k =>
          Replay(manifests[c].records, j).next <= Replay(manifests[c].records, k).next

CurrentOK == current # 0 => ManifestOK(current)

(***************************************************************************)
(* Outside "open" nothing runs beside DB::Open.                            *)
(***************************************************************************)
Quiet ==
    status # "open" =>
       /\ bg = Idle /\ compact = None /\ pinned = None /\ pending_outputs_ = {}
       /\ ~bg_error_ /\ imm_ = None /\ mem_ = {} /\ writing = None

LastView(c) == Replay(manifests[c].records, Len(manifests[c].records))

(***************************************************************************)
(* Between Recover and the end of Open.                                    *)
(***************************************************************************)
OpeningOK ==
    status \in Opening_ =>
       /\ current # 0
       /\ Numbers(files_ \cup rec.add) \subseteq DOMAIN tables
       /\ \A f \in files_ \cup rec.add : f.number < next_file_number_
       /\ manifest_file_number_ < next_file_number_
       /\ status = "recovering" =>
             /\ current < manifest_file_number_
             /\ LastView(current).next = manifest_file_number_
             /\ LastView(current).log = log_number_
             /\ LastView(current).files = files_
             /\ rec.logs \subseteq DOMAIN logs
             /\ \A n \in DOMAIN logs : n < next_file_number_ \/ n \in rec.logs
       /\ status \in {"manifest", "current"} =>
             /\ logfile_number_ < next_file_number_
             /\ logfile_number_ \in DOMAIN logs
             /\ \A n \in DOMAIN logs : n <= logfile_number_
             /\ logs[logfile_number_].records = <<>>
             /\ manifest_file_number_ \in DOMAIN manifests
             /\ manifests[manifest_file_number_] =
                   [records |-> <<Snapshot(files_), Edit(rec.add, {}, logfile_number_,
                                                         next_file_number_, last_sequence_)>>,
                    synced |-> 2]
       /\ status = "manifest" => current < manifest_file_number_
       /\ status = "current" => current = manifest_file_number_

(***************************************************************************)
(* No edit failed to get into the MANIFEST: then memory and MANIFEST agree.*)
(***************************************************************************)
Clean == ~bg_error_ /\ ~ (bg.pc \in {"flush", "apply"} /\ bg.edit = None)
Version == IF bg.pc \in {"flushed", "applied"} THEN Apply(files_, bg.edit) ELSE files_

OpenOK ==
    status = "open" =>
       /\ current # 0 /\ current = manifest_file_number_
       /\ manifest_file_number_ < next_file_number_
       /\ logfile_number_ < next_file_number_ /\ log_number_ <= logfile_number_
       /\ logfile_number_ \in DOMAIN logs
       /\ \A n \in DOMAIN logs : n <= logfile_number_
       /\ Numbers(files_) \cup PinnedFiles \subseteq DOMAIN tables
       /\ \A f \in files_ : f.number < next_file_number_
       /\ \A k \in Ks(manifests[current]) :
             LET v == Replay(manifests[current].records, k)
             IN  v.next # 0 /\ v.next <= next_file_number_ /\ v.log <= logfile_number_
       /\ Clean => /\ manifests[current].synced = Len(manifests[current].records)
                   /\ LastView(current).files = Version
       /\ ~ (bg.pc = "idle" /\ bg_error_) /\ ~ (bg.pc = "apply" /\ bg.edit = None) =>
             Version \subseteq LastView(current).files

(* Numbers that no version has yet. *)
Fresh(n) ==
    /\ n < next_file_number_ /\ n \notin Numbers(files_)
    /\ \A k \in Ks(manifests[current]) :
          n \notin Numbers(Replay(manifests[current].records, k).files)

BackgroundOK ==
    status = "open" =>
       /\ bg.pc = "idle" => compact = None
       /\ bg.pc \in {"merge", "apply", "applied"} => compact # None
       /\ bg.pc \in {"build", "flush", "flushed"} => imm_ # None
       /\ bg.pc = "build" => Fresh(bg.number) /\ (compact # None => bg.number # compact.output)
       /\ bg.pc \in {"flushed", "applied"} => bg.edit # None
       /\ bg.edit # None =>
             /\ bg.pc \in {"flush", "flushed", "apply", "applied"}
             /\ Numbers(bg.edit.add) \subseteq DOMAIN tables
             /\ \A f \in bg.edit.add : f.number < bg.edit.next
             /\ bg.edit.next # 0 /\ bg.edit.next <= next_file_number_
             /\ bg.edit.log < bg.edit.next /\ bg.edit.log <= logfile_number_
             /\ manifest_file_number_ < bg.edit.next
             /\ \A k \in Ks(manifests[current]) :
                   Replay(manifests[current].records, k).next <= bg.edit.next
             /\ \A f \in files_ : f.number < bg.edit.next
             /\ log_number_ <= bg.edit.log
       /\ bg.pc \in {"flush", "flushed"} /\ bg.edit # None =>
             /\ bg.edit.del = {}
             /\ compact # None => compact.output \notin Numbers(bg.edit.add)
       /\ bg.pc \in {"apply", "applied"} =>
             /\ compact.output # 0
             /\ bg.edit # None =>
                   /\ bg.edit.add = {Table(compact.output, 1)} /\ bg.edit.del = compact.inputs
                   /\ bg.edit.log = log_number_
       /\ compact # None =>
             /\ compact.inputs \subseteq files_
             /\ compact.output # 0 => /\ compact.output \in pending_outputs_ \cap DOMAIN tables
                                      /\ ~ (bg.pc = "applied" \/ (bg.pc = "apply" /\ bg.edit = None))
                                            => Fresh(compact.output)

Struct == CurrentOK /\ Quiet /\ OpeningOK /\ OpenOK /\ BackgroundOK
Inv1 == TypeInv /\ Struct

-----------------------------------------------------------------------------
(* Directories                                                             *)

LEMMA WithTyped ==
    ASSUME NEW f, NEW T, FilesTyped(f, T), NEW n \in Nat, NEW e \in T
    PROVE  /\ FilesTyped(With(f, n, e), T)
           /\ DOMAIN With(f, n, e) = DOMAIN f \cup {n}
           /\ With(f, n, e)[n] = e
           /\ \A x \in DOMAIN f : x # n => With(f, n, e)[x] = f[x]
BY DEF FilesTyped, With

LEMMA ExceptTyped ==
    ASSUME NEW f, NEW T, FilesTyped(f, T), NEW n \in DOMAIN f, NEW e \in T,
           NEW g, g = [f EXCEPT ![n] = e]
    PROVE  /\ FilesTyped(g, T)
           /\ DOMAIN g = DOMAIN f
           /\ g[n] = e
           /\ \A x \in DOMAIN f : x # n => g[x] = f[x]
BY DEF FilesTyped

LEMMA RestrictedTyped ==
    ASSUME NEW f, NEW T, FilesTyped(f, T), NEW S
    PROVE  /\ FilesTyped(Restricted(f, S), T)
           /\ DOMAIN Restricted(f, S) = DOMAIN f \cap S
           /\ \A x \in DOMAIN f \cap S : Restricted(f, S)[x] = f[x]
BY DEF FilesTyped, Restricted

LEMMA AppendManifest ==
    ASSUME NEW m \in ManifestType, NEW e \in EditType \cup {None},
           NEW q, q = [m EXCEPT !.records = Append(@, e)]
    PROVE  /\ q \in ManifestType /\ q.records = Append(m.records, e) /\ q.synced = m.synced
           /\ Synced(q) \in ManifestType /\ Synced(q).records = Append(m.records, e)
           /\ Synced(q).synced = Len(m.records) + 1
           /\ Len(q.records) = Len(m.records) + 1
<1>1. m \in [records : Records, synced : Nat] /\ m.records \in Records /\ m.synced \in Nat
      /\ m.synced <= Len(m.records)
  BY DEF ManifestType
<1>2. Append(m.records, e) \in Records /\ Len(Append(m.records, e)) = Len(m.records) + 1
      /\ Len(m.records) \in Nat
  BY <1>1 DEF Records
<1>3. q \in [records : Records, synced : Nat] /\ q.records = Append(m.records, e)
      /\ q.synced = m.synced
  BY <1>1, <1>2
<1>4. Synced(q) \in [records : Records, synced : Nat] /\ Synced(q).records = q.records
      /\ Synced(q).synced = Len(q.records)
  <2>1. Len(q.records) \in Nat
    BY <1>2, <1>3
  <2> QED BY <1>2, <1>3, <2>1 DEF Synced
<1>5. Len(q.records) = Len(m.records) + 1 /\ Len(q.records) \in Nat
  BY <1>2, <1>3
<1>6. q \in ManifestType
  BY <1>1, <1>2, <1>3, <1>5 DEF ManifestType
<1>7. Synced(q).synced <= Len(Synced(q).records)
  BY <1>4, <1>5
<1>8. Synced(q) \in ManifestType
  BY <1>4, <1>7 DEF ManifestType
<1> QED BY <1>3, <1>4, <1>5, <1>6, <1>8

LEMMA AppendLog ==
    ASSUME NEW m \in LogType, NEW S \in SUBSET Entries, NEW ok \in BOOLEAN,
           NEW q, q = [m EXCEPT !.records = Append(@, [entries |-> S, ok |-> ok])]
    PROVE  /\ q \in LogType /\ q.synced = m.synced
           /\ q.records = Append(m.records, [entries |-> S, ok |-> ok])
           /\ Synced(q) \in LogType
           /\ Synced(q).records = Append(m.records, [entries |-> S, ok |-> ok])
           /\ Synced(q).synced = Len(m.records) + 1
           /\ Len(q.records) = Len(m.records) + 1
<1> DEFINE x == [entries |-> S, ok |-> ok]
<1>1. m \in [records : LogRecords, synced : Nat] /\ m.records \in LogRecords
      /\ m.synced \in Nat /\ m.synced <= Len(m.records)
  BY DEF LogType
<1>2. x \in [entries : SUBSET Entries, ok : BOOLEAN]
  OBVIOUS
<1> HIDE DEF x
<1>3. Append(m.records, x) \in LogRecords /\ Len(Append(m.records, x)) = Len(m.records) + 1
      /\ Len(m.records) \in Nat
  BY <1>1, <1>2 DEF LogRecords
<1>4. q \in [records : LogRecords, synced : Nat] /\ q.records = Append(m.records, x)
      /\ q.synced = m.synced
  BY <1>1, <1>3 DEF x
<1>5. Synced(q) \in [records : LogRecords, synced : Nat] /\ Synced(q).records = q.records
      /\ Synced(q).synced = Len(q.records)
  <2>1. Len(q.records) \in Nat
    BY <1>3, <1>4
  <2> QED BY <1>3, <1>4, <2>1 DEF Synced
<1>6. Len(q.records) = Len(m.records) + 1 /\ Len(q.records) \in Nat
  BY <1>3, <1>4
<1>7. q \in LogType
  BY <1>1, <1>3, <1>4, <1>6 DEF LogType
<1>8. Synced(q).synced <= Len(Synced(q).records)
  BY <1>5, <1>6
<1>9. Synced(q) \in LogType
  BY <1>5, <1>8 DEF LogType
<1> QED BY <1>4, <1>5, <1>6, <1>7, <1>9 DEF x

(***************************************************************************)
(* What a crash leaves of the files.                                       *)
(***************************************************************************)
Cut(f, g) ==
    /\ DOMAIN g = DOMAIN f
    /\ \A n \in DOMAIN f :
          /\ g[n].synced \in f[n].synced .. Len(f[n].records)
          /\ Len(g[n].records) = g[n].synced
          /\ \A i \in 1 .. g[n].synced : g[n].records[i] = f[n].records[i]

LEMMA CutSequence ==
    ASSUME NEW S, NEW s \in Seq(S), NEW k \in 0 .. Len(s)
    PROVE  /\ SubSeq(s, 1, k) \in Seq(S) /\ Len(SubSeq(s, 1, k)) = k
           /\ \A i \in 1 .. k : SubSeq(s, 1, k)[i] = s[i]
<1>1. \A i \in 1 .. k : s[i] \in S
  OBVIOUS
<1> QED BY <1>1, SubSeqProperties

LEMMA ManifestsSurvive ==
    ASSUME FilesTyped(manifests, ManifestType), NEW g \in Survivors(manifests)
    PROVE  FilesTyped(g, ManifestType) /\ Cut(manifests, g)
<1>1. PICK k : /\ g = [n \in DOMAIN manifests |->
                         [records |-> SubSeq(manifests[n].records, 1, k[n]), synced |-> k[n]]]
               /\ \A n \in DOMAIN manifests :
                     manifests[n].synced <= k[n] /\ k[n] <= Len(manifests[n].records)
               /\ k \in [DOMAIN manifests -> UNION {manifests[n].synced .. Len(manifests[n].records) :
                                                       n \in DOMAIN manifests}]
  BY DEF Survivors
<1>2. ASSUME NEW n \in DOMAIN manifests
      PROVE  /\ g[n] \in ManifestType
             /\ g[n].synced \in manifests[n].synced .. Len(manifests[n].records)
             /\ Len(g[n].records) = g[n].synced
             /\ \A i \in 1 .. g[n].synced : g[n].records[i] = manifests[n].records[i]
  <2>1. manifests[n].records \in Records /\ manifests[n].synced \in Nat
    BY DEF FilesTyped, ManifestType
  <2>2. k[n] \in 0 .. Len(manifests[n].records)
    <3>1. PICK j \in DOMAIN manifests : k[n] \in manifests[j].synced .. Len(manifests[j].records)
      BY <1>1
    <3>2. k[n] \in Int
      BY <3>1
    <3>3. manifests[n].synced <= k[n] /\ k[n] <= Len(manifests[n].records)
      BY <1>1
    <3>4. Len(manifests[n].records) \in Nat
      BY <2>1 DEF Records
    <3> QED BY <2>1, <3>2, <3>3, <3>4
  <2>3. g[n] = [records |-> SubSeq(manifests[n].records, 1, k[n]), synced |-> k[n]]
    BY <1>1
  <2>4. /\ SubSeq(manifests[n].records, 1, k[n]) \in Records
        /\ Len(SubSeq(manifests[n].records, 1, k[n])) = k[n]
        /\ \A i \in 1 .. k[n] : SubSeq(manifests[n].records, 1, k[n])[i] = manifests[n].records[i]
    BY <2>1, <2>2, CutSequence DEF Records
  <2>5. g[n].records = SubSeq(manifests[n].records, 1, k[n]) /\ g[n].synced = k[n]
    <3> DEFINE s == SubSeq(manifests[n].records, 1, k[n])
               m == k[n]
    <3>1. g[n] = [records |-> s, synced |-> m]
      BY <2>3
    <3> HIDE DEF s, m
    <3>2. g[n].records = s /\ g[n].synced = m
      BY <3>1
    <3> QED BY <3>2 DEF s, m
  <2>6. k[n] \in manifests[n].synced .. Len(manifests[n].records) /\ k[n] \in Nat
    <3>1. manifests[n].synced <= k[n] /\ k[n] <= Len(manifests[n].records)
      BY <1>1
    <3>2. Len(manifests[n].records) \in Nat
      BY <2>1 DEF Records
    <3> QED BY <2>1, <2>2, <3>1, <3>2
  <2>7. g[n] \in ManifestType
    <3>1. g[n] \in [records : Records, synced : Nat]
      BY <2>3, <2>4, <2>6
    <3>2. g[n].synced <= Len(g[n].records)
      BY <2>4, <2>5, <2>6
    <3> QED BY <3>1, <3>2 DEF ManifestType
  <2> QED BY <2>4, <2>5, <2>6, <2>7
<1> QED BY <1>1, <1>2 DEF FilesTyped, Cut

LEMMA LogsSurvive ==
    ASSUME FilesTyped(logs, LogType), NEW g \in Survivors(logs)
    PROVE  FilesTyped(g, LogType) /\ Cut(logs, g)
<1>1. PICK k : /\ g = [n \in DOMAIN logs |->
                         [records |-> SubSeq(logs[n].records, 1, k[n]), synced |-> k[n]]]
               /\ \A n \in DOMAIN logs :
                     logs[n].synced <= k[n] /\ k[n] <= Len(logs[n].records)
               /\ k \in [DOMAIN logs -> UNION {logs[n].synced .. Len(logs[n].records) :
                                                  n \in DOMAIN logs}]
  BY DEF Survivors
<1>2. ASSUME NEW n \in DOMAIN logs
      PROVE  /\ g[n] \in LogType
             /\ g[n].synced \in logs[n].synced .. Len(logs[n].records)
             /\ Len(g[n].records) = g[n].synced
             /\ \A i \in 1 .. g[n].synced : g[n].records[i] = logs[n].records[i]
  <2>1. logs[n].records \in LogRecords /\ logs[n].synced \in Nat
    BY DEF FilesTyped, LogType
  <2>2. k[n] \in 0 .. Len(logs[n].records)
    <3>1. PICK j \in DOMAIN logs : k[n] \in logs[j].synced .. Len(logs[j].records)
      BY <1>1
    <3>2. k[n] \in Int
      BY <3>1
    <3>3. logs[n].synced <= k[n] /\ k[n] <= Len(logs[n].records)
      BY <1>1
    <3>4. Len(logs[n].records) \in Nat
      BY <2>1 DEF LogRecords
    <3> QED BY <2>1, <3>2, <3>3, <3>4
  <2>3. g[n] = [records |-> SubSeq(logs[n].records, 1, k[n]), synced |-> k[n]]
    BY <1>1
  <2>4. /\ SubSeq(logs[n].records, 1, k[n]) \in LogRecords
        /\ Len(SubSeq(logs[n].records, 1, k[n])) = k[n]
        /\ \A i \in 1 .. k[n] : SubSeq(logs[n].records, 1, k[n])[i] = logs[n].records[i]
    BY <2>1, <2>2, CutSequence DEF LogRecords
  <2>5. g[n].records = SubSeq(logs[n].records, 1, k[n]) /\ g[n].synced = k[n]
    <3> DEFINE s == SubSeq(logs[n].records, 1, k[n])
               m == k[n]
    <3>1. g[n] = [records |-> s, synced |-> m]
      BY <2>3
    <3> HIDE DEF s, m
    <3>2. g[n].records = s /\ g[n].synced = m
      BY <3>1
    <3> QED BY <3>2 DEF s, m
  <2>6. k[n] \in logs[n].synced .. Len(logs[n].records) /\ k[n] \in Nat
    <3>1. logs[n].synced <= k[n] /\ k[n] <= Len(logs[n].records)
      BY <1>1
    <3>2. Len(logs[n].records) \in Nat
      BY <2>1 DEF LogRecords
    <3> QED BY <2>1, <2>2, <3>1, <3>2
  <2>7. g[n] \in LogType
    <3>1. g[n] \in [records : LogRecords, synced : Nat]
      BY <2>3, <2>4, <2>6
    <3>2. g[n].synced <= Len(g[n].records)
      BY <2>4, <2>5, <2>6
    <3> QED BY <3>1, <3>2 DEF LogType
  <2> QED BY <2>4, <2>5, <2>6, <2>7
<1> QED BY <1>1, <1>2 DEF FilesTyped, Cut

-----------------------------------------------------------------------------
(* BuildBatchGroup                                                         *)

LEMMA BatchesCounted ==
    ASSUME NEW n \in Nat
    PROVE  /\ IsFiniteSet(Batches(n)) /\ Cardinality(Batches(n)) \in Nat
           /\ Cardinality(Batches(n)) <= n
<1>1. IsFiniteSet(1 .. n) /\ Cardinality(1 .. n) = n
  BY FS_Interval
<1>2. Batches(n) \in SUBSET (1 .. n)
  BY DEF Batches
<1>3. IsFiniteSet(Batches(n)) /\ Cardinality(Batches(n)) <= n
  BY <1>1, <1>2, FS_Subset
<1> QED BY <1>3, FS_CardinalityType

LEMMA BatchesGrow ==
    ASSUME NEW i \in Nat, NEW j \in Nat, i < j, j \in Batches(j)
    PROVE  Cardinality(Batches(i)) < Cardinality(Batches(j))
<1>1. IsFiniteSet(Batches(i)) /\ IsFiniteSet(Batches(j))
      /\ Cardinality(Batches(i)) \in Nat /\ Cardinality(Batches(j)) \in Nat
  BY BatchesCounted
<1>2. Batches(i) \in SUBSET Batches(j) /\ j \notin Batches(i)
  BY DEF Batches
<1>3. Cardinality(Batches(i)) <= Cardinality(Batches(j))
      /\ Cardinality(Batches(i)) # Cardinality(Batches(j))
  BY <1>1, <1>2, FS_Subset
<1> QED BY <1>1, <1>3

LEMMA BatchesWithin ==
    ASSUME NEW n \in Nat, NEW i \in Batches(n)
    PROVE  /\ i \in 1 .. n /\ i \in Batches(i)
           /\ Cardinality(Batches(i)) \in 1 .. Cardinality(Batches(n))
<1>1. i \in 1 .. n /\ i \in Batches(i) /\ Batches(i) \in SUBSET Batches(n)
  BY DEF Batches
<1>2. Cardinality(Batches(i)) <= Cardinality(Batches(n))
  BY <1>1, BatchesCounted, FS_Subset
<1>3. Cardinality(Batches(i)) # 0
  BY <1>1, BatchesCounted, FS_EmptySet
<1> QED BY <1>1, <1>2, <1>3, BatchesCounted

LEMMA GroupSizeOK ==
    ASSUME writers_ \in Seq(Writers), writers_ # <<>>
    PROVE  GroupSize \in 1 .. Len(writers_) /\ GroupOf(GroupSize)
<1> DEFINE T == {n \in 1 .. Len(writers_) : GroupOf(n)}
<1>1. Len(writers_) \in Nat \ {0}
  OBVIOUS
<1>2. GroupOf(1)
  BY BatchesCounted, DBAssumption DEF GroupOf
<1>3. T \subseteq Nat /\ T # {} /\ \A y \in T : y <= Len(writers_)
  BY <1>1, <1>2
<1>4. PICK x \in T : \A y \in T : y <= x
  <2> HIDE DEF T
  <2> QED BY <1>1, <1>3, GreatestExists
<1>5. x \in 1 .. Len(writers_) /\ GroupOf(x) /\ \A m \in x + 1 .. Len(writers_) : ~GroupOf(m)
  BY <1>4
<1> HIDE DEF T
<1> QED BY <1>5 DEF GroupSize

(***************************************************************************)
(* The entries of a group are as many as its batches, numbered from the    *)
(* last sequence on without a gap.                                         *)
(***************************************************************************)
LEMMA GroupEntries ==
    ASSUME NEW n \in Nat, NEW s \in Nat, NEW E,
           E = {<<s + Cardinality(Batches(i)), writers_[i]>> : i \in Batches(n)}
    PROVE  IsFiniteSet(E) /\ Cardinality(E) = Cardinality(Batches(n))
<1> DEFINE f == [i \in Batches(n) |-> <<s + Cardinality(Batches(i)), writers_[i]>>]
<1>1. \A i \in Batches(n) : i \in Nat /\ i \in Batches(i) /\ Cardinality(Batches(i)) \in Nat
  BY BatchesWithin, BatchesCounted
<1>2. ASSUME NEW i \in Batches(n), NEW j \in Batches(n), f[i] = f[j] PROVE i = j
  <2>1. s + Cardinality(Batches(i)) = s + Cardinality(Batches(j))
    BY <1>2
  <2>2. Cardinality(Batches(i)) = Cardinality(Batches(j))
    BY <1>1, <2>1
  <2>3. ~ (i < j) /\ ~ (j < i)
    BY <1>1, <2>2, BatchesGrow
  <2> QED BY <1>1, <2>3
<1>3. f \in Injection(Batches(n), E)
  BY <1>2 DEF Injection, IsInjective
<1>4. f \in Surjection(Batches(n), E)
  BY <1>3 DEF Injection, Surjection
<1>5. IsFiniteSet(Batches(n))
  BY BatchesCounted
<1> HIDE DEF f
<1> QED BY <1>3, <1>4, <1>5, FS_Surjection

-----------------------------------------------------------------------------
(* Type correctness                                                        *)

LEMMA ReturnTyped ==
    ASSUME QueueType, NEW n \in Nat, NEW st \in {"ok", "failed"}, Return(n, st)
    PROVE  call' \in [Writers -> CallType] /\ writers_' \in Seq(Writers)
<1>1. ASSUME NEW w \in Writers PROVE call'[w] \in CallType
  <2>1. call[w] \in CallType
    BY DEF QueueType
  <2>2. call'[w] = call[w] \/ call'[w] = [call[w] EXCEPT !.state = Result(w, st)]
    BY DEF Return
  <2>3. Result(w, st) \in {"waiting", "ok", "failed"}
    BY DEF Result
  <2> QED BY <2>1, <2>2, <2>3 DEF CallType
<1>2. call' \in [Writers -> CallType]
  BY <1>1 DEF Return
<1>3. writers_' \in Seq(Writers)
  <2>1. \A i \in n + 1 .. Len(writers_) : writers_[i] \in Writers
    BY DEF QueueType
  <2> QED BY <2>1, SubSeqProperties DEF Return, QueueType
<1> QED BY <1>2, <1>3

LEMMA QueueTyped ==
    ASSUME TypeInv, [Next]_vars
    PROVE  QueueType'
<1>1. ASSUME NEW w \in Writers, NEW k \in Kinds[w], Enqueue(w, k) PROVE QueueType'
  <2>1. k \in {"put", "sync", "force"}
    BY DBAssumption
  <2>2. [kind |-> k, state |-> "queued", forced |-> FALSE] \in CallType
    BY <2>1 DEF CallType
  <2> QED BY <1>1, <2>2 DEF Enqueue, TypeInv, QueueType
<1>2. CASE WriteFails \/ ForceReturns
  BY <1>2, ReturnTyped DEF WriteFails, ForceReturns, TypeInv, QueueType
<1>14. CASE ForceDone
  <2>1. PICK w \in Writers, st \in {"ok", "failed"} : call' = [call EXCEPT ![w].state = st]
    BY <1>14 DEF ForceDone
  <2>2. [call[w] EXCEPT !.state = st] \in CallType
    BY <2>1 DEF TypeInv, QueueType, CallType
  <2> QED BY <1>14, <2>1, <2>2 DEF ForceDone, TypeInv, QueueType
<1>3. CASE FinishGroup
  <2>1. writing.size \in Nat
    BY <1>3 DEF FinishGroup, TypeInv, QueueType, WritingType
  <2> QED BY <1>3, <2>1, ReturnTyped DEF FinishGroup, TypeInv, QueueType
<1>4. CASE SwitchMemTable
  <2>1. writers_ # <<>> /\ FrontWriter \in Writers
    BY <1>4 DEF SwitchMemTable, AtFront, FrontWriter, TypeInv, QueueType
  <2>2. [call[FrontWriter] EXCEPT !.forced = TRUE] \in CallType
    BY <2>1 DEF TypeInv, QueueType, CallType
  <2> QED BY <1>4, <2>1, <2>2 DEF SwitchMemTable, TypeInv, QueueType
<1>5. CASE BeginGroup
  <2>1. writers_ # <<>> /\ writers_ \in Seq(Writers)
    BY <1>5 DEF BeginGroup, AtFront, TypeInv, QueueType
  <2>2. GroupSize \in 1 .. Len(writers_)
    BY <2>1, GroupSizeOK
  <2>3. GroupSize \in Nat
    BY <2>1, <2>2
  <2>4. ASSUME NEW i \in Batches(GroupSize)
        PROVE  <<last_sequence_ + Cardinality(Batches(i)), writers_[i]>> \in Entries
    <3>1. i \in 1 .. GroupSize /\ i \in Nat
      BY <2>3, BatchesWithin
    <3>2. writers_[i] \in Writers
      BY <2>1, <2>2, <3>1
    <3>3. Cardinality(Batches(i)) \in Nat
      BY <3>1, BatchesCounted
    <3> QED BY <3>2, <3>3 DEF Entries, TypeInv, VsetType
  <2>5. writing' \in WritingType
    BY <1>5, <2>3, <2>4 DEF BeginGroup, WritingType
  <2>6. writing'.entries = {<<last_sequence_ + Cardinality(Batches(i)), writers_[i]>> :
                              i \in Batches(GroupSize)}
    BY <1>5 DEF BeginGroup
  <2>7. IsFiniteSet(writing'.entries)
    BY <2>3, <2>6, GroupEntries DEF TypeInv, VsetType
  <2> QED BY <1>5, <2>5, <2>7 DEF BeginGroup, TypeInv, QueueType
<1>6. CASE LogGroup
  BY <1>6 DEF LogGroup, TypeInv, QueueType, WritingType
<1>7. CASE Destroyed \/ OpenFails
  <2>1. Gone /\ call' = call
    BY <1>7 DEF Destroyed, OpenFails
  <2>2. writers_' = <<>> /\ writing' = None
    BY <2>1 DEF Gone
  <2> QED BY <2>1, <2>2 DEF TypeInv, QueueType
<1>8. CASE Crash
  <2>1. ASSUME NEW w \in Writers PROVE call'[w] \in CallType
    <3>1. call[w] \in CallType
      BY DEF TypeInv, QueueType
    <3>2. call'[w] = call[w] \/ call'[w] = [call[w] EXCEPT !.state = "lost"]
      BY <1>8 DEF Crash
    <3> QED BY <3>1, <3>2 DEF CallType
  <2>2. call' \in [Writers -> CallType]
    BY <1>8, <2>1 DEF Crash
  <2> QED BY <1>8, <2>2 DEF Crash, Gone, QueueType
<1>9. CASE UNCHANGED <<call, writers_, writing>>
  BY <1>9 DEF TypeInv, QueueType
<1>10. CASE Ref \/ Unref \/ ShutDown
  BY <1>9, <1>10 DEF Ref, Unref, ShutDown, queue
<1>11. CASE Background
  BY <1>9, <1>11 DEF Background, NothingToDo, Flushing, StartFlush, FlushBuilt, FlushFails,
        FlushInstalled, FlushNotInstalled, ManifestRecord, Compacting, StartCompaction,
        OpenCompactionOutputFile, MergeDone, CompactionInstalled, CompactionFails, queue
<1>12. CASE NewDB \/ Recover \/ RecoverTable \/ RecoverLogFile \/ NewLogAndManifest
               \/ SetCurrentFile \/ OpenDone
  BY <1>9, <1>12 DEF NewDB, Recover, RecoverTable, RecoverLogFile, NewLogAndManifest,
        SetCurrentFile, OpenDone, queue
<1>13. CASE UNCHANGED vars
  BY <1>9, <1>13 DEF vars, queue
<1> QED BY <1>1, <1>2, <1>3, <1>4, <1>5, <1>6, <1>7, <1>8, <1>10, <1>11, <1>12, <1>13, <1>14
        DEF Next, Writing, Opening

(***************************************************************************)
(* What runs only in an open database.                                     *)
(***************************************************************************)
LEMMA OnlyWhenOpen ==
    ASSUME Inv1
    PROVE  /\ bg.pc # "idle" => status = "open"
           /\ bg.edit # None => status = "open"
           /\ writing # None => status = "open"
           /\ pinned # None => status = "open"
           /\ compact # None => status = "open"
           /\ bg_error_ => status = "open"
BY DEF Inv1, Struct, Quiet, Idle

LEMMA EmptyLogTyped == [records |-> <<>>, synced |-> 0] \in LogType
BY DEF LogType, LogRecords

LEMMA EditTyped ==
    ASSUME NEW add \in SUBSET FileType, NEW del \in SUBSET FileType,
           NEW log \in Nat, NEW next \in Nat, NEW last \in Nat
    PROVE  /\ Edit(add, del, log, next, last) \in EditType
           /\ Edit(add, del, log, next, last) # None
           /\ Edit(add, del, log, next, last).add = add
           /\ Edit(add, del, log, next, last).del = del
           /\ Edit(add, del, log, next, last).log = log
           /\ Edit(add, del, log, next, last).next = next
           /\ Edit(add, del, log, next, last).last = last
BY DEF Edit, EditType, None

LEMMA TableTyped ==
    ASSUME NEW n \in Nat, NEW l \in {0, 1}
    PROVE  Table(n, l) \in FileType /\ Table(n, l).number = n /\ Numbers({Table(n, l)}) = {n}
BY DEF Table, FileType, Numbers

(***************************************************************************)
(* DeleteObsoleteFiles takes files away and changes none.                  *)
(***************************************************************************)
LEMMA Deleting ==
    ASSUME DiskType, manifest_file_number_ \in Nat,
           NEW fs, NEW log \in Nat, NEW pending, DeleteObsoleteFiles(fs, log, pending)
    PROVE  /\ DiskType' /\ current' = current
           /\ DOMAIN logs' \subseteq DOMAIN logs
           /\ \A n \in DOMAIN logs' : logs'[n] = logs[n]
           /\ \A n \in DOMAIN logs : n >= log => n \in DOMAIN logs'
           /\ ~bg_error_ => \A n \in DOMAIN logs' : n >= log
           /\ DOMAIN manifests' \subseteq DOMAIN manifests
           /\ \A n \in DOMAIN manifests' : manifests'[n] = manifests[n]
           /\ \A n \in DOMAIN manifests : n >= manifest_file_number_ => n \in DOMAIN manifests'
           /\ DOMAIN tables' \subseteq DOMAIN tables
           /\ \A n \in DOMAIN tables' : tables'[n] = tables[n]
           /\ \A n \in DOMAIN tables :
                 n \in Numbers(fs) \cup pending \cup PinnedFiles => n \in DOMAIN tables'
           /\ bg_error_ => DOMAIN tables' = DOMAIN tables
<1>1. CASE bg_error_
  BY <1>1 DEF DeleteObsoleteFiles, disk, DiskType
<1>2. CASE ~bg_error_
  <2> DEFINE L == {n \in DOMAIN logs : KeepsLog(n, log)}
             M == {n \in DOMAIN manifests : n >= manifest_file_number_}
             T == LiveTables(fs, pending, PinnedFiles)
  <2>1. /\ logs' = Restricted(logs, L) /\ manifests' = Restricted(manifests, M)
        /\ tables' = Restricted(tables, T) /\ current' = current
    BY <1>2 DEF DeleteObsoleteFiles
  <2>2. \A n \in DOMAIN logs : n \in L <=> n >= log
    BY DEF KeepsLog
  <2>3. \A n \in DOMAIN manifests : n \in M <=> n >= manifest_file_number_
    OBVIOUS
  <2>4. T = Numbers(fs) \cup pending \cup PinnedFiles
    BY DEF LiveTables
  <2> HIDE DEF L, M, T
  <2>5. /\ FilesTyped(logs', LogType) /\ DOMAIN logs' = DOMAIN logs \cap L
        /\ \A x \in DOMAIN logs \cap L : logs'[x] = logs[x]
    BY <2>1, RestrictedTyped DEF DiskType
  <2>6. /\ FilesTyped(manifests', ManifestType) /\ DOMAIN manifests' = DOMAIN manifests \cap M
        /\ \A x \in DOMAIN manifests \cap M : manifests'[x] = manifests[x]
    BY <2>1, RestrictedTyped DEF DiskType
  <2>7. /\ FilesTyped(tables', SUBSET Entries) /\ DOMAIN tables' = DOMAIN tables \cap T
        /\ \A x \in DOMAIN tables \cap T : tables'[x] = tables[x]
    BY <2>1, RestrictedTyped DEF DiskType
  <2>8. DiskType'
    BY <2>1, <2>5, <2>6, <2>7 DEF DiskType
  <2> QED BY <1>2, <2>1, <2>2, <2>3, <2>4, <2>5, <2>6, <2>7, <2>8
<1> QED BY <1>1, <1>2

LEMMA SequenceElements ==
    ASSUME NEW S, NEW s \in Seq(S)
    PROVE  DOMAIN s = 1 .. Len(s) /\ Len(s) \in Nat /\ \A i \in 1 .. Len(s) : s[i] \in S
OBVIOUS

LEMMA ReadableWithin ==
    ASSUME NEW log, NEW k, NEW is \in ReadableIn(log, k)
    PROVE  is \subseteq DOMAIN log.records
BY DEF ReadableIn

(***************************************************************************)
(* What recovery reads: entries of the log, with a greatest sequence       *)
(* number among them.                                                      *)
(***************************************************************************)
LEMMA LogRead ==
    ASSUME Inv1, status = "recovering", rec.logs # {},
           NEW n, n = ThisLog, NEW is, is \subseteq DOMAIN logs[n].records,
           NEW found, found = Found(n, is), NEW seen, seen = Seen(found)
    PROVE  /\ n \in rec.logs /\ n \in DOMAIN logs /\ n \in Nat
           /\ found \in SUBSET Entries
           /\ found \subseteq UNION {logs[n].records[i].entries : i \in 1 .. Len(logs[n].records)}
           /\ seen \in Nat /\ seen >= rec.max_sequence /\ \A e \in found : e[1] <= seen
           /\ DOMAIN logs[n].records = 1 .. Len(logs[n].records)
<1>1. rec \in RecType /\ rec.logs \subseteq DOMAIN logs /\ DOMAIN logs \subseteq Nat
  BY DEF Inv1, TypeInv, WorkType, DiskType, FilesTyped, Struct, OpeningOK, Opening_
<1>2. n \in rec.logs
  BY <1>1, MinOfIsLeast DEF ThisLog
<1>3. n \in DOMAIN logs /\ n \in Nat /\ logs[n] \in LogType
  BY <1>1, <1>2 DEF Inv1, TypeInv, DiskType, FilesTyped
<1>4. logs[n].records \in LogRecords
  BY <1>3 DEF LogType
<1>5. DOMAIN logs[n].records = 1 .. Len(logs[n].records)
      /\ \A i \in 1 .. Len(logs[n].records) : logs[n].records[i].entries \in SUBSET Entries
  <2>1. PICK q : q = logs[n].records
    OBVIOUS
  <2>2. q \in Seq([entries : SUBSET Entries, ok : BOOLEAN])
    BY <1>4, <2>1 DEF LogRecords
  <2>3. DOMAIN q = 1 .. Len(q) /\ \A i \in 1 .. Len(q) : q[i] \in [entries : SUBSET Entries, ok : BOOLEAN]
    BY <2>2, SequenceElements
  <2> QED BY <2>1, <2>3
<1>6. is \subseteq 1 .. Len(logs[n].records)
  BY <1>5
<1>7. found \in SUBSET Entries
      /\ found \subseteq UNION {logs[n].records[i].entries : i \in 1 .. Len(logs[n].records)}
  BY <1>5, <1>6 DEF Found
<1>8. PICK b \in Nat : \A i \in 1 .. Len(logs[n].records) :
                          \A e \in logs[n].records[i].entries : e[1] <= b
  BY <1>3 DEF Inv1, TypeInv, Bounded
<1>9. \A e \in found : e[1] \in Nat /\ e[1] <= b
  BY <1>6, <1>7, <1>8 DEF Entries, Found
<1> DEFINE T == {rec.max_sequence} \cup {e[1] : e \in found}
<1>10. rec.max_sequence \in Nat
  BY <1>1 DEF RecType
<1>11. T \subseteq Nat /\ T # {}
  BY <1>9, <1>10
<1>12. PICK c \in Nat : \A y \in T : y <= c
  <2>1. CASE rec.max_sequence <= b
    BY <1>9, <2>1
  <2>2. CASE ~ (rec.max_sequence <= b)
    <3>1. \A y \in T : y <= rec.max_sequence
      BY <1>9, <1>10, <2>2
    <3> QED BY <1>10, <3>1
  <2> QED BY <2>1, <2>2
<1>13. MaxOf(T) \in T /\ \A y \in T : y <= MaxOf(T)
  <2> HIDE DEF T
  <2> QED BY <1>11, <1>12, MaxOfIsGreatest
<1>14. seen \in Nat /\ seen >= rec.max_sequence /\ \A e \in found : e[1] <= seen
  BY <1>11, <1>13 DEF Seen
<1> QED BY <1>2, <1>3, <1>5, <1>7, <1>14

(***************************************************************************)
(* A step of recovery reads some records of this log behind the last that  *)
(* it read: it makes a table of what is in them, or it does not, and goes  *)
(* on behind record k, or has done with the log.                           *)
(***************************************************************************)
Recovery == RecoverTable \/ RecoverLogFile
TableAdded(found) ==
    /\ tables' = With(tables, next_file_number_, found)
    /\ rec'.add = rec.add \cup {Table(next_file_number_, 0)} /\ rec'.max_sequence = Seen(found)
NoTable(found) ==
    /\ tables' = tables /\ rec'.add = rec.add
    /\ rec'.max_sequence \in {rec.max_sequence, Seen(found)}
GoesOn(n, k) ==
    /\ rec'.logs = rec.logs /\ rec'.read = k /\ rec'.ok = rec.ok
    /\ promised' = promised /\ flaws' = flaws
HasDone(n) ==
    /\ rec'.logs = rec.logs \ {n} /\ rec'.read = 0
    /\ next_file_number_' > n
    /\ flaws \subseteq flaws' /\ promised' \subseteq promised
    /\ rec'.ok /\ ~rec.ok => "masked error" \in flaws'

LogRun(n, is, k, found) ==
    /\ n = ThisLog /\ n \in rec.logs /\ n \in DOMAIN logs /\ n \in Nat
    /\ is \in ReadableIn(logs[n], rec.read)
    /\ found = Found(n, UpTo(is, k)) /\ found \in SUBSET Entries
    /\ \A e \in found : \E i \in 1 .. Len(logs[n].records) : e \in logs[n].records[i].entries
    /\ \A e \in found : e[1] <= Seen(found)
    /\ rec'.max_sequence >= rec.max_sequence
    /\ next_file_number_' \in Nat /\ next_file_number_' >= next_file_number_
    /\ rec' \in RecType
    /\ NoTable(found) \/ (TableAdded(found) /\ next_file_number_' > next_file_number_)
    /\ \/ k \in is /\ GoesOn(n, k) /\ TableAdded(found)
       \/ HasDone(n) /\ (rec'.ok =>
             /\ found = {} \/ TableAdded(found)
             /\ promised' = {p \in promised : p[1] \notin Found(n, is \ UpTo(is, k))})

LEMMA RecTyped ==
    ASSUME Inv1, status = "recovering"
    PROVE  /\ rec \in RecType /\ rec.logs \subseteq Nat /\ next_file_number_ \in Nat
           /\ DOMAIN rec = {"logs", "read", "add", "max_sequence", "ok"}
           /\ Table(next_file_number_, 0) \in FileType
<1>1. rec \in RecType /\ next_file_number_ \in Nat
  BY DEF Inv1, TypeInv, WorkType, VsetType, Opening_
<1>2. Table(next_file_number_, 0) \in FileType
  BY <1>1 DEF Table, FileType
<1> QED BY <1>1, <1>2 DEF RecType

LEMMA LogDoneIs ==
    ASSUME Inv1, status = "recovering", NEW n, n = ThisLog
    PROVE  /\ LogDone(TRUE)  = [logs |-> rec.logs \ {n}, read |-> 0, add |-> rec.add,
                                max_sequence |-> rec.max_sequence, ok |-> TRUE]
           /\ LogDone(FALSE) = [logs |-> rec.logs \ {n}, read |-> 0, add |-> rec.add,
                                max_sequence |-> rec.max_sequence, ok |-> FALSE]
<1>1. PICK ls : ls = rec.logs \ {n}
  OBVIOUS
<1>2. rec \in [logs : SUBSET Nat, read : Nat, add : SUBSET FileType, max_sequence : Nat, ok : BOOLEAN]
  BY RecTyped DEF RecType
<1>3. LogDone(TRUE) = [logs |-> ls, read |-> 0, add |-> rec.add,
                       max_sequence |-> rec.max_sequence, ok |-> TRUE]
  <2>1. LogDone(TRUE) = [rec EXCEPT !.logs = ls, !.read = 0, !.ok = TRUE]
    BY <1>1 DEF LogDone
  <2> QED BY <1>2, <2>1
<1>4. LogDone(FALSE) = [logs |-> ls, read |-> 0, add |-> rec.add,
                        max_sequence |-> rec.max_sequence, ok |-> FALSE]
  <2>1. LogDone(FALSE) = [rec EXCEPT !.logs = ls, !.read = 0, !.ok = FALSE]
    BY <1>1 DEF LogDone
  <2> QED BY <1>2, <2>1
<1> QED BY <1>1, <1>3, <1>4 DEF LogDone

LEMMA RecoveredLog ==
    ASSUME Inv1, Recovery
    PROVE  /\ status = "recovering"
           /\ \E n, is, k, found : LogRun(n, is, k, found)
<1>1. status = "recovering" /\ rec.logs # {}
  BY DEF Recovery, RecoverTable, RecoverLogFile, Recovering
<1>2. /\ rec \in RecType /\ next_file_number_ \in Nat /\ Table(next_file_number_, 0) \in FileType
      /\ rec.logs \in SUBSET Nat /\ rec.read \in Nat /\ rec.add \in SUBSET FileType
      /\ rec.max_sequence \in Nat /\ rec.ok \in BOOLEAN
  BY <1>1, RecTyped DEF RecType
<1>3. PICK n, t : n = ThisLog /\ t = Table(next_file_number_, 0)
  OBVIOUS
<1> DEFINE Ended == [logs |-> rec.logs \ {n}, read |-> 0, add |-> rec.add,
                     max_sequence |-> rec.max_sequence, ok |-> TRUE]
           Failed == [logs |-> rec.logs \ {n}, read |-> 0, add |-> rec.add,
                      max_sequence |-> rec.max_sequence, ok |-> FALSE]
           Masked == flaws' = flaws \/ (flaws' = flaws \cup {"masked error"})
           MaskedIf == Masked /\ (~rec.ok => "masked error" \in flaws')
           Left(is, k) == promised' = {p \in promised : p[1] \notin Found(n, is \ UpTo(is, k))}
           TableFails(found) ==
             /\ rec' = [Failed EXCEPT !.max_sequence = Seen(found)] /\ UNCHANGED tables
             /\ next_file_number_' = MarkFileNumberUsed(next_file_number_ + 1, n)
             /\ flaws' = flaws
           MidTable(is, k, found) ==
             /\ k \in is /\ Tabled(found, [rec EXCEPT !.read = k])
             /\ next_file_number_' = next_file_number_ + 1
             /\ promised' = promised /\ flaws' = flaws
           LastTable(is, k, found) ==
             /\ Tabled(found, Ended) /\ MaskedIf /\ Left(is, k)
             /\ next_file_number_' = MarkFileNumberUsed(next_file_number_ + 1, n)
           NoLast(is, k, found) ==
             /\ found = {} /\ rec' = Ended /\ UNCHANGED tables /\ MaskedIf /\ Left(is, k)
             /\ next_file_number_' = MarkFileNumberUsed(next_file_number_, n)
<1>0. Ended = LogDone(TRUE) /\ Failed = LogDone(FALSE)
  BY <1>1, <1>3, LogDoneIs DEF LogDone
<1>4. PICK is, k, found :
         /\ is \in ReadableIn(logs[n], rec.read) /\ found = Found(n, UpTo(is, k))
         /\ \/ MidTable(is, k, found)
            \/ TableFails(found) /\ (promised' = promised \/ Left(is, k))
            \/ NoLast(is, k, found)
            \/ LastTable(is, k, found)
  <2>1. CASE RecoverTable
    <3>1. PICK is, k, found :
             /\ is \in ReadableIn(logs[n], rec.read) /\ found = Found(n, UpTo(is, k)) /\ k \in is
             /\ \/ /\ Tabled(found, [rec EXCEPT !.read = k])
                   /\ next_file_number_' = next_file_number_ + 1
                \/ /\ rec' = [LogDone(FALSE) EXCEPT !.max_sequence = Seen(found)]
                   /\ next_file_number_' = MarkFileNumberUsed(next_file_number_ + 1, n)
                   /\ UNCHANGED tables
      BY <1>3, <2>1, Zenon DEF RecoverTable
    <3>2. promised' = promised /\ flaws' = flaws
      BY <2>1 DEF RecoverTable
    <3>3. CASE Tabled(found, [rec EXCEPT !.read = k]) /\ next_file_number_' = next_file_number_ + 1
      <4>1. MidTable(is, k, found)
        BY <3>1, <3>2, <3>3, Zenon
      <4> HIDE DEF MidTable, TableFails, NoLast, LastTable
      <4> QED BY <3>1, <4>1
    <3>4. CASE /\ rec' = [LogDone(FALSE) EXCEPT !.max_sequence = Seen(found)]
               /\ next_file_number_' = MarkFileNumberUsed(next_file_number_ + 1, n)
               /\ UNCHANGED tables
      <4>1. TableFails(found)
        BY <1>0, <3>2, <3>4, Zenon
      <4> HIDE DEF MidTable, TableFails, NoLast, LastTable
      <4> QED BY <3>1, <3>2, <4>1
    <3> QED BY <3>1, <3>3, <3>4, Zenon
  <2>2. CASE RecoverLogFile
    <3>0. PICK is, k :
           /\ is \in ReadableIn(logs[n], rec.read)
           /\ Left(is, k)
           /\ \/ /\ IF Found(n, UpTo(is, k)) = {} THEN rec' = LogDone(TRUE) /\ UNCHANGED tables
                    ELSE Tabled(Found(n, UpTo(is, k)), LogDone(TRUE))
                 /\ flaws' = flaws \cup IF rec.ok THEN {} ELSE {"masked error"}
              \/ /\ Found(n, UpTo(is, k)) # {}
                 /\ rec' = [LogDone(FALSE) EXCEPT !.max_sequence = Seen(Found(n, UpTo(is, k)))]
                 /\ UNCHANGED <<tables, flaws>>
           /\ next_file_number_' = MarkFileNumberUsed(
                 IF Found(n, UpTo(is, k)) = {} THEN next_file_number_ ELSE next_file_number_ + 1, n)
      BY <1>3, <2>2, Zenon DEF RecoverLogFile
    <3>9. PICK found : found = Found(n, UpTo(is, k))
      OBVIOUS
    <3>1. /\ is \in ReadableIn(logs[n], rec.read) /\ found = Found(n, UpTo(is, k)) /\ Left(is, k)
          /\ \/ /\ IF found = {} THEN rec' = LogDone(TRUE) /\ UNCHANGED tables
                   ELSE Tabled(found, LogDone(TRUE))
                /\ flaws' = flaws \cup IF rec.ok THEN {} ELSE {"masked error"}
             \/ /\ found # {}
                /\ rec' = [LogDone(FALSE) EXCEPT !.max_sequence = Seen(found)]
                /\ UNCHANGED <<tables, flaws>>
          /\ next_file_number_' = MarkFileNumberUsed(
                IF found = {} THEN next_file_number_ ELSE next_file_number_ + 1, n)
      BY <3>0, <3>9, Zenon
    <3>2. CASE /\ found # {}
               /\ rec' = [LogDone(FALSE) EXCEPT !.max_sequence = Seen(found)]
               /\ UNCHANGED <<tables, flaws>>
      <4>1. next_file_number_' = MarkFileNumberUsed(next_file_number_ + 1, n)
        BY <3>1, <3>2, Zenon
      <4>2. TableFails(found)
        BY <1>0, <3>2, <4>1, Zenon
      <4> HIDE DEF MidTable, TableFails, NoLast, LastTable, Left
      <4> QED BY <3>1, <4>2
    <3>3. CASE /\ IF found = {} THEN rec' = LogDone(TRUE) /\ UNCHANGED tables
                  ELSE Tabled(found, LogDone(TRUE))
               /\ flaws' = flaws \cup IF rec.ok THEN {} ELSE {"masked error"}
      <4>1. MaskedIf
        BY <3>3
      <4>2. CASE found = {}
        <5>1. rec' = Ended /\ UNCHANGED tables
          BY <1>0, <3>3, <4>2, Zenon
        <5>2. next_file_number_' = MarkFileNumberUsed(next_file_number_, n)
          BY <3>1, <4>2, Zenon
        <5> HIDE DEF MaskedIf, Left, Ended
        <5>3. NoLast(is, k, found)
          BY <3>1, <4>1, <4>2, <5>1, <5>2, Zenon
        <5> HIDE DEF MidTable, TableFails, NoLast, LastTable
        <5> QED BY <3>1, <5>3
      <4>3. CASE found # {}
        <5>1. Tabled(found, Ended)
          BY <1>0, <3>3, <4>3, Zenon
        <5>2. next_file_number_' = MarkFileNumberUsed(next_file_number_ + 1, n)
          BY <3>1, <4>3, Zenon
        <5> HIDE DEF MaskedIf, Left, Ended
        <5>3. LastTable(is, k, found)
          BY <3>1, <4>1, <5>1, <5>2, Zenon
        <5> HIDE DEF MidTable, TableFails, NoLast, LastTable
        <5> QED BY <3>1, <5>3
      <4> QED BY <4>2, <4>3
    <3> QED BY <3>1, <3>2, <3>3, Zenon
  <2> QED BY <2>1, <2>2 DEF Recovery
<1>5. UpTo(is, k) \subseteq DOMAIN logs[n].records
  BY <1>4, ReadableWithin DEF UpTo
<1>6. PICK seen : seen = Seen(found)
  OBVIOUS
<1>7. /\ n \in rec.logs /\ n \in DOMAIN logs /\ n \in Nat /\ found \in SUBSET Entries
      /\ found \subseteq UNION {logs[n].records[i].entries : i \in 1 .. Len(logs[n].records)}
      /\ seen \in Nat /\ seen >= rec.max_sequence /\ \A e \in found : e[1] <= seen
      /\ DOMAIN logs[n].records = 1 .. Len(logs[n].records)
  <2>1. PICK js : js = UpTo(is, k)
    OBVIOUS
  <2>2. js \subseteq DOMAIN logs[n].records /\ found = Found(n, js)
    BY <1>4, <1>5, <2>1
  <2> QED BY <1>1, <1>3, <1>6, <2>2, LogRead
<1>8. \A e \in found : \E i \in 1 .. Len(logs[n].records) : e \in logs[n].records[i].entries
  BY <1>7
<1>9. ASSUME NEW used \in {next_file_number_, next_file_number_ + 1},
             next_file_number_' = MarkFileNumberUsed(used, n)
      PROVE  /\ next_file_number_' \in Nat /\ next_file_number_' > n
             /\ next_file_number_' >= next_file_number_
             /\ used = next_file_number_ + 1 => next_file_number_' > next_file_number_
  BY <1>2, <1>7, <1>9 DEF MarkFileNumberUsed
<1>10. /\ Table(next_file_number_, 0) \in FileType /\ rec.logs \ {n} \in SUBSET Nat
       /\ rec.add \cup {t} \in SUBSET FileType
       /\ rec \in [logs : SUBSET Nat, read : Nat, add : SUBSET FileType, max_sequence : Nat, ok : BOOLEAN]
  BY <1>2, <1>3 DEF RecType
<1> DEFINE Numbered ==
             /\ next_file_number_' \in Nat /\ next_file_number_' >= next_file_number_
           Shown ==
             /\ rec'.max_sequence >= rec.max_sequence
             /\ Numbered
             /\ rec' \in RecType
             /\ NoTable(found) \/ (TableAdded(found) /\ next_file_number_' > next_file_number_)
             /\ \/ k \in is /\ GoesOn(n, k) /\ TableAdded(found)
                \/ HasDone(n) /\ (rec'.ok =>
                      /\ found = {} \/ TableAdded(found)
                      /\ Left(is, k))
<1>11. ASSUME MidTable(is, k, found) PROVE Shown
  <2>1. k \in Nat
    <3>1. is \subseteq 1 .. Len(logs[n].records) /\ k \in is
      BY <1>4, <1>7, <1>11, ReadableWithin
    <3> QED BY <3>1
  <2>2. rec' = [logs |-> rec.logs, read |-> k, add |-> rec.add \cup {t}, max_sequence |-> seen,
                ok |-> rec.ok]
    BY <1>3, <1>6, <1>10, <1>11 DEF Tabled
  <2>3. rec' \in RecType
    BY <1>2, <1>7, <1>10, <2>1, <2>2 DEF RecType
  <2>4. tables' = With(tables, next_file_number_, found)
    BY <1>11 DEF Tabled
  <2>5. TableAdded(found)
    BY <1>3, <1>6, <2>2, <2>4 DEF TableAdded
  <2>6. GoesOn(n, k) /\ k \in is
    BY <1>11, <2>2 DEF GoesOn
  <2>7. Numbered /\ next_file_number_' > next_file_number_
    BY <1>2, <1>11
  <2>8. rec'.max_sequence >= rec.max_sequence
    BY <1>7, <2>2
  <2> HIDE DEF Numbered, Left
  <2> QED BY <2>3, <2>5, <2>6, <2>7, <2>8, Zenon
<1>12. ASSUME TableFails(found), promised' = promised \/ Left(is, k) PROVE Shown
  <2>1. rec' = [logs |-> rec.logs \ {n}, read |-> 0, add |-> rec.add, max_sequence |-> seen, ok |-> FALSE]
    BY <1>6, <1>12
  <2>2. rec' \in RecType
    BY <1>2, <1>7, <1>10, <2>1 DEF RecType
  <2>3. tables' = tables /\ flaws' = flaws /\ promised' \subseteq promised
    BY <1>12
  <2>4. next_file_number_' = MarkFileNumberUsed(next_file_number_ + 1, n)
    BY <1>12
  <2>5. Numbered /\ next_file_number_' > n
    BY <1>9, <2>4
  <2>6. NoTable(found)
    BY <1>6, <2>1, <2>3 DEF NoTable
  <2>7. HasDone(n) /\ ~rec'.ok
    BY <2>1, <2>3, <2>5 DEF HasDone
  <2>8. rec'.max_sequence >= rec.max_sequence
    BY <1>7, <2>1
  <2> HIDE DEF Numbered, Left
  <2> QED BY <2>2, <2>5, <2>6, <2>7, <2>8, Zenon
<1>13. ASSUME NoLast(is, k, found) PROVE Shown
  <2>1. rec' = Ended /\ tables' = tables /\ found = {}
    BY <1>13
  <2>2. rec' \in RecType
    BY <1>2, <1>10, <2>1 DEF RecType
  <2>3. flaws \subseteq flaws' /\ promised' \subseteq promised /\ Left(is, k)
        /\ (~rec.ok => "masked error" \in flaws')
    BY <1>13
  <2>4. next_file_number_' = MarkFileNumberUsed(next_file_number_, n)
    BY <1>13
  <2>5. Numbered /\ next_file_number_' > n
    BY <1>9, <2>4
  <2>6. NoTable(found)
    BY <2>1 DEF NoTable
  <2>7. HasDone(n)
    BY <2>1, <2>3, <2>5 DEF HasDone
  <2>8. rec'.max_sequence >= rec.max_sequence
    BY <1>2, <2>1
  <2> HIDE DEF Numbered, Left, Ended
  <2> QED BY <2>1, <2>2, <2>3, <2>5, <2>6, <2>7, <2>8, Zenon
<1>14. ASSUME LastTable(is, k, found) PROVE Shown
  <2>1. rec' = [logs |-> rec.logs \ {n}, read |-> 0, add |-> rec.add \cup {t},
                max_sequence |-> seen, ok |-> TRUE]
    BY <1>3, <1>6, <1>14 DEF Tabled
  <2>2. rec' \in RecType
    BY <1>7, <1>10, <2>1 DEF RecType
  <2>3. flaws \subseteq flaws' /\ promised' \subseteq promised /\ Left(is, k)
        /\ (~rec.ok => "masked error" \in flaws')
    BY <1>14
  <2>4. next_file_number_' = MarkFileNumberUsed(next_file_number_ + 1, n)
    BY <1>14
  <2>5. Numbered /\ next_file_number_' > n /\ next_file_number_' > next_file_number_
    BY <1>9, <2>4
  <2>6. tables' = With(tables, next_file_number_, found)
    BY <1>14 DEF Tabled
  <2>7. TableAdded(found)
    BY <1>3, <1>6, <2>1, <2>6 DEF TableAdded
  <2>8. HasDone(n)
    BY <2>1, <2>3, <2>5 DEF HasDone
  <2>9. rec'.max_sequence >= rec.max_sequence
    BY <1>7, <2>1
  <2> HIDE DEF Numbered, Left
  <2> QED BY <2>2, <2>3, <2>5, <2>7, <2>8, <2>9, Zenon
<1>15. Shown
  <2> HIDE DEF Shown, MidTable, TableFails, NoLast, LastTable
  <2> QED BY <1>4, <1>11, <1>12, <1>13, <1>14, Zenon
<1>16. \A e \in found : e[1] <= Seen(found)
  BY <1>6, <1>7
<1>17. LogRun(n, is, k, found)
  BY <1>3, <1>4, <1>7, <1>8, <1>15, <1>16, Zenon DEF LogRun
<1> QED BY <1>1, <1>17

LEMMA RecoveredRec ==
    ASSUME Inv1, Recovery
    PROVE  rec' \in RecType /\ promised' \subseteq promised /\ (rec'.ok => rec.ok \/ flaws' # {})
<1>1. PICK n, is, k, found : LogRun(n, is, k, found)
  BY RecoveredLog
<1> QED BY <1>1 DEF LogRun, GoesOn, HasDone

LEMMA RecoveredTables ==
    ASSUME Inv1, Recovery
    PROVE  \E n \in rec.logs, found \in SUBSET Entries :
              /\ n \in Nat /\ next_file_number_' \in Nat
              /\ next_file_number_' >= next_file_number_
              /\ rec'.logs = rec.logs \/ (rec'.logs = rec.logs \ {n} /\ next_file_number_' > n)
              /\ \/ tables' = tables /\ rec'.add = rec.add
                 \/ /\ tables' = With(tables, next_file_number_, found)
                    /\ rec'.add = rec.add \cup {Table(next_file_number_, 0)}
                    /\ next_file_number_' > next_file_number_
<1>1. PICK n, is, k, found : LogRun(n, is, k, found)
  BY RecoveredLog
<1>2. n \in rec.logs /\ found \in SUBSET Entries
  BY <1>1 DEF LogRun
<1>3. /\ n \in Nat /\ next_file_number_' \in Nat
      /\ next_file_number_' >= next_file_number_
      /\ rec'.logs = rec.logs \/ (rec'.logs = rec.logs \ {n} /\ next_file_number_' > n)
  BY <1>1, Zenon DEF LogRun, GoesOn, HasDone
<1>4. \/ tables' = tables /\ rec'.add = rec.add
      \/ /\ tables' = With(tables, next_file_number_, found)
         /\ rec'.add = rec.add \cup {Table(next_file_number_, 0)}
         /\ next_file_number_' > next_file_number_
  BY <1>1, Zenon DEF LogRun, NoTable, TableAdded
<1> QED BY <1>2, <1>3, <1>4, Zenon


LEMMA GreaterOfTwo ==
    ASSUME NEW a \in Nat, NEW b \in Nat
    PROVE  MaxOf({a, b}) \in Nat /\ MaxOf({a, b}) >= a /\ MaxOf({a, b}) >= b
<1>1. PICK c \in Nat : a <= c /\ b <= c
  <2>1. a <= a + b /\ b <= a + b /\ a + b \in Nat
    OBVIOUS
  <2> QED BY <2>1
<1>2. MaxOf({a, b}) \in {a, b} /\ \A y \in {a, b} : y <= MaxOf({a, b})
  BY <1>1, MaxOfIsGreatest
<1> QED BY <1>2

LEMMA DiskTyped ==
    ASSUME Inv1, [Next]_vars
    PROVE  DiskType'
<1> USE DEF Inv1, TypeInv
<1>0. /\ DiskType /\ current \in Nat
      /\ FilesTyped(manifests, ManifestType) /\ FilesTyped(logs, LogType)
      /\ FilesTyped(tables, SUBSET Entries)
  BY DEF DiskType
<1>1. CASE SwitchMemTable
  <2>1. FilesTyped(logs', LogType)
    BY <1>0, <1>1, WithTyped, EmptyLogTyped DEF SwitchMemTable, VsetType
  <2> QED BY <1>0, <1>1, <2>1 DEF SwitchMemTable, DiskType
<1>2. CASE LogGroup
  <2>1. logfile_number_ \in DOMAIN logs
    BY <1>2, OnlyWhenOpen DEF LogGroup, Struct, OpenOK
  <2>2. writing.entries \in SUBSET Entries
    BY <1>2 DEF LogGroup, QueueType, WritingType
  <2>3. PICK log : log = logs[logfile_number_] /\ log \in LogType
    BY <1>0, <2>1 DEF FilesTyped
  <2>4. PICK q1, q2 : /\ q1 = Append1(log, TRUE) /\ q2 = Append1(log, FALSE)
    OBVIOUS
  <2>5. q1 \in LogType /\ q2 \in LogType /\ Synced(q1) \in LogType
    BY <2>2, <2>3, <2>4, AppendLog DEF Append1
  <2>6. PICK q \in {q1, q2, Synced(q1)} : logs' = [logs EXCEPT ![logfile_number_] = q]
    BY <1>2, <2>3, <2>4 DEF LogGroup
  <2>7. q \in LogType
    BY <2>5, <2>6
  <2>8. FilesTyped(logs', LogType)
    BY <1>0, <2>1, <2>6, <2>7, ExceptTyped
  <2> QED BY <1>0, <1>2, <2>8 DEF LogGroup, DiskType
<1>3. CASE FlushBuilt \/ FlushFails
  <2>1. imm_.entries \in SUBSET Entries /\ bg.number \in Nat
    BY <1>3, OnlyWhenOpen DEF FlushBuilt, FlushFails, Struct, BackgroundOK, VsetType, WorkType, BgType
  <2>2. PICK T : T = With(tables, bg.number, imm_.entries)
    OBVIOUS
  <2>3. FilesTyped(T, SUBSET Entries)
    BY <1>0, <2>1, <2>2, WithTyped
  <2>4. tables' = tables \/ tables' = T
    BY <1>3, <2>2 DEF FlushBuilt, FlushFails
  <2>5. FilesTyped(tables', SUBSET Entries)
    BY <1>0, <2>3, <2>4
  <2> QED BY <1>0, <1>3, <2>5 DEF FlushBuilt, FlushFails, DiskType
<1>4. CASE ManifestRecord
  <2>1. manifest_file_number_ \in DOMAIN manifests
    BY <1>4, OnlyWhenOpen DEF ManifestRecord, Struct, OpenOK, CurrentOK, ManifestOK
  <2>2. bg.edit \in EditType \cup {None}
    BY DEF WorkType, BgType
  <2>3. PICK m : m = manifests[manifest_file_number_] /\ m \in ManifestType
    BY <1>0, <2>1 DEF FilesTyped
  <2>4. \A r \in {None, bg.edit} : LET q == [m EXCEPT !.records = Append(@, r)]
                                   IN q \in ManifestType /\ Synced(q) \in ManifestType
    BY <2>2, <2>3, AppendManifest
  <2>5. PICK q \in ManifestType : manifests' = [manifests EXCEPT ![manifest_file_number_] = q]
    <3>1. CASE \E r \in {None, bg.edit} : manifests' =
                   [manifests EXCEPT ![manifest_file_number_].records = Append(@, r)]
      BY <2>3, <2>4, <3>1
    <3>2. CASE manifests' = [manifests EXCEPT ![manifest_file_number_] =
                                Synced([m EXCEPT !.records = Append(@, bg.edit)])]
      BY <2>4, <3>2
    <3> QED BY <1>4, <2>3, <3>1, <3>2 DEF ManifestRecord
  <2>6. FilesTyped(manifests', ManifestType)
    BY <1>0, <2>1, <2>5, ExceptTyped
  <2> QED BY <1>0, <1>4, <2>6 DEF ManifestRecord, DiskType
<1>5. CASE FlushInstalled \/ CompactionInstalled
  <2>1. bg.edit # None /\ bg.edit \in EditType
    BY <1>5, OnlyWhenOpen DEF FlushInstalled, CompactionInstalled, Struct, BackgroundOK,
                              WorkType, BgType
  <2>2. log_number_' \in Nat
    BY <1>5, <2>1 DEF FlushInstalled, CompactionInstalled, EditType
  <2> QED BY <1>0, <1>5, <2>2, Deleting DEF FlushInstalled, CompactionInstalled, VsetType
<1>6. CASE OpenCompactionOutputFile
  <2>1. FilesTyped(tables', SUBSET Entries)
    BY <1>0, <1>6, WithTyped DEF OpenCompactionOutputFile, VsetType
  <2> QED BY <1>0, <1>6, <2>1 DEF OpenCompactionOutputFile, DiskType
<1>7. CASE MergeDone
  <2>1. status = "open" /\ compact # None
    BY <1>7, OnlyWhenOpen DEF MergeDone, Struct, BackgroundOK
  <2>2. compact.output \in DOMAIN tables /\ Numbers(compact.inputs) \subseteq DOMAIN tables
    BY <1>7, <2>1 DEF MergeDone, Struct, BackgroundOK, OpenOK, Numbers
  <2>3. PICK E : E = UNION {tables[n] : n \in Numbers(compact.inputs)}
    OBVIOUS
  <2>4. E \in SUBSET Entries
    BY <1>0, <2>2, <2>3 DEF FilesTyped
  <2>5. tables' = [tables EXCEPT ![compact.output] = E]
    BY <1>7, <2>3 DEF MergeDone
  <2>6. FilesTyped(tables', SUBSET Entries)
    BY <1>0, <2>2, <2>4, <2>5, ExceptTyped
  <2> QED BY <1>0, <1>7, <2>6 DEF MergeDone, DiskType
<1>8. CASE Crash
  BY <1>0, <1>8, ManifestsSurvive, LogsSurvive DEF Crash, DiskType
<1>9. CASE NewDB
  <2>1. [records |-> <<Edit({}, {}, 0, 2, 0)>>, synced |-> 0] \in ManifestType
    <3>1. Edit({}, {}, 0, 2, 0) \in EditType
      BY EditTyped
    <3> HIDE DEF Edit
    <3> QED BY <3>1 DEF ManifestType, Records
  <2>2. PICK m : m = [records |-> <<Edit({}, {}, 0, 2, 0)>>, synced |-> 0]
    OBVIOUS
  <2>3. FilesTyped(With(manifests, 1, m), ManifestType)
    BY <1>0, <2>1, <2>2, WithTyped
  <2>4. manifests' = With(manifests, 1, m) \/ manifests' = manifests
    BY <1>9, <2>2 DEF NewDB
  <2>5. FilesTyped(manifests', ManifestType)
    BY <1>0, <2>3, <2>4
  <2>6. current' \in Nat
    BY <1>0, <1>9 DEF NewDB
  <2> QED BY <1>0, <1>9, <2>5, <2>6 DEF NewDB, DiskType
<1>10. CASE Recovery
  <2>1. PICK found \in SUBSET Entries :
           tables' = tables \/ tables' = With(tables, next_file_number_, found)
    BY <1>10, RecoveredTables, Zenon
  <2>2. next_file_number_ \in Nat
    BY DEF VsetType
  <2>3. FilesTyped(With(tables, next_file_number_, found), SUBSET Entries)
    BY <1>0, <2>1, <2>2, WithTyped
  <2>4. FilesTyped(tables', SUBSET Entries)
    BY <1>0, <2>1, <2>3
  <2>5. UNCHANGED <<current, manifests, logs>>
    BY <1>10 DEF Recovery, RecoverTable, RecoverLogFile
  <2> QED BY <1>0, <2>4, <2>5 DEF DiskType
<1>11. CASE NewLogAndManifest
  <2>1. rec \in RecType /\ last_sequence_' \in Nat /\ next_file_number_' \in Nat
        /\ logfile_number_' \in Nat /\ manifest_file_number_ \in Nat /\ files_ \in SUBSET FileType
    BY <1>11, GreaterOfTwo DEF NewLogAndManifest, WorkType, Opening_, VsetType, RecType
  <2>2. Snapshot(files_) \in EditType
    BY <2>1, EditTyped DEF Snapshot
  <2>3. Edit(rec.add, {}, logfile_number_', next_file_number_', last_sequence_') \in EditType
    BY <2>1, EditTyped DEF RecType
  <2>4. PICK q : q = <<Snapshot(files_),
                       Edit(rec.add, {}, logfile_number_', next_file_number_', last_sequence_')>>
    OBVIOUS
  <2>5. q \in Records /\ Len(q) = 2
    BY <2>2, <2>3, <2>4 DEF Records
  <2>6. [records |-> q, synced |-> 2] \in ManifestType
    BY <2>5 DEF ManifestType
  <2>7. FilesTyped(manifests', ManifestType)
    BY <1>0, <1>11, <2>1, <2>4, <2>6, WithTyped DEF NewLogAndManifest
  <2>8. FilesTyped(logs', LogType)
    BY <1>0, <1>11, <2>1, WithTyped, EmptyLogTyped DEF NewLogAndManifest
  <2> QED BY <1>0, <1>11, <2>7, <2>8 DEF NewLogAndManifest, DiskType
<1>12. CASE SetCurrentFile
  BY <1>0, <1>12 DEF SetCurrentFile, DiskType, VsetType
<1>13. CASE OpenDone
  <2>1. log_number_' \in Nat
    BY <1>13 DEF OpenDone, VsetType
  <2> QED BY <1>0, <1>13, <2>1, Deleting DEF OpenDone, VsetType
<1>14. CASE OpenFails
  <2>1. PICK S : S = DOMAIN manifests \ {manifest_file_number_}
    OBVIOUS
  <2>2. FilesTyped(Restricted(manifests, S), ManifestType)
    BY <1>0, RestrictedTyped
  <2>3. manifests' = manifests \/ manifests' = Restricted(manifests, S)
    BY <1>14, <2>1 DEF OpenFails
  <2>4. FilesTyped(manifests', ManifestType)
    BY <1>0, <2>2, <2>3
  <2> QED BY <1>0, <1>14, <2>4 DEF OpenFails, DiskType
<1>15. CASE UNCHANGED disk
  BY <1>0, <1>15 DEF disk, DiskType
<1>16. CASE WriteFails \/ ForceReturns \/ ForceDone \/ BeginGroup \/ FinishGroup \/ Ref \/ Unref
              \/ ShutDown \/ Destroyed \/ Recover
  BY <1>15, <1>16 DEF WriteFails, ForceReturns, ForceDone, BeginGroup, FinishGroup, Ref, Unref,
                      ShutDown, Destroyed, Recover
<1>17. CASE NothingToDo \/ StartFlush \/ FlushNotInstalled \/ StartCompaction \/ CompactionFails
  BY <1>15, <1>17 DEF NothingToDo, StartFlush, FlushNotInstalled, StartCompaction, CompactionFails
<1>18. ASSUME NEW w \in Writers, NEW k \in Kinds[w], Enqueue(w, k) PROVE DiskType'
  BY <1>15, <1>18 DEF Enqueue
<1>19. CASE UNCHANGED vars
  BY <1>15, <1>19 DEF vars
<1> QED BY <1>1, <1>2, <1>3, <1>4, <1>5, <1>6, <1>7, <1>8, <1>9, <1>10, <1>11, <1>12, <1>13,
          <1>14, <1>16, <1>17, <1>18, <1>19
        DEF Next, Writing, Opening, Recovery, Background, Flushing, Compacting

LEMMA VsetTyped ==
    ASSUME Inv1, [Next]_vars
    PROVE  VsetType'
<1>0. VsetType /\ WorkType /\ QueueType /\ DiskType
  BY DEF Inv1, TypeInv
<1>1. CASE SwitchMemTable
  BY <1>0, <1>1 DEF SwitchMemTable, VsetType
<1>2. CASE LogGroup
  <2>1. writing.entries \in SUBSET Entries
    BY <1>0, <1>2 DEF LogGroup, QueueType, WritingType
  <2>2. mem_' = mem_ \/ mem_' = mem_ \cup writing.entries
    BY <1>2 DEF LogGroup
  <2>3. mem_' \in SUBSET Entries
    BY <1>0, <2>1, <2>2 DEF VsetType
  <2> QED BY <1>0, <1>2, <2>3 DEF LogGroup, VsetType, vset
<1>3. CASE FinishGroup
  <2>1. Cardinality(writing.entries) \in Nat /\ last_sequence_ \in Nat
    BY <1>0, <1>3, FS_CardinalityType DEF FinishGroup, QueueType, VsetType
  <2>2. last_sequence_' = last_sequence_ + Cardinality(writing.entries)
    BY <1>3 DEF FinishGroup, SequenceAfter
  <2>3. last_sequence_' \in Nat
    BY <2>1, <2>2
  <2> QED BY <1>0, <1>3, <2>3 DEF FinishGroup, VsetType, mems
<1>4. CASE StartFlush \/ OpenCompactionOutputFile
  BY <1>0, <1>4 DEF StartFlush, OpenCompactionOutputFile, VsetType, mems
<1>5. CASE FlushInstalled \/ CompactionInstalled
  <2>1. bg.edit \in EditType
    BY <1>0, <1>5, OnlyWhenOpen DEF FlushInstalled, CompactionInstalled, Inv1, Struct,
         BackgroundOK, WorkType, BgType
  <2>2. log_number_' \in Nat /\ files_' \in SUBSET FileType
    BY <1>0, <1>5, <2>1 DEF FlushInstalled, CompactionInstalled, Apply, EditType, VsetType
  <2> QED BY <1>0, <1>5, <2>2 DEF FlushInstalled, CompactionInstalled, VsetType, mems
<1>6. CASE Destroyed \/ Crash \/ OpenFails
  <2>1. Gone
    BY <1>6 DEF Destroyed, Crash, OpenFails
  <2> QED BY <2>1 DEF Gone, VsetType
<1>7. CASE Recover
  <2>1. CASE status' = "corrupt" /\ UNCHANGED vset
    BY <1>0, <1>7, <2>1 DEF Recover, VsetType, vset, mems
  <2>2. CASE ~ (status' = "corrupt" /\ UNCHANGED vset)
    <3>1. current \in DOMAIN manifests
      BY <1>7 DEF Recover, Inv1, Struct, CurrentOK, ManifestOK
    <3>2. PICK r : r = manifests[current].records
      OBVIOUS
    <3>3. r \in Records
      BY <1>0, <3>1, <3>2 DEF DiskType, FilesTyped, ManifestType
    <3>4. Len(r) \in Nat
      BY <3>3 DEF Records
    <3>5. PICK v : v = Replay(r, Len(r))
      OBVIOUS
    <3>6. v \in ViewType
      BY <3>3, <3>4, <3>5, ReplayTyped
    <3>7. /\ files_' = v.files /\ log_number_' = v.log /\ last_sequence_' = v.last
          /\ manifest_file_number_' = v.next /\ next_file_number_' = v.next + 1
      BY <1>7, <2>2, <3>2, <3>5 DEF Recover
    <3> QED BY <1>0, <1>7, <3>6, <3>7 DEF Recover, VsetType, ViewType, mems
  <2> QED BY <2>1, <2>2
<1>8. CASE Recovery
  <2>1. next_file_number_' \in Nat
    BY <1>8, RecoveredTables
  <2> QED BY <1>0, <1>8, <2>1 DEF Recovery, RecoverTable, RecoverLogFile, VsetType, mems
<1>9. CASE NewLogAndManifest
  <2>1. rec.max_sequence \in Nat
    BY <1>0, <1>9 DEF NewLogAndManifest, WorkType, Opening_, RecType
  <2>2. last_sequence_' \in Nat
    BY <1>0, <1>9, <2>1, GreaterOfTwo DEF NewLogAndManifest, VsetType
  <2> QED BY <1>0, <1>9, <2>2 DEF NewLogAndManifest, VsetType
<1>10. CASE OpenDone
  <2>1. rec.add \in SUBSET FileType
    BY <1>0, <1>10 DEF OpenDone, WorkType, Opening_, RecType
  <2> QED BY <1>0, <1>10, <2>1 DEF OpenDone, VsetType, mems
<1>11. CASE UNCHANGED <<mems, vset>>
  BY <1>0, <1>11 DEF VsetType, mems, vset
<1>12. CASE WriteFails \/ ForceReturns \/ ForceDone \/ BeginGroup \/ Ref \/ Unref \/ ShutDown \/ NewDB
              \/ SetCurrentFile
  BY <1>11, <1>12 DEF WriteFails, ForceReturns, ForceDone, BeginGroup, Ref, Unref, ShutDown, NewDB,
                      SetCurrentFile
<1>13. CASE NothingToDo \/ FlushBuilt \/ FlushFails \/ FlushNotInstalled \/ ManifestRecord
              \/ StartCompaction \/ MergeDone \/ CompactionFails
  BY <1>11, <1>13 DEF NothingToDo, FlushBuilt, FlushFails, FlushNotInstalled, ManifestRecord,
                      StartCompaction, MergeDone, CompactionFails
<1>14. ASSUME NEW w \in Writers, NEW k \in Kinds[w], Enqueue(w, k) PROVE VsetType'
  BY <1>11, <1>14 DEF Enqueue
<1>15. CASE UNCHANGED vars
  BY <1>11, <1>15 DEF vars
<1> QED BY <1>1, <1>2, <1>3, <1>4, <1>5, <1>6, <1>7, <1>8, <1>9, <1>10, <1>12, <1>13, <1>14,
          <1>15
        DEF Next, Writing, Opening, Recovery, Background, Flushing, Compacting

LEMMA WorkTyped ==
    ASSUME Inv1, [Next]_vars
    PROVE  WorkType'
<1>0. VsetType /\ WorkType /\ QueueType /\ DiskType
  BY DEF Inv1, TypeInv
<1>1. Idle \in BgType /\ [pc |-> "merge", number |-> 0, edit |-> None] \in BgType
  BY DEF Idle, BgType
<1>2. CASE FinishGroup
  BY <1>0, <1>2 DEF FinishGroup, WorkType
<1>3. CASE Ref
  <2>1. pinned' \in [files : SUBSET Nat]
    BY <1>0, <1>3 DEF Ref, Numbers, VsetType, FileType
  <2> QED BY <1>0, <1>3, <2>1 DEF Ref, WorkType, work
<1>4. CASE Unref
  BY <1>0, <1>4 DEF Unref, WorkType, work
<1>5. CASE NothingToDo
  BY <1>0, <1>1, <1>5 DEF NothingToDo, EndCall, WorkType
<1>6. CASE StartFlush
  <2>1. bg' \in BgType
    BY <1>0, <1>6 DEF StartFlush, VsetType, BgType
  <2> QED BY <1>0, <1>6, <2>1 DEF StartFlush, WorkType, VsetType
<1>7. CASE FlushBuilt
  <2>1. PICK l \in {0, 1} : \E add \in {{}, {Table(bg.number, l)}} :
           bg' = [pc |-> "flush", number |-> bg.number, edit |-> ApplyEdit(add, {}, FlushLog)]
    BY <1>7 DEF FlushBuilt
  <2>2. PICK add \in {{}, {Table(bg.number, l)}} :
           bg' = [pc |-> "flush", number |-> bg.number, edit |-> ApplyEdit(add, {}, FlushLog)]
    BY <2>1
  <2>3. bg.number \in Nat /\ add \in SUBSET FileType
    <3>1. bg.number \in Nat
      BY <1>0 DEF WorkType, BgType
    <3> QED BY <2>1, <2>2, <3>1, TableTyped, ZenonT(30)
  <2>4. ApplyEdit(add, {}, FlushLog) \in EditType
    BY <1>0, <2>3, EditTyped DEF ApplyEdit, FlushLog, VsetType
  <2>5. bg' \in BgType
    BY <2>2, <2>3, <2>4 DEF BgType
  <2> QED BY <1>0, <1>7, <2>5 DEF FlushBuilt, WorkType
<1>8. CASE FlushFails \/ FlushNotInstalled \/ FlushInstalled
  <2>1. bg' = Idle \/ bg' = [pc |-> "merge", number |-> 0, edit |-> None]
    BY <1>8 DEF FlushFails, FlushNotInstalled, FlushInstalled, AfterFlush, EndCall
  <2>2. bg' \in BgType
    BY <1>1, <2>1
  <2> QED BY <1>0, <1>8, <2>2 DEF FlushFails, FlushNotInstalled, FlushInstalled, WorkType
<1>9. CASE ManifestRecord
  <2>1. bg' \in BgType
    BY <1>0, <1>9 DEF ManifestRecord, WorkType, BgType
  <2> QED BY <1>0, <1>9, <2>1 DEF ManifestRecord, WorkType
<1>10. CASE StartCompaction
  <2>1. compact' \in CompactType
    BY <1>0, <1>10 DEF StartCompaction, CompactType, VsetType
  <2> QED BY <1>0, <1>1, <1>10, <2>1 DEF StartCompaction, WorkType
<1>11. CASE OpenCompactionOutputFile
  <2>1. compact # None
    BY <1>11, OnlyWhenOpen DEF OpenCompactionOutputFile, Inv1, Struct, BackgroundOK
  <2>2. compact' \in CompactType
    BY <1>0, <1>11, <2>1 DEF OpenCompactionOutputFile, WorkType, VsetType, CompactType
  <2> QED BY <1>0, <1>11, <2>2 DEF OpenCompactionOutputFile, WorkType, VsetType
<1>12. CASE MergeDone
  <2>1. compact # None
    BY <1>12, OnlyWhenOpen DEF MergeDone, Inv1, Struct, BackgroundOK
  <2>2. compact.inputs \in SUBSET FileType /\ {Table(compact.output, 1)} \in SUBSET FileType
    BY <1>0, <2>1, TableTyped DEF WorkType, CompactType
  <2>3. ApplyEdit({Table(compact.output, 1)}, compact.inputs, log_number_) \in EditType
    BY <1>0, <2>2, EditTyped DEF ApplyEdit, VsetType
  <2>4. bg' \in BgType
    BY <1>12, <2>3 DEF MergeDone, BgType
  <2> QED BY <1>0, <1>12, <2>4 DEF MergeDone, WorkType
<1>13. CASE CompactionInstalled \/ CompactionFails
  BY <1>0, <1>1, <1>13 DEF CompactionInstalled, CompactionFails, EndCall, Pending, WorkType
<1>14. CASE Destroyed \/ Crash \/ OpenFails
  <2>1. Gone
    BY <1>14 DEF Destroyed, Crash, OpenFails
  <2> QED BY <1>1, <2>1 DEF Gone, WorkType, Statuses, Opening_
<1>15. CASE Recover
  <2>1. CASE status' = "corrupt"
    BY <1>0, <1>15, <2>1 DEF Recover, WorkType, work, Statuses, Opening_
  <2>2. CASE status' # "corrupt"
    <3>1. PICK newer \in SUBSET DOMAIN logs :
             rec' = [logs |-> newer, read |-> 0, add |-> {}, max_sequence |-> 0, ok |-> TRUE]
      BY <1>15, <2>2 DEF Recover
    <3>2. rec' \in RecType
      <4>1. newer \in SUBSET Nat
        BY <1>0, <3>1 DEF DiskType, FilesTyped
      <4> QED BY <3>1, <4>1 DEF RecType
    <3>3. status' = "recovering"
      BY <1>15, <2>2 DEF Recover
    <3> QED BY <1>0, <1>15, <3>2, <3>3 DEF Recover, WorkType, work, Statuses
  <2> QED BY <2>1, <2>2
<1>16. CASE Recovery
  <2>1. rec' \in RecType
    BY <1>16, RecoveredRec
  <2> QED BY <1>0, <1>16, <2>1 DEF Recovery, RecoverTable, RecoverLogFile, WorkType, work
<1>17. CASE NewLogAndManifest \/ SetCurrentFile
  BY <1>0, <1>17 DEF NewLogAndManifest, SetCurrentFile, WorkType, work, Statuses, Opening_
<1>18. CASE OpenDone
  BY <1>0, <1>18 DEF OpenDone, WorkType, Statuses, Opening_
<1>19. CASE UNCHANGED <<status, bg, compact, rec, pending_outputs_, bg_error_, pinned>>
  BY <1>0, <1>19 DEF WorkType
<1>20. CASE WriteFails \/ SwitchMemTable \/ ForceReturns \/ ForceDone \/ BeginGroup \/ LogGroup
              \/ ShutDown \/ NewDB
  BY <1>19, <1>20 DEF WriteFails, SwitchMemTable, ForceReturns, ForceDone, BeginGroup, LogGroup, ShutDown,
                      NewDB, work
<1>21. ASSUME NEW w \in Writers, NEW k \in Kinds[w], Enqueue(w, k) PROVE WorkType'
  BY <1>19, <1>21 DEF Enqueue, work
<1>22. CASE UNCHANGED vars
  BY <1>19, <1>22 DEF vars, work
<1> QED BY <1>2, <1>3, <1>4, <1>5, <1>6, <1>7, <1>8, <1>9, <1>10, <1>11, <1>12, <1>13, <1>14,
          <1>15, <1>16, <1>17, <1>18, <1>20, <1>21, <1>22
        DEF Next, Writing, Opening, Recovery, Background, Flushing, Compacting

LEMMA LogEntriesBounded ==
    ASSUME NEW f, NEW b, NEW n \in DOMAIN f, f[n] \in LogType,
           \A i \in 1 .. Len(f[n].records) : \A e \in f[n].records[i].entries : e[1] <= b,
           NEW E \in SUBSET Entries, \A e \in E : e[1] <= b, NEW ok \in BOOLEAN,
           NEW q, q.records = Append(f[n].records, [entries |-> E, ok |-> ok])
    PROVE  \A i \in 1 .. Len(q.records) : \A e \in q.records[i].entries : e[1] <= b
<1>1. f[n].records \in LogRecords
  BY DEF LogType
<1>2. [entries |-> E, ok |-> ok] \in [entries : SUBSET Entries, ok : BOOLEAN]
  OBVIOUS
<1>3. PICK x, r : x = [entries |-> E, ok |-> ok] /\ r = f[n].records
  OBVIOUS
<1>4. /\ Len(Append(r, x)) = Len(r) + 1 /\ Len(r) \in Nat
      /\ \A i \in 1 .. Len(r) : Append(r, x)[i] = r[i]
      /\ Append(r, x)[Len(r) + 1] = x
  BY <1>1, <1>2, <1>3 DEF LogRecords
<1>5. x.entries = E
  BY <1>3
<1> QED BY <1>3, <1>4, <1>5

LEMMA StaysBounded ==
    ASSUME Inv1, [Next]_vars
    PROVE  Bounded'
<1>0. VsetType /\ WorkType /\ QueueType /\ DiskType
  BY DEF Inv1, TypeInv
<1>1. PICK b \in Nat :
         /\ \A n \in DOMAIN logs : \A i \in 1 .. Len(logs[n].records) :
               \A e \in logs[n].records[i].entries : e[1] <= b
         /\ writing # None => \A e \in writing.entries : e[1] <= b
  BY DEF Inv1, TypeInv, Bounded
<1>2. ASSUME writing' = writing \/ writing' = None, DOMAIN logs' \subseteq DOMAIN logs,
             \A n \in DOMAIN logs' : \A i \in 1 .. Len(logs'[n].records) :
                i \in 1 .. Len(logs[n].records) /\ logs'[n].records[i] = logs[n].records[i]
      PROVE  Bounded'
  BY <1>1, <1>2 DEF Bounded
<1>3. ASSUME UNCHANGED logs, writing' = writing \/ writing' = None PROVE Bounded'
  BY <1>1, <1>3 DEF Bounded
<1>4. ASSUME NEW n \in Nat, logs' = With(logs, n, [records |-> <<>>, synced |-> 0]),
             UNCHANGED writing
      PROVE  Bounded'
  <2>1. PICK m : m = [records |-> <<>>, synced |-> 0]
    OBVIOUS
  <2>2. /\ DOMAIN logs' = DOMAIN logs \cup {n} /\ logs'[n] = m
        /\ \A x \in DOMAIN logs : x # n => logs'[x] = logs[x]
    <3>1. m \in LogType /\ logs' = With(logs, n, m) /\ FilesTyped(logs, LogType)
      BY <1>0, <1>4, <2>1, EmptyLogTyped DEF DiskType
    <3> QED BY <3>1, WithTyped, SMTT(30)
  <2>3. 1 .. Len(logs'[n].records) = {}
    BY <2>1, <2>2
  <2>4. \A x \in DOMAIN logs' : \A i \in 1 .. Len(logs'[x].records) :
               \A e \in logs'[x].records[i].entries : e[1] <= b
    BY <1>1, <2>2, <2>3
  <2> QED BY <1>1, <1>4, <2>4 DEF Bounded
<1>5. CASE SwitchMemTable
  BY <1>0, <1>4, <1>5 DEF SwitchMemTable, VsetType
<1>6. CASE NewLogAndManifest
  BY <1>0, <1>4, <1>6 DEF NewLogAndManifest, VsetType, queue
<1>7. CASE BeginGroup
  <2>1. writers_ # <<>> /\ writers_ \in Seq(Writers)
    BY <1>0, <1>7 DEF BeginGroup, AtFront, QueueType
  <2>2. GroupSize \in Nat
    BY <2>1, GroupSizeOK
  <2>3. PICK c : c = b + last_sequence_ + Cardinality(Batches(GroupSize))
    OBVIOUS
  <2>4. Cardinality(Batches(GroupSize)) \in Nat /\ last_sequence_ \in Nat
    BY <1>0, <2>2, BatchesCounted DEF VsetType
  <2>5. c \in Nat /\ b <= c /\ last_sequence_ + Cardinality(Batches(GroupSize)) <= c
    BY <2>3, <2>4
  <2>6. ASSUME NEW e \in writing'.entries PROVE e[1] <= c
    <3>1. PICK i \in Batches(GroupSize) :
             e = <<last_sequence_ + Cardinality(Batches(i)), writers_[i]>>
      BY <1>7, <2>6 DEF BeginGroup
    <3>2. Cardinality(Batches(i)) \in 1 .. Cardinality(Batches(GroupSize))
      BY <2>2, <3>1, BatchesWithin
    <3> QED BY <2>4, <2>5, <3>1, <3>2
  <2>7. \A n \in DOMAIN logs : \A i \in 1 .. Len(logs[n].records) :
               \A e \in logs[n].records[i].entries : e[1] <= c
    <3> SUFFICES ASSUME NEW n \in DOMAIN logs, NEW i \in 1 .. Len(logs[n].records),
                        NEW e \in logs[n].records[i].entries
                 PROVE  e[1] <= c
      OBVIOUS
    <3>1. e[1] <= b
      BY <1>1
    <3>2. logs[n].records[i].entries \in SUBSET Entries
      <4>1. logs[n].records \in LogRecords
        BY <1>0 DEF DiskType, FilesTyped, LogType
      <4>2. logs[n].records[i] \in [entries : SUBSET Entries, ok : BOOLEAN]
        BY <4>1, SequenceElements DEF LogRecords
      <4> QED BY <4>2
    <3>3. e[1] \in Nat
      BY <3>2 DEF Entries
    <3> QED BY <2>5, <3>1, <3>3
  <2> QED BY <1>7, <2>5, <2>6, <2>7 DEF BeginGroup, Bounded, disk
<1>8. CASE LogGroup
  <2>1. logfile_number_ \in DOMAIN logs
    BY <1>8, OnlyWhenOpen DEF LogGroup, Inv1, Struct, OpenOK
  <2>2. writing.entries \in SUBSET Entries
    BY <1>0, <1>8 DEF LogGroup, QueueType, WritingType
  <2>3. PICK log : log = logs[logfile_number_] /\ log \in LogType
    BY <1>0, <2>1 DEF DiskType, FilesTyped
  <2>4. PICK q1, q2 : /\ q1 = Append1(log, TRUE) /\ q2 = Append1(log, FALSE)
    OBVIOUS
  <2>5. /\ q1 \in LogType /\ q2 \in LogType /\ Synced(q1) \in LogType
        /\ q1.records = Append(log.records, [entries |-> writing.entries, ok |-> TRUE])
        /\ q2.records = Append(log.records, [entries |-> writing.entries, ok |-> FALSE])
        /\ Synced(q1).records = Append(log.records, [entries |-> writing.entries, ok |-> TRUE])
    <3>0. PICK E \in SUBSET Entries : E = writing.entries
      BY <2>2
    <3>1. q1 = [log EXCEPT !.records = Append(@, [entries |-> E, ok |-> TRUE])]
      BY <2>4, <3>0 DEF Append1
    <3>2. q2 = [log EXCEPT !.records = Append(@, [entries |-> E, ok |-> FALSE])]
      BY <2>4, <3>0 DEF Append1
    <3>3. /\ q1 \in LogType /\ Synced(q1) \in LogType
          /\ q1.records = Append(log.records, [entries |-> E, ok |-> TRUE])
          /\ Synced(q1).records = Append(log.records, [entries |-> E, ok |-> TRUE])
      BY <2>3, <3>1, AppendLog
    <3>4. /\ q2 \in LogType
          /\ q2.records = Append(log.records, [entries |-> E, ok |-> FALSE])
      BY <2>3, <3>2, AppendLog
    <3> QED BY <3>0, <3>3, <3>4
  <2>6. PICK q \in {q1, q2, Synced(q1)} : logs' = [logs EXCEPT ![logfile_number_] = q]
    BY <1>8, <2>3, <2>4 DEF LogGroup
  <2>7. PICK ok \in BOOLEAN :
           q.records = Append(log.records, [entries |-> writing.entries, ok |-> ok])
    BY <2>5, <2>6
  <2>8. writing # None /\ \A e \in writing.entries : e[1] <= b
    BY <1>1, <1>8 DEF LogGroup
  <2>9. \A i \in 1 .. Len(q.records) : \A e \in q.records[i].entries : e[1] <= b
    BY <1>1, <2>1, <2>2, <2>3, <2>7, <2>8, LogEntriesBounded
  <2>10. q \in LogType
    BY <2>5, <2>6
  <2>11. /\ DOMAIN logs' = DOMAIN logs /\ logs'[logfile_number_] = q
         /\ \A x \in DOMAIN logs : x # logfile_number_ => logs'[x] = logs[x]
    BY <1>0, <2>1, <2>6, <2>10, ExceptTyped DEF DiskType
  <2>12. writing'.entries = writing.entries
    BY <1>0, <1>8 DEF LogGroup, QueueType, WritingType
  <2>13. \A n \in DOMAIN logs' : \A i \in 1 .. Len(logs'[n].records) :
               \A e \in logs'[n].records[i].entries : e[1] <= b
    BY <1>1, <2>9, <2>11
  <2> QED BY <2>8, <2>12, <2>13 DEF Bounded
<1>9. CASE Crash
  <2>1. Cut(logs, logs') /\ writing' = None
    BY <1>0, <1>9, LogsSurvive DEF Crash, Gone, DiskType
  <2>2. ASSUME NEW n \in DOMAIN logs', NEW i \in 1 .. Len(logs'[n].records)
        PROVE  i \in 1 .. Len(logs[n].records) /\ logs'[n].records[i] = logs[n].records[i]
    <3>1. n \in DOMAIN logs /\ logs[n] \in LogType
      BY <1>0, <2>1 DEF Cut, DiskType, FilesTyped
    <3>2. Len(logs[n].records) \in Nat /\ logs[n].synced \in Nat
      BY <3>1 DEF LogType, LogRecords
    <3>3. /\ logs'[n].synced \in logs[n].synced .. Len(logs[n].records)
          /\ Len(logs'[n].records) = logs'[n].synced
          /\ \A j \in 1 .. logs'[n].synced : logs'[n].records[j] = logs[n].records[j]
      BY <2>1, <3>1 DEF Cut
    <3> QED BY <3>2, <3>3
  <2> QED BY <1>2, <2>1, <2>2 DEF Cut
<1>10. CASE FlushInstalled \/ CompactionInstalled \/ OpenDone
  <2>1. PICK fs, log, pending :
           DeleteObsoleteFiles(fs, log, pending) /\ log = log_number_'
    BY <1>10 DEF FlushInstalled, CompactionInstalled, OpenDone
  <2>2. log \in Nat
    BY <2>1, VsetTyped DEF VsetType
  <2>3. DOMAIN logs' \subseteq DOMAIN logs /\ \A n \in DOMAIN logs' : logs'[n] = logs[n]
    BY <1>0, <2>1, <2>2, Deleting DEF VsetType
  <2>4. writing' = writing
    BY <1>10 DEF FlushInstalled, CompactionInstalled, OpenDone, queue
  <2> QED BY <1>2, <2>3, <2>4
<1>11. CASE WriteFails \/ ForceReturns \/ ForceDone \/ FinishGroup \/ Ref \/ Unref \/ ShutDown
               \/ Destroyed \/ Recover \/ NewDB \/ RecoverTable \/ RecoverLogFile \/ SetCurrentFile
               \/ OpenFails
  BY <1>3, <1>11 DEF WriteFails, ForceReturns, ForceDone, FinishGroup, Ref, Unref, ShutDown, Destroyed,
        Recover, NewDB, RecoverTable, RecoverLogFile, SetCurrentFile, OpenFails, Gone, disk, queue
<1>12. CASE NothingToDo \/ StartFlush \/ FlushBuilt \/ FlushFails \/ FlushNotInstalled
               \/ ManifestRecord \/ StartCompaction \/ OpenCompactionOutputFile \/ MergeDone
               \/ CompactionFails
  BY <1>3, <1>12 DEF NothingToDo, StartFlush, FlushBuilt, FlushFails, FlushNotInstalled,
        ManifestRecord, StartCompaction, OpenCompactionOutputFile, MergeDone, CompactionFails,
        disk, queue
<1>13. ASSUME NEW w \in Writers, NEW k \in Kinds[w], Enqueue(w, k) PROVE Bounded'
  BY <1>3, <1>13 DEF Enqueue, disk
<1>14. CASE UNCHANGED vars
  BY <1>3, <1>14 DEF vars, disk, queue
<1> QED BY <1>5, <1>6, <1>7, <1>8, <1>9, <1>10, <1>11, <1>12, <1>13, <1>14
        DEF Next, Writing, Opening, Recovery, Background, Flushing, Compacting

LEMMA StaysTyped ==
    ASSUME Inv1, [Next]_vars
    PROVE  TypeInv'
BY QueueTyped, DiskTyped, VsetTyped, WorkTyped, StaysBounded DEF Inv1, TypeInv

-----------------------------------------------------------------------------
(* The structure is kept by what runs in an open database                  *)

LEMMA CurrentKept ==
    ASSUME CurrentOK, UNCHANGED <<current, manifests>>, DOMAIN tables \subseteq DOMAIN tables'
    PROVE  CurrentOK'
BY DEF CurrentOK, ManifestOK

LEMMA CurrentViews ==
    ASSUME DiskType, NEW c \in DOMAIN manifests, NEW k \in Ks(manifests[c])
    PROVE  /\ manifests[c].records \in Records /\ k \in 0 .. Len(manifests[c].records)
           /\ Replay(manifests[c].records, k) \in ViewType
<1>1. manifests[c] \in ManifestType
  BY DEF DiskType, FilesTyped
<1>2. manifests[c].records \in Records /\ manifests[c].synced \in Nat
  BY <1>1 DEF ManifestType
<1>3. Len(manifests[c].records) \in Nat
  BY <1>2 DEF Records
<1>4. k \in 0 .. Len(manifests[c].records)
  BY <1>2, <1>3 DEF Ks
<1> QED BY <1>2, <1>4, ReplayTyped

LEMMA StillOpen ==
    ASSUME status' = "open", CurrentOK', OpenOK', BackgroundOK'
    PROVE  Struct'
BY DEF Struct, Quiet, OpeningOK, Opening_

(***************************************************************************)
(* A step that leaves the MANIFESTs, the versions and the background       *)
(* thread alone.                                                           *)
(***************************************************************************)
LEMMA LightStep ==
    ASSUME Inv1, status = "open", UNCHANGED <<status, current, manifests, tables>>,
           DOMAIN logs' = DOMAIN logs,
           UNCHANGED <<imm_, logfile_number_, log_number_, next_file_number_,
                       manifest_file_number_, files_, pending_outputs_, compact>>,
           bg' = bg \/ (bg.pc = "idle" /\ bg' = Idle),
           bg_error_ => bg_error_', PinnedFiles' \subseteq DOMAIN tables
    PROVE  Struct'
<1>1. CurrentOK /\ OpenOK /\ BackgroundOK
  BY DEF Inv1, Struct
<1>2. bg'.pc = bg.pc /\ bg'.edit = bg.edit /\ (bg.pc # "idle" => bg' = bg)
  BY <1>1 DEF BackgroundOK, Idle
<1>3. CurrentOK'
  BY <1>1, CurrentKept
<1>4. OpenOK'
  BY <1>1, <1>2 DEF OpenOK, Clean, Version, LastView
<1>5. BackgroundOK'
  BY <1>1, <1>2 DEF BackgroundOK, Fresh
<1> QED BY <1>3, <1>4, <1>5, StillOpen

LEMMA LightSteps ==
    ASSUME Inv1, \/ WriteFails \/ ForceReturns \/ ForceDone \/ BeginGroup \/ LogGroup \/ FinishGroup
                 \/ Ref \/ Unref \/ ShutDown \/ NothingToDo
                 \/ \E w \in Writers : \E k \in Kinds[w] : Enqueue(w, k)
    PROVE  Struct'
<1>1. TypeInv /\ OpenOK /\ (status = "open" => Numbers(files_) \cup PinnedFiles \subseteq DOMAIN tables)
  BY DEF Inv1, Struct, OpenOK
<1>2. CASE WriteFails \/ ForceReturns \/ ForceDone \/ BeginGroup
  BY <1>1, <1>2, LightStep DEF WriteFails, ForceReturns, ForceDone, BeginGroup, AtFront, disk, mems, vset, work,
        PinnedFiles
<1>3. CASE LogGroup
  <2>1. status = "open" /\ logfile_number_ \in DOMAIN logs
    BY <1>1, <1>3, OnlyWhenOpen DEF LogGroup, OpenOK
  <2>2. DOMAIN logs' = DOMAIN logs
    BY <1>3, <2>1 DEF LogGroup
  <2> QED BY <1>1, <1>3, <2>1, <2>2, LightStep DEF LogGroup, vset, work, PinnedFiles
<1>4. CASE FinishGroup
  <2>1. status = "open"
    BY <1>4, OnlyWhenOpen DEF FinishGroup
  <2> QED BY <1>1, <1>4, <2>1, LightStep DEF FinishGroup, disk, mems, PinnedFiles
<1>5. CASE Ref
  <2>1. PinnedFiles' = Numbers(files_)
    BY <1>5 DEF Ref, PinnedFiles, None
  <2> QED BY <1>1, <1>5, <2>1, LightStep DEF Ref, disk, mems, vset, work
<1>6. CASE Unref
  <2>1. status = "open" /\ PinnedFiles' = {}
    BY <1>6, OnlyWhenOpen DEF Unref, PinnedFiles
  <2> QED BY <1>6, <2>1, LightStep DEF Unref, disk, mems, vset, work
<1>7. CASE ShutDown
  BY <1>1, <1>7, LightStep DEF ShutDown, disk, mems, vset, PinnedFiles
<1>8. CASE NothingToDo
  BY <1>1, <1>8, LightStep DEF NothingToDo, Running, EndCall, disk, mems, vset, PinnedFiles
<1>9. ASSUME NEW w \in Writers, NEW k \in Kinds[w], Enqueue(w, k) PROVE Struct'
  BY <1>1, <1>9, LightStep DEF Enqueue, disk, mems, vset, work, PinnedFiles
<1> QED BY <1>2, <1>3, <1>4, <1>5, <1>6, <1>7, <1>8, <1>9

(***************************************************************************)
(* What is known of the numbers of an open database.                       *)
(***************************************************************************)
LEMMA OpenFacts ==
    ASSUME Inv1, status = "open"
    PROVE  /\ CurrentOK /\ OpenOK /\ BackgroundOK /\ ManifestOK(current)
           /\ current # 0 /\ current = manifest_file_number_ /\ current \in DOMAIN manifests
           /\ next_file_number_ \in Nat /\ logfile_number_ \in Nat /\ log_number_ \in Nat
           /\ manifest_file_number_ \in Nat /\ last_sequence_ \in Nat
           /\ \A f \in files_ : f.number \in Nat /\ f \in FileType
           /\ \A n \in DOMAIN logs : n \in Nat
           /\ \A k \in Ks(manifests[current]) :
                 LET v == Replay(manifests[current].records, k)
                 IN  /\ v \in ViewType /\ v.next \in Nat /\ v.log \in Nat
                     /\ \A f \in v.files : f.number \in Nat
           /\ bg.number \in Nat
           /\ bg.edit # None => /\ bg.edit \in EditType /\ bg.edit.next \in Nat /\ bg.edit.log \in Nat
                                /\ \A f \in bg.edit.add : f.number \in Nat
           /\ compact # None => compact.output \in Nat /\ compact.inputs \subseteq FileType
<1>1. CurrentOK /\ OpenOK /\ BackgroundOK /\ VsetType /\ DiskType /\ WorkType
  BY DEF Inv1, TypeInv, Struct
<1>2. /\ current # 0 /\ current = manifest_file_number_ /\ ManifestOK(current)
      /\ current \in DOMAIN manifests
  BY <1>1 DEF OpenOK, CurrentOK, ManifestOK
<1>3. \A f \in files_ : f.number \in Nat /\ f \in FileType
  BY <1>1 DEF VsetType, FileType
<1>4. ASSUME NEW k \in Ks(manifests[current]), NEW v, v = Replay(manifests[current].records, k)
      PROVE  v \in ViewType /\ v.next \in Nat /\ v.log \in Nat /\ \A f \in v.files : f.number \in Nat
  <2>1. v \in ViewType
    BY <1>1, <1>2, <1>4, CurrentViews
  <2> QED BY <2>1 DEF ViewType, FileType
<1>5. bg.number \in Nat /\ (bg.edit # None => bg.edit \in EditType)
  BY <1>1 DEF WorkType, BgType
<1>6. bg.edit # None => /\ bg.edit.next \in Nat /\ bg.edit.log \in Nat
                        /\ \A f \in bg.edit.add : f.number \in Nat
  BY <1>5 DEF EditType, FileType
<1>7. compact # None => compact.output \in Nat /\ compact.inputs \subseteq FileType
  BY <1>1 DEF WorkType, CompactType
<1>8. \A n \in DOMAIN logs : n \in Nat
  BY <1>1 DEF DiskType, FilesTyped
<1> QED BY <1>1, <1>2, <1>3, <1>4, <1>5, <1>6, <1>7, <1>8 DEF VsetType

(* A number stays fresh while the versions stay. *)
LEMMA FreshKept ==
    ASSUME NEW n \in Nat, Fresh(n), next_file_number_ \in Nat, next_file_number_' \in Nat,
           next_file_number_ <= next_file_number_', UNCHANGED <<current, manifests, files_>>
    PROVE  Fresh(n)'
BY DEF Fresh

(* So is the next number. *)
LEMMA NextIsFresh ==
    ASSUME Inv1, status = "open", NEW n, n = next_file_number_,
           next_file_number_' = next_file_number_ + 1, UNCHANGED <<current, manifests, files_>>
    PROVE  Fresh(n)'
<1>1. n \notin Numbers(files_)
  BY OpenFacts DEF OpenOK, Numbers
<1>2. ASSUME NEW k \in Ks(manifests[current])
      PROVE  n \notin Numbers(Replay(manifests[current].records, k).files)
  <2>1. PICK v : v = Replay(manifests[current].records, k)
    OBVIOUS
  <2>2. /\ v.next # 0 /\ v.next <= next_file_number_ /\ v.next \in Nat
        /\ \A f \in v.files : f.number < v.next /\ f.number \in Nat
    BY <1>2, <2>1, OpenFacts DEF OpenOK, ManifestOK
  <2> QED BY <2>1, <2>2, OpenFacts DEF Numbers
<1> QED BY <1>1, <1>2, OpenFacts DEF Fresh

LEMMA SwitchKeeps ==
    ASSUME Inv1, SwitchMemTable
    PROVE  Struct'
<1>1. status = "open" /\ status' = "open"
  BY DEF SwitchMemTable, AtFront
<1>2. CurrentOK'
  BY <1>1, OpenFacts, CurrentKept DEF SwitchMemTable
<1>3. DOMAIN logs' = DOMAIN logs \cup {next_file_number_}
  BY DEF SwitchMemTable, With
<1>4. UNCHANGED <<current, manifests, tables, log_number_, manifest_file_number_, files_, pinned,
                  pending_outputs_, bg_error_, bg, compact>>
      /\ imm_' # None /\ logfile_number_' = next_file_number_
      /\ next_file_number_' = next_file_number_ + 1
  BY DEF SwitchMemTable, None
<1>5. OpenOK'
  BY <1>1, <1>3, <1>4, OpenFacts DEF OpenOK, Clean, Version, LastView, PinnedFiles
<1>6. \A n \in Nat : Fresh(n) => Fresh(n)'
  BY <1>1, <1>4, OpenFacts, FreshKept
<1>7. BackgroundOK'
  BY <1>1, <1>4, <1>6, OpenFacts DEF BackgroundOK
<1> QED BY <1>1, <1>2, <1>5, <1>7, StillOpen

LEMMA StartFlushKeeps ==
    ASSUME Inv1, StartFlush
    PROVE  Struct'
<1>1. status = "open" /\ status' = "open"
  BY DEF StartFlush, Running
<1>2. UNCHANGED <<current, manifests, logs, tables, imm_, logfile_number_, log_number_,
                  manifest_file_number_, files_, pinned, bg_error_, compact>>
      /\ pending_outputs_' = pending_outputs_ \cup {next_file_number_}
      /\ next_file_number_' = next_file_number_ + 1 /\ imm_ # None
      /\ bg'.pc = "build" /\ bg'.number = next_file_number_ /\ bg'.edit = None
      /\ bg.pc \in {"idle", "merge"} /\ (bg.pc = "idle" => ~bg_error_)
  BY DEF StartFlush, disk, mems
<1>3. CurrentOK'
  BY <1>1, <1>2, OpenFacts, CurrentKept
<1>4. OpenOK'
  BY <1>1, <1>2, OpenFacts DEF OpenOK, Clean, Version, LastView, PinnedFiles
<1>5. \A n \in Nat : Fresh(n) => Fresh(n)'
  BY <1>1, <1>2, OpenFacts, FreshKept
<1>6. \A n : n = next_file_number_ => Fresh(n)'
  BY <1>1, <1>2, NextIsFresh
<1>7. compact # None => compact.output # next_file_number_
  BY <1>1, <1>2, OpenFacts DEF BackgroundOK, OpenOK, Fresh
<1>8. BackgroundOK'
  BY <1>1, <1>2, <1>5, <1>6, <1>7, OpenFacts DEF BackgroundOK
<1> QED BY <1>1, <1>3, <1>4, <1>8, StillOpen

LEMMA FlushBuiltKeeps ==
    ASSUME Inv1, FlushBuilt
    PROVE  Struct'
<1>1. status = "open" /\ status' = "open" /\ bg.pc = "build" /\ bg.edit = None
  BY OnlyWhenOpen, OpenFacts DEF FlushBuilt, BackgroundOK
<1>2. UNCHANGED <<current, manifests, logs, imm_, logfile_number_, log_number_, next_file_number_,
                  manifest_file_number_, files_, pinned, bg_error_, compact>>
      /\ pending_outputs_' = pending_outputs_ \ {bg.number}
  BY DEF FlushBuilt, mems, vset
<1>3. PICK l, add :
         /\ l \in {0, 1}
         /\ bg' = [pc |-> "flush", number |-> bg.number, edit |-> ApplyEdit(add, {}, FlushLog)]
         /\ \/ add = {} /\ tables' = tables
            \/ add = {Table(bg.number, l)} /\ tables' = With(tables, bg.number, imm_.entries)
  BY DEF FlushBuilt
<1>4. add \in SUBSET FileType /\ Numbers(add) \subseteq {bg.number}
      /\ \A f \in add : f.number = bg.number
  BY <1>1, <1>3, OpenFacts, TableTyped DEF Numbers
<1>5. DOMAIN tables \cup Numbers(add) \subseteq DOMAIN tables'
  BY <1>3, <1>4 DEF With, Numbers
<1>6. PICK e : e = ApplyEdit(add, {}, FlushLog)
  OBVIOUS
<1>7. /\ e # None /\ e.add = add /\ e.del = {} /\ e.log = logfile_number_
      /\ e.next = next_file_number_
  BY <1>1, <1>4, <1>6, EditTyped, OpenFacts DEF ApplyEdit, FlushLog
<1>8. bg'.pc = "flush" /\ bg'.edit = e
  BY <1>3, <1>6
<1>9. CurrentOK'
  BY <1>1, <1>2, <1>5, OpenFacts, CurrentKept
<1>10. OpenOK'
  BY <1>1, <1>2, <1>5, <1>7, <1>8, OpenFacts DEF OpenOK, Clean, Version, LastView, PinnedFiles
<1>11. \A n \in Nat : Fresh(n) => Fresh(n)'
  BY <1>1, <1>2, OpenFacts, FreshKept
<1>12. Fresh(bg.number) /\ (compact # None => bg.number # compact.output)
  BY <1>1, OpenFacts DEF BackgroundOK
<1>13. bg.number < next_file_number_
  BY <1>12 DEF Fresh
<1>14. BackgroundOK'
  BY <1>1, <1>2, <1>4, <1>5, <1>7, <1>8, <1>11, <1>12, <1>13, OpenFacts DEF BackgroundOK, OpenOK
<1> QED BY <1>1, <1>9, <1>10, <1>14, StillOpen

(***************************************************************************)
(* A flush that is given up, at the table or at the MANIFEST.              *)
(***************************************************************************)
LEMMA FlushFailsKeeps ==
    ASSUME Inv1, FlushFails \/ FlushNotInstalled
    PROVE  Struct'
<1>1. status = "open" /\ status' = "open" /\ bg.edit = None
      /\ bg.pc \in {"build", "flush"}
  BY OnlyWhenOpen, OpenFacts DEF FlushFails, FlushNotInstalled, BackgroundOK
<1>2. UNCHANGED <<current, manifests, logs, imm_, logfile_number_, log_number_, next_file_number_,
                  manifest_file_number_, files_, pinned, compact>>
      /\ bg_error_' = TRUE
  BY DEF FlushFails, FlushNotInstalled, disk, mems, vset
<1>3. \/ pending_outputs_' = pending_outputs_
      \/ bg.pc = "build" /\ pending_outputs_' = pending_outputs_ \ {bg.number}
  BY DEF FlushFails, FlushNotInstalled
<1>4. DOMAIN tables \subseteq DOMAIN tables'
  BY DEF FlushFails, FlushNotInstalled, With, disk
<1>5. bg'.edit = None /\ bg'.pc = (IF compact = None THEN "idle" ELSE "merge")
  <2>1. CASE compact = None
    <3>1. bg' = Idle
      BY <2>1 DEF FlushFails, FlushNotInstalled, AfterFlush, EndCall
    <3> QED BY <2>1, <3>1 DEF Idle
  <2>2. CASE compact # None
    <3>1. bg' = [pc |-> "merge", number |-> 0, edit |-> None]
      BY <2>2 DEF FlushFails, FlushNotInstalled, AfterFlush
    <3> QED BY <2>2, <3>1
  <2> QED BY <2>1, <2>2
<1>6. CurrentOK'
  BY <1>1, <1>2, <1>4, OpenFacts, CurrentKept
<1>7. OpenOK'
  BY <1>1, <1>2, <1>4, <1>5, OpenFacts DEF OpenOK, Clean, Version, LastView, PinnedFiles
<1>8. \A n \in Nat : Fresh(n) => Fresh(n)'
  BY <1>1, <1>2, OpenFacts, FreshKept
<1>9. compact # None /\ compact.output # 0 =>
         compact.output \in pending_outputs_' \cap DOMAIN tables' /\ Fresh(compact.output)
  BY <1>1, <1>3, <1>4, OpenFacts DEF BackgroundOK
<1>10. BackgroundOK'
  BY <1>1, <1>2, <1>5, <1>8, <1>9, OpenFacts DEF BackgroundOK
<1> QED BY <1>1, <1>6, <1>7, <1>10, StillOpen

LEMMA StartCompactionKeeps ==
    ASSUME Inv1, StartCompaction
    PROVE  Struct'
<1>1. status = "open" /\ status' = "open" /\ bg.edit = None /\ bg.pc = "idle" /\ ~bg_error_
  BY OpenFacts DEF StartCompaction, Running, BackgroundOK
<1>2. UNCHANGED <<current, manifests, logs, tables, imm_, logfile_number_, log_number_,
                  next_file_number_, manifest_file_number_, files_, pinned, pending_outputs_,
                  bg_error_>>
      /\ bg'.pc = "merge" /\ bg'.edit = None
      /\ compact' # None /\ compact'.inputs = files_ /\ compact'.output = 0
  BY DEF StartCompaction, disk, mems, vset, None
<1>3. CurrentOK'
  BY <1>1, <1>2, OpenFacts, CurrentKept
<1>4. OpenOK'
  BY <1>1, <1>2, OpenFacts DEF OpenOK, Clean, Version, LastView, PinnedFiles
<1>5. BackgroundOK'
  BY <1>1, <1>2, OpenFacts DEF BackgroundOK
<1> QED BY <1>1, <1>3, <1>4, <1>5, StillOpen

LEMMA OpenOutputKeeps ==
    ASSUME Inv1, OpenCompactionOutputFile
    PROVE  Struct'
<1>1. status = "open" /\ status' = "open" /\ bg.edit = None /\ bg.pc = "merge" /\ compact # None
      /\ compact \in CompactType
  BY OnlyWhenOpen, OpenFacts DEF OpenCompactionOutputFile, BackgroundOK, Inv1, TypeInv, WorkType
<1>2. UNCHANGED <<current, manifests, logs, imm_, logfile_number_, log_number_,
                  manifest_file_number_, files_, pinned, bg, bg_error_>>
      /\ next_file_number_' = next_file_number_ + 1
      /\ pending_outputs_' = pending_outputs_ \cup {next_file_number_}
      /\ DOMAIN tables' = DOMAIN tables \cup {next_file_number_}
  BY DEF OpenCompactionOutputFile, mems, With
<1>3. compact'.inputs = compact.inputs /\ compact'.output = next_file_number_ /\ compact' # None
  BY <1>1 DEF OpenCompactionOutputFile, CompactType, None
<1>4. CurrentOK'
  BY <1>1, <1>2, OpenFacts, CurrentKept
<1>5. OpenOK'
  BY <1>1, <1>2, OpenFacts DEF OpenOK, Clean, Version, LastView, PinnedFiles
<1>6. \A n : n = next_file_number_ => Fresh(n)'
  BY <1>1, <1>2, NextIsFresh
<1>7. BackgroundOK'
  BY <1>1, <1>2, <1>3, <1>6, OpenFacts DEF BackgroundOK
<1> QED BY <1>1, <1>4, <1>5, <1>7, StillOpen

LEMMA MergeDoneKeeps ==
    ASSUME Inv1, MergeDone
    PROVE  Struct'
<1>1. status = "open" /\ status' = "open" /\ bg.edit = None /\ bg.pc = "merge" /\ compact # None
      /\ compact.output # 0
  BY OnlyWhenOpen, OpenFacts DEF MergeDone, BackgroundOK
<1>2. UNCHANGED <<current, manifests, logs, imm_, logfile_number_, log_number_, next_file_number_,
                  manifest_file_number_, files_, pinned, pending_outputs_, compact, bg_error_>>
      /\ DOMAIN tables' = DOMAIN tables
  BY DEF MergeDone, mems, vset
<1>3. PICK e : e = ApplyEdit({Table(compact.output, 1)}, compact.inputs, log_number_)
  OBVIOUS
<1>4. bg'.pc = "apply" /\ bg'.edit = e
  BY <1>3 DEF MergeDone
<1>5. {Table(compact.output, 1)} \in SUBSET FileType /\ Table(compact.output, 1).number = compact.output
  BY <1>1, OpenFacts, TableTyped
<1>6. /\ e # None /\ e.add = {Table(compact.output, 1)} /\ e.del = compact.inputs
      /\ e.log = log_number_ /\ e.next = next_file_number_
  BY <1>1, <1>3, <1>5, EditTyped, OpenFacts DEF ApplyEdit
<1>7. CurrentOK'
  BY <1>1, <1>2, OpenFacts, CurrentKept
<1>8. OpenOK'
  BY <1>1, <1>2, <1>4, <1>6, OpenFacts DEF OpenOK, Clean, Version, LastView, PinnedFiles
<1>9. \A n \in Nat : Fresh(n) => Fresh(n)'
  BY <1>1, <1>2, OpenFacts, FreshKept
<1>10. Fresh(compact.output) /\ compact.output \in pending_outputs_ \cap DOMAIN tables
  BY <1>1, OpenFacts DEF BackgroundOK
<1>11. compact.output < next_file_number_ /\ Numbers(e.add) = {compact.output}
       /\ \A f \in e.add : f.number = compact.output
  BY <1>5, <1>6, <1>10 DEF Fresh, Numbers
<1>12. BackgroundOK'
  <2>1. /\ compact.output \in DOMAIN tables' /\ e.next # 0 /\ log_number_ < next_file_number_
        /\ log_number_ <= logfile_number_ /\ manifest_file_number_ < next_file_number_
        /\ \A f \in files_ : f.number < next_file_number_
        /\ \A k \in Ks(manifests[current]) :
              Replay(manifests[current].records, k).next <= next_file_number_
    BY <1>1, <1>2, <1>6, <1>10, OpenFacts DEF OpenOK
  <2>2. compact.inputs \subseteq files_
    BY <1>1, OpenFacts DEF BackgroundOK
  <2>3. (Fresh(compact.output))'
    BY <1>1, <1>2, <1>9, <1>10, OpenFacts
  <2>4. /\ Numbers(bg'.edit.add) \subseteq DOMAIN tables' /\ \A f \in bg'.edit.add : f.number < bg'.edit.next
        /\ bg'.edit.log < bg'.edit.next /\ bg'.edit.log <= logfile_number_' /\ log_number_' <= bg'.edit.log
        /\ bg'.edit.next # 0 /\ bg'.edit.next <= next_file_number_' /\ manifest_file_number_' < bg'.edit.next
    <3>1. Numbers(bg'.edit.add) \subseteq DOMAIN tables' /\ \A f \in bg'.edit.add : f.number < bg'.edit.next
      BY <1>4, <1>6, <1>11, <2>1
    <3>2. log_number_ <= log_number_ /\ next_file_number_ <= next_file_number_
      BY <1>1, OpenFacts
    <3> QED BY <1>2, <1>4, <1>6, <2>1, <3>1, <3>2
  <2>5. /\ \A k \in Ks(manifests'[current']) : Replay(manifests'[current'].records, k).next <= bg'.edit.next
        /\ \A f \in files_' : f.number < bg'.edit.next
    BY <1>1, <1>2, <1>4, <1>6, <2>1
  <2> QED BY <1>1, <1>2, <1>4, <1>6, <1>10, <2>2, <2>3, <2>4, <2>5 DEF BackgroundOK
<1> QED BY <1>1, <1>7, <1>8, <1>12, StillOpen

LEMMA CompactionFailsKeeps ==
    ASSUME Inv1, CompactionFails
    PROVE  Struct'
<1>1. status = "open" /\ status' = "open" /\ bg.edit = None /\ bg.pc \in {"merge", "apply"}
  BY OnlyWhenOpen, OpenFacts DEF CompactionFails, BackgroundOK
<1>2. UNCHANGED <<current, manifests, logs, tables, imm_, logfile_number_, log_number_,
                  next_file_number_, manifest_file_number_, files_, pinned>>
      /\ bg_error_' = TRUE /\ compact' = None /\ bg'.pc = "idle" /\ bg'.edit = None
  BY DEF CompactionFails, disk, mems, vset, EndCall, Idle
<1>3. CurrentOK'
  BY <1>1, <1>2, OpenFacts, CurrentKept
<1>4. OpenOK'
  BY <1>1, <1>2, OpenFacts DEF OpenOK, Clean, Version, LastView, PinnedFiles
<1>5. BackgroundOK'
  BY <1>1, <1>2, OpenFacts DEF BackgroundOK
<1> QED BY <1>1, <1>3, <1>4, <1>5, StillOpen

(***************************************************************************)
(* LogAndApply: what the MANIFEST may say after the record.                *)
(***************************************************************************)
View(k) == Replay(manifests[current].records, k)
CurrentKs == Ks(manifests[current])

Applied(v, u, e) ==
    v.files = Apply(u.files, e) /\ v.log = e.log /\ v.next = e.next /\ v.last = e.last

LEMMA RecordEffect ==
    ASSUME Inv1, ManifestRecord
    PROVE  /\ status = "open" /\ bg.pc \in {"flush", "apply"} /\ bg.edit # None
           /\ \E n \in Nat :
                 /\ n = Len(manifests[current].records) /\ n \in CurrentKs
                 /\ Len(manifests'[current].records) = n + 1
                 /\ CurrentKs' \subseteq CurrentKs \cup {n + 1} /\ n + 1 \in CurrentKs'
                 /\ \A k \in CurrentKs : View(k)' = View(k)
                 /\ \/ /\ bg'.edit = bg.edit /\ CurrentKs' = {n + 1}
                       /\ bg'.pc = (IF bg.pc = "flush" THEN "flushed" ELSE "applied")
                       /\ manifests'[current].synced = n + 1
                       /\ Applied(View(n + 1)', View(n), bg.edit)
                    \/ /\ bg'.edit = None /\ bg'.pc = bg.pc
                       /\ manifests'[current].synced = manifests[current].synced
                       /\ \/ View(n + 1)' = View(n)
                          \/ Applied(View(n + 1)', View(n), bg.edit)
<1>1. status = "open" /\ bg.pc \in {"flush", "apply"} /\ bg.edit # None
  BY OnlyWhenOpen DEF ManifestRecord
<1>2. current \in DOMAIN manifests /\ current = manifest_file_number_ /\ UNCHANGED current
      /\ bg \in BgType /\ bg.edit \in EditType /\ bg.edit.next # 0
  BY <1>1, OpenFacts DEF ManifestRecord, BackgroundOK, Inv1, TypeInv, WorkType
<1>3. PICK m, e : m = manifests[current] /\ e = bg.edit
  OBVIOUS
<1>4. m \in ManifestType /\ m.records \in Records /\ m.synced \in Nat /\ m.synced <= Len(m.records)
  BY <1>2, <1>3 DEF Inv1, TypeInv, DiskType, FilesTyped, ManifestType
<1>5. PICK n : n = Len(m.records)
  OBVIOUS
<1>6. n \in Nat /\ n \in CurrentKs /\ CurrentKs = m.synced .. n
  <2>1. n \in Nat
    BY <1>4, <1>5 DEF Records
  <2> QED BY <1>3, <1>4, <1>5, <2>1 DEF CurrentKs, Ks
<1>7. ASSUME NEW x \in EditType \cup {None}, NEW q, q = [m EXCEPT !.records = Append(@, x)]
      PROVE  /\ q.records = Append(m.records, x) /\ q.synced = m.synced
             /\ Synced(q).records = Append(m.records, x) /\ Synced(q).synced = n + 1
             /\ Len(Append(m.records, x)) = n + 1
  <2>1. /\ q.records = Append(m.records, x) /\ q.synced = m.synced
        /\ Synced(q).records = Append(m.records, x) /\ Synced(q).synced = Len(m.records) + 1
        /\ Len(q.records) = Len(m.records) + 1
    BY <1>4, <1>7, AppendManifest
  <2> QED BY <1>5, <2>1
<1>8. ASSUME NEW x \in {None, e}
      PROVE  /\ \A k \in 0 .. n : Replay(Append(m.records, x), k) = Replay(m.records, k)
             /\ x = None => Replay(Append(m.records, x), n + 1) = Replay(m.records, n)
             /\ x = e => Applied(Replay(Append(m.records, x), n + 1), Replay(m.records, n), e)
  <2>1. x \in EditType \cup {None} /\ (x # None => x.next # 0)
    BY <1>2, <1>3
  <2>2. PICK r : r = m.records
    OBVIOUS
  <2>3. /\ \A k \in 0 .. Len(r) : Replay(Append(r, x), k) = Replay(r, k)
        /\ x = None => Replay(Append(r, x), Len(r) + 1) = Replay(r, Len(r))
        /\ x # None =>
                 LET v == Replay(Append(r, x), Len(r) + 1)
                 IN  /\ v.files = Apply(Replay(r, Len(r)).files, x)
                     /\ v.log = x.log /\ v.next = x.next /\ v.last = x.last
    BY <1>4, <2>1, <2>2, ReplayAppend
  <2> QED BY <1>1, <1>3, <1>5, <2>2, <2>3 DEF Applied
<1>9. CASE /\ manifests' = [manifests EXCEPT ![manifest_file_number_] =
                                Synced([m EXCEPT !.records = Append(@, e)])]
           /\ bg' = [bg EXCEPT !.pc = IF @ = "flush" THEN "flushed" ELSE "applied"]
  <2>1. PICK q : q = [m EXCEPT !.records = Append(@, e)]
    OBVIOUS
  <2>2. manifests'[current] = Synced(q)
    BY <1>2, <1>9, <2>1
  <2>3. manifests'[current].records = Append(m.records, e) /\ manifests'[current].synced = n + 1
        /\ Len(manifests'[current].records) = n + 1
    <3>1. e \in EditType \cup {None}
      BY <1>2, <1>3
    <3>2. /\ Synced(q).records = Append(m.records, e) /\ Synced(q).synced = n + 1
          /\ Len(Append(m.records, e)) = n + 1
      BY <1>7, <2>1, <3>1
    <3> QED BY <2>2, <3>2
  <2>4. CurrentKs' = {n + 1}
    BY <1>2, <1>6, <2>3 DEF CurrentKs, Ks
  <2>5. \A k \in CurrentKs : View(k)' = View(k)
    BY <1>2, <1>3, <1>4, <1>6, <1>8, <2>3 DEF View
  <2>6. Applied(View(n + 1)', View(n), bg.edit)
    BY <1>2, <1>3, <1>8, <2>3 DEF View
  <2>7. bg'.edit = bg.edit /\ bg'.pc = (IF bg.pc = "flush" THEN "flushed" ELSE "applied")
    BY <1>2, <1>9 DEF BgType
  <2> QED BY <1>1, <1>3, <1>5, <1>6, <2>3, <2>4, <2>5, <2>6, <2>7
<1>10. ASSUME NEW x \in {None, e}, bg' = [bg EXCEPT !.edit = None],
              manifests' = [manifests EXCEPT ![manifest_file_number_].records = Append(@, x)]
       PROVE  \E j \in Nat :
                 /\ j = Len(manifests[current].records) /\ j \in CurrentKs
                 /\ Len(manifests'[current].records) = j + 1
                 /\ CurrentKs' \subseteq CurrentKs \cup {j + 1} /\ j + 1 \in CurrentKs'
                 /\ \A k \in CurrentKs : View(k)' = View(k)
                 /\ /\ bg'.edit = None /\ bg'.pc = bg.pc
                    /\ manifests'[current].synced = manifests[current].synced
                    /\ \/ View(j + 1)' = View(j)
                       \/ Applied(View(j + 1)', View(j), bg.edit)
  <2>1. PICK q : q = [m EXCEPT !.records = Append(@, x)]
    OBVIOUS
  <2>2. manifests'[current] = q
    BY <1>2, <1>3, <1>10, <2>1
  <2>3. x \in EditType \cup {None}
    BY <1>2, <1>3
  <2>4. manifests'[current].records = Append(m.records, x) /\ manifests'[current].synced = m.synced
        /\ Len(manifests'[current].records) = n + 1
    BY <1>7, <2>1, <2>2, <2>3, ZenonT(30)
  <2>5. CurrentKs' = m.synced .. n + 1
    BY <1>2, <2>4 DEF CurrentKs, Ks
  <2>6. \A k \in CurrentKs : View(k)' = View(k)
    BY <1>2, <1>3, <1>4, <1>6, <1>8, <2>4 DEF View
  <2>7. View(n + 1)' = View(n) \/ Applied(View(n + 1)', View(n), bg.edit)
    BY <1>2, <1>3, <1>8, <2>4 DEF View
  <2>8. bg'.edit = None /\ bg'.pc = bg.pc
    BY <1>2, <1>10 DEF BgType
  <2>9. CurrentKs' \subseteq CurrentKs \cup {n + 1} /\ n + 1 \in CurrentKs'
    BY <1>4, <1>5, <1>6, <2>5
  <2> QED BY <1>3, <1>5, <1>6, <2>4, <2>6, <2>7, <2>8, <2>9
<1>11. \/ /\ manifests' = [manifests EXCEPT ![manifest_file_number_] =
                                Synced([m EXCEPT !.records = Append(@, e)])]
          /\ bg' = [bg EXCEPT !.pc = IF @ = "flush" THEN "flushed" ELSE "applied"]
       \/ \E x \in {None, e} :
             /\ manifests' = [manifests EXCEPT ![manifest_file_number_].records = Append(@, x)]
             /\ bg' = [bg EXCEPT !.edit = None]
  BY <1>2, <1>3 DEF ManifestRecord
<1> QED BY <1>1, <1>9, <1>10, <1>11

LEMMA RecordKeeps ==
    ASSUME Inv1, ManifestRecord
    PROVE  Struct'
<1>1. status = "open" /\ status' = "open" /\ bg.pc \in {"flush", "apply"} /\ bg.edit # None
  BY RecordEffect DEF ManifestRecord
<1>2. UNCHANGED <<current, logs, tables, imm_, logfile_number_, log_number_, next_file_number_,
                  manifest_file_number_, files_, pinned, pending_outputs_, compact, bg_error_>>
  BY DEF ManifestRecord, mems, vset
<1>3. PICK n \in Nat :
         /\ n = Len(manifests[current].records) /\ n \in CurrentKs
         /\ Len(manifests'[current].records) = n + 1
         /\ CurrentKs' \subseteq CurrentKs \cup {n + 1} /\ n + 1 \in CurrentKs'
         /\ \A k \in CurrentKs : View(k)' = View(k)
         /\ \/ /\ bg'.edit = bg.edit /\ CurrentKs' = {n + 1}
               /\ bg'.pc = (IF bg.pc = "flush" THEN "flushed" ELSE "applied")
               /\ manifests'[current].synced = n + 1
               /\ Applied(View(n + 1)', View(n), bg.edit)
            \/ /\ bg'.edit = None /\ bg'.pc = bg.pc
               /\ manifests'[current].synced = manifests[current].synced
               /\ View(n + 1)' = View(n) \/ Applied(View(n + 1)', View(n), bg.edit)
  BY RecordEffect
<1>4. PICK e, u, w : e = bg.edit /\ u = View(n) /\ w = View(n + 1)'
  OBVIOUS
<1>5. /\ w = u \/ Applied(w, u, e)
      /\ e \in EditType /\ e.next \in Nat /\ e.log \in Nat
      /\ Numbers(e.add) \subseteq DOMAIN tables
      /\ \A f \in e.add : f.number < e.next /\ f.number \in Nat
      /\ e.next # 0 /\ e.next <= next_file_number_ /\ e.log < e.next /\ e.log <= logfile_number_
      /\ manifest_file_number_ < e.next
      /\ \A k \in CurrentKs : View(k).next <= e.next
      /\ log_number_ <= e.log
  BY <1>1, <1>3, <1>4, OpenFacts DEF BackgroundOK, View, CurrentKs
<1>6. /\ u \in ViewType /\ u.next \in Nat /\ u.log \in Nat /\ \A f \in u.files : f.number \in Nat
      /\ Numbers(u.files) \subseteq DOMAIN tables /\ u.next # 0 /\ current < u.next /\ u.log < u.next
      /\ \A f \in u.files : f.number < u.next
      /\ u.next <= next_file_number_ /\ u.log <= logfile_number_ /\ u.next <= e.next
  BY <1>1, <1>3, <1>4, <1>5, OpenFacts DEF OpenOK, ManifestOK, View, CurrentKs
<1>7. /\ Numbers(w.files) \subseteq DOMAIN tables /\ current < w.next /\ w.log < w.next
      /\ \A f \in w.files : f.number < w.next
      /\ w.next # 0 /\ w.next <= next_file_number_ /\ w.log <= logfile_number_ /\ u.next <= w.next
      /\ w.next \in Nat /\ w.next <= e.next /\ w.files \subseteq u.files \cup e.add
  <2>1. CASE w = u
    BY <1>6, <2>1, OpenFacts
  <2>2. CASE Applied(w, u, e)
    <3>1. w.files \subseteq u.files \cup e.add /\ w.log = e.log /\ w.next = e.next
      BY <2>2 DEF Applied, Apply
    <3>2. Numbers(w.files) \subseteq DOMAIN tables
      BY <1>5, <1>6, <3>1 DEF Numbers
    <3>3. \A f \in w.files : f.number < w.next
      BY <1>5, <1>6, <3>1
    <3> QED BY <1>1, <1>5, <1>6, <3>1, <3>2, <3>3, OpenFacts
  <2> QED BY <1>5, <2>1, <2>2
<1>8. \A k \in CurrentKs' : (k \in CurrentKs /\ View(k)' = View(k)) \/ (k = n + 1 /\ View(k)' = w)
  <2> SUFFICES ASSUME NEW k \in CurrentKs'
               PROVE  (k \in CurrentKs /\ View(k)' = View(k)) \/ (k = n + 1 /\ View(k)' = w)
    OBVIOUS
  <2>1. CASE k \in CurrentKs
    BY <1>3, <2>1
  <2>2. CASE k = n + 1
    BY <1>4, <2>2 DEF View
  <2> QED BY <1>3, <2>1, <2>2
<1>9. \A k \in CurrentKs : /\ k \in Nat /\ k <= n /\ View(k).next \in Nat /\ View(k).next <= u.next
                           /\ View(k).log \in Nat
  <2>1. \A k \in CurrentKs : k \in 0 .. n
    BY <1>1, <1>3, OpenFacts, CurrentViews DEF CurrentKs, Inv1, TypeInv
  <2>2. \A k \in CurrentKs : View(k).next \in Nat /\ View(k).log \in Nat
    BY <1>1, OpenFacts DEF CurrentKs, View
  <2>3. \A k \in CurrentKs : k <= n => View(k).next <= u.next
    BY <1>1, <1>3, <1>4, OpenFacts DEF ManifestOK, CurrentKs, View
  <2> QED BY <2>1, <2>2, <2>3
<1>10. CurrentOK'
  <2>1. current' # 0 /\ current' \in DOMAIN manifests'
    BY <1>1, <1>2, OpenFacts DEF ManifestRecord
  <2>2. ASSUME NEW k \in CurrentKs'
        PROVE  /\ Numbers(View(k)'.files) \subseteq DOMAIN tables'
               /\ View(k)'.next # 0 => /\ current' < View(k)'.next /\ View(k)'.log < View(k)'.next
                                       /\ \A f \in View(k)'.files : f.number < View(k)'.next
    <3>1. CASE View(k)' = w
      BY <1>2, <1>7, <3>1
    <3>2. CASE k \in CurrentKs /\ View(k)' = View(k)
      BY <1>1, <1>2, <3>2, OpenFacts DEF ManifestOK, View, CurrentKs
    <3> QED BY <1>8, <2>2, <3>1, <3>2
  <2>3. ASSUME NEW j \in CurrentKs', NEW k \in CurrentKs', j <= k
        PROVE  View(j)'.next <= View(k)'.next
    <3>1. CASE k = n + 1 /\ View(k)' = w
      BY <1>6, <1>7, <1>8, <1>9, <2>3, <3>1
    <3>2. CASE k \in CurrentKs /\ View(k)' = View(k) /\ j = n + 1
      BY <1>9, <2>3, <3>2
    <3>3. CASE k \in CurrentKs /\ View(k)' = View(k) /\ j \in CurrentKs /\ View(j)' = View(j)
      BY <1>1, <2>3, <3>3, OpenFacts DEF ManifestOK, View, CurrentKs
    <3> QED BY <1>8, <2>3, <3>1, <3>2, <3>3
  <2> QED BY <2>1, <2>2, <2>3 DEF CurrentOK, ManifestOK, View, CurrentKs
<1>11. LastView(current)' = w /\ LastView(current) = u
  BY <1>2, <1>3, <1>4 DEF LastView, View
<1>12. OpenOK'
  <2>1. \A k \in CurrentKs' : /\ View(k)'.next # 0 /\ View(k)'.next <= next_file_number_'
                              /\ View(k)'.log <= logfile_number_'
    BY <1>1, <1>2, <1>7, <1>8, OpenFacts DEF OpenOK, View, CurrentKs
  <2>2. Clean' => /\ manifests'[current'].synced = Len(manifests'[current'].records)
                  /\ LastView(current)'.files = Version'
    <3> SUFFICES ASSUME Clean'
                 PROVE  /\ manifests'[current'].synced = Len(manifests'[current'].records)
                        /\ LastView(current)'.files = Version'
      OBVIOUS
    <3>1. bg'.edit = bg.edit /\ bg'.pc \in {"flushed", "applied"} /\ manifests'[current].synced = n + 1
          /\ Applied(w, u, e) /\ Clean
      BY <1>1, <1>2, <1>3, <1>4 DEF Clean
    <3>2. u.files = files_
      BY <1>1, <1>11, <3>1, OpenFacts DEF OpenOK, Version
    <3>3. Version' = Apply(files_, e)
      BY <1>2, <1>4, <3>1 DEF Version
    <3> QED BY <1>2, <1>3, <1>11, <3>1, <3>2, <3>3 DEF Applied
  <2>3. files_ \subseteq u.files
    BY <1>1, <1>11, OpenFacts DEF OpenOK, Version
  <2>4. ~ (bg'.pc = "idle" /\ bg_error_') /\ ~ (bg'.pc = "apply" /\ bg'.edit = None) =>
             Version' \subseteq LastView(current)'.files
    <3>1. CASE bg'.edit = bg.edit /\ Applied(w, u, e) /\ bg'.pc \in {"flushed", "applied"}
      <4>1. Version' = Apply(files_, e)
        BY <1>2, <1>4, <3>1 DEF Version
      <4> QED BY <1>11, <2>3, <3>1, <4>1 DEF Applied, Apply
    <3>2. CASE bg'.edit = None /\ bg'.pc = bg.pc
      <4>1. CASE bg.pc = "apply"
        BY <3>2, <4>1
      <4>2. CASE bg.pc = "flush"
        <5>1. e.del = {}
          BY <1>1, <1>4, <4>2, OpenFacts DEF BackgroundOK
        <5>2. u.files \subseteq w.files
          BY <1>5, <5>1 DEF Applied, Apply
        <5>3. Version' = files_
          BY <1>2, <3>2, <4>2 DEF Version
        <5> QED BY <1>11, <2>3, <5>2, <5>3
      <4> QED BY <1>1, <4>1, <4>2
    <3> QED BY <1>1, <1>3, <1>4, <3>1, <3>2
  <2>5. PinnedFiles' = PinnedFiles
    BY <1>2 DEF PinnedFiles
  <2> QED BY <1>1, <1>2, <2>1, <2>2, <2>4, <2>5, OpenFacts DEF OpenOK, View, CurrentKs
<1>13. ASSUME compact # None, compact.output # 0,
              ~ (bg'.pc = "applied" \/ (bg'.pc = "apply" /\ bg'.edit = None))
       PROVE  Fresh(compact.output)'
  <2>1. PICK c : c = compact.output
    OBVIOUS
  <2>2. bg.pc = "flush" /\ Fresh(c) /\ c \notin Numbers(e.add)
    BY <1>1, <1>3, <1>4, <1>13, <2>1, OpenFacts DEF BackgroundOK
  <2>3. c \notin Numbers(u.files)
    BY <1>3, <1>4, <2>2 DEF Fresh, View, CurrentKs
  <2>4. c \notin Numbers(w.files)
    BY <1>7, <2>2, <2>3 DEF Numbers
  <2>5. \A k \in CurrentKs' : c \notin Numbers(View(k)'.files)
    BY <1>8, <2>2, <2>4 DEF Fresh, View, CurrentKs
  <2>6. Fresh(c)'
    BY <1>2, <2>2, <2>5 DEF Fresh, View, CurrentKs
  <2> QED BY <1>2, <2>1, <2>6
<1>14. BackgroundOK'
  <2>1. bg'.edit # None =>
             /\ bg'.pc \in {"flushed", "applied"} /\ bg'.edit = e
             /\ \A k \in CurrentKs' : View(k)'.next <= bg'.edit.next
    BY <1>3, <1>4, <1>7, <1>8
  <2>2. bg'.edit = None => bg'.pc = bg.pc
    BY <1>1, <1>3
  <2>3. bg'.pc \in {"flushed", "applied"} => bg'.edit = e /\ e # None
    BY <1>1, <1>3, <1>4
  <2>4. bg.pc = "flush" <=> bg'.pc \in {"flush", "flushed"}
    BY <1>1, <1>3
  <2>5. bg.pc = "apply" <=> bg'.pc \in {"apply", "applied"}
    BY <1>1, <1>3
  <2>6. /\ bg.pc = "flush" => imm_ # None /\ e.del = {}
                                 /\ (compact # None => compact.output \notin Numbers(e.add))
        /\ bg.pc = "apply" => /\ compact # None /\ compact.output # 0
                              /\ e.add = {Table(compact.output, 1)} /\ e.del = compact.inputs
                              /\ e.log = log_number_
        /\ \A f \in files_ : f.number < e.next
        /\ compact # None => /\ compact.inputs \subseteq files_
                             /\ compact.output # 0 => compact.output \in pending_outputs_ \cap DOMAIN tables
    BY <1>1, <1>4, OpenFacts DEF BackgroundOK
  <2> QED BY <1>1, <1>2, <1>4, <1>5, <1>13, <2>1, <2>2, <2>3, <2>4, <2>5, <2>6
          DEF BackgroundOK, View, CurrentKs
<1> QED BY <1>1, <1>10, <1>12, <1>14, StillOpen

(***************************************************************************)
(* DeleteObsoleteFiles at the end of a flush or a compaction: the MANIFEST *)
(* speaks of the version that is installed, and of no other.               *)
(***************************************************************************)
LEMMA DeletionKeepsCurrent ==
    ASSUME Inv1, status = "open", NEW fs, NEW log \in Nat, NEW pending,
           DeleteObsoleteFiles(fs, log, pending),
           bg.pc \in {"flushed", "applied"}, fs = Version
    PROVE  CurrentOK' /\ current' = current /\ current \in DOMAIN manifests'
           /\ manifests'[current] = manifests[current]
<1>1. DiskType /\ manifest_file_number_ \in Nat
  BY DEF Inv1, TypeInv, VsetType
<1>2. /\ current' = current /\ current \in DOMAIN manifests'
      /\ manifests'[current] = manifests[current]
  <2>1. current \in DOMAIN manifests /\ current >= manifest_file_number_
    BY <1>1, OpenFacts
  <2> QED BY <1>1, <2>1, Deleting
<1>3. \A k \in CurrentKs : Numbers(View(k).files) \subseteq DOMAIN tables'
  <2>1. CASE bg_error_
    BY <1>1, <2>1, OpenFacts, Deleting DEF ManifestOK, View, CurrentKs
  <2>2. CASE ~bg_error_
    <3>0. Clean
      BY <2>2 DEF Clean
    <3>1. PICK n : n = Len(manifests[current].records)
      OBVIOUS
    <3>2. n \in Nat /\ manifests[current].synced = n /\ View(n).files = fs
      <4>1. n \in Nat
        BY <1>1, <3>1, OpenFacts DEF DiskType, FilesTyped, ManifestType, Records
      <4> QED BY <3>0, <3>1, <4>1, OpenFacts DEF OpenOK, LastView, View
    <3>3. CurrentKs = {n}
      BY <3>1, <3>2 DEF CurrentKs, Ks
    <3>4. Numbers(fs) \subseteq DOMAIN tables
      BY <3>2, <3>3, OpenFacts DEF ManifestOK, View, CurrentKs
    <3>5. Numbers(fs) \subseteq DOMAIN tables'
      BY <1>1, <3>4, Deleting
    <3> QED BY <3>2, <3>3, <3>5
  <2> QED BY <2>1, <2>2
<1>4. CurrentOK'
  BY <1>2, <1>3, OpenFacts DEF CurrentOK, ManifestOK, View, CurrentKs
<1> QED BY <1>2, <1>4

LEMMA FlushInstalledKeeps ==
    ASSUME Inv1, FlushInstalled
    PROVE  Struct'
<1>1. status = "open" /\ status' = "open" /\ bg.pc = "flushed" /\ bg.edit # None /\ bg.edit.del = {}
  BY OnlyWhenOpen, OpenFacts DEF FlushInstalled, BackgroundOK
<1>2. UNCHANGED <<logfile_number_, next_file_number_, manifest_file_number_, pinned,
                  pending_outputs_, compact, bg_error_>>
      /\ imm_' = None
  BY DEF FlushInstalled
<1>3. PICK e, fs, log : /\ e = bg.edit /\ fs = files_' /\ log = log_number_'
                        /\ fs = Apply(files_, e) /\ log = e.log
                        /\ DeleteObsoleteFiles(fs, log, pending_outputs_)
  BY DEF FlushInstalled
<1>4. /\ e.next \in Nat /\ e.log \in Nat /\ \A f \in e.add : f.number < e.next /\ f.number \in Nat
      /\ Numbers(e.add) \subseteq DOMAIN tables /\ e.next <= next_file_number_
      /\ e.log <= logfile_number_ /\ e.del = {}
      /\ (compact # None => compact.output \notin Numbers(e.add))
  BY <1>1, <1>3, OpenFacts DEF BackgroundOK
<1>5. fs = files_ \cup e.add /\ fs = Version
  BY <1>1, <1>3, <1>4 DEF Apply, Version
<1>6. /\ CurrentOK' /\ current' = current /\ current \in DOMAIN manifests'
      /\ manifests'[current] = manifests[current]
  BY <1>1, <1>3, <1>4, <1>5, DeletionKeepsCurrent
<1>7. bg'.edit = None /\ bg'.pc = (IF compact = None THEN "idle" ELSE "merge")
  <2>1. CASE compact = None
    <3>1. bg' = Idle
      BY <2>1 DEF FlushInstalled, AfterFlush, EndCall
    <3> QED BY <2>1, <3>1 DEF Idle
  <2>2. CASE compact # None
    <3>1. bg' = [pc |-> "merge", number |-> 0, edit |-> None]
      BY <2>2 DEF FlushInstalled, AfterFlush
    <3> QED BY <2>2, <3>1
  <2> QED BY <2>1, <2>2
<1>8. /\ DOMAIN logs' \subseteq DOMAIN logs /\ \A n \in DOMAIN logs : n >= log => n \in DOMAIN logs'
      /\ \A n \in DOMAIN tables :
            n \in Numbers(fs) \cup pending_outputs_ \cup PinnedFiles => n \in DOMAIN tables'
  BY <1>3, <1>4, Deleting DEF Inv1, TypeInv, VsetType
<1>9. Numbers(fs) \cup PinnedFiles \subseteq DOMAIN tables'
  <2>1. Numbers(files_) \cup PinnedFiles \subseteq DOMAIN tables
    BY <1>1, OpenFacts DEF OpenOK
  <2>2. Numbers(fs) \subseteq DOMAIN tables
    BY <1>4, <1>5, <2>1 DEF Numbers
  <2> QED BY <1>8, <2>1, <2>2
<1>10. OpenOK'
  <2>1. logfile_number_ \in DOMAIN logs' /\ \A n \in DOMAIN logs' : n <= logfile_number_
    BY <1>1, <1>3, <1>4, <1>8, OpenFacts DEF OpenOK
  <2>2. \A f \in fs : f.number < next_file_number_
    BY <1>1, <1>4, <1>5, OpenFacts DEF OpenOK
  <2>3. Clean' = Clean /\ Version' = fs
    BY <1>1, <1>2, <1>3, <1>7 DEF Clean, Version
  <2>4. PinnedFiles' = PinnedFiles /\ LastView(current)' = LastView(current)
    BY <1>2, <1>6 DEF PinnedFiles, LastView
  <2> QED BY <1>1, <1>2, <1>3, <1>4, <1>5, <1>6, <1>9, <2>1, <2>2, <2>3, <2>4, OpenFacts DEF OpenOK
<1>11. ASSUME compact # None, compact.output # 0
       PROVE  /\ (Fresh(compact.output))'
              /\ compact'.output \in pending_outputs_' \cap DOMAIN tables'
  <2>1. PICK c : c = compact.output
    OBVIOUS
  <2>2. Fresh(c) /\ c \notin Numbers(e.add) /\ c \in pending_outputs_ \cap DOMAIN tables
    BY <1>1, <1>4, <1>11, <2>1, OpenFacts DEF BackgroundOK
  <2>3. c \notin Numbers(fs)
    BY <1>5, <2>2 DEF Fresh, Numbers
  <2>4. Fresh(c)'
    BY <1>2, <1>3, <1>6, <2>2, <2>3 DEF Fresh
  <2> QED BY <1>2, <1>8, <2>1, <2>2, <2>4
<1>12. BackgroundOK'
  BY <1>1, <1>2, <1>3, <1>5, <1>7, <1>11, OpenFacts DEF BackgroundOK
<1> QED BY <1>1, <1>6, <1>10, <1>12, StillOpen

LEMMA CompactionInstalledKeeps ==
    ASSUME Inv1, CompactionInstalled
    PROVE  Struct'
<1>1. status = "open" /\ status' = "open" /\ bg.pc = "applied" /\ bg.edit # None
  BY OnlyWhenOpen, OpenFacts DEF CompactionInstalled, BackgroundOK
<1>2. UNCHANGED <<imm_, logfile_number_, next_file_number_, manifest_file_number_, pinned, bg_error_>>
      /\ compact' = None /\ bg'.pc = "idle" /\ bg'.edit = None
  BY DEF CompactionInstalled, EndCall, Idle, mems
<1>3. PICK e, fs, log, pending :
         /\ e = bg.edit /\ fs = files_' /\ log = log_number_' /\ fs = Apply(files_, e) /\ log = e.log
         /\ DeleteObsoleteFiles(fs, log, pending)
  BY DEF CompactionInstalled
<1>4. /\ e.next \in Nat /\ e.log \in Nat /\ \A f \in e.add : f.number < e.next /\ f.number \in Nat
      /\ Numbers(e.add) \subseteq DOMAIN tables /\ e.next <= next_file_number_
      /\ e.log <= logfile_number_
  BY <1>1, <1>3, OpenFacts DEF BackgroundOK
<1>5. fs \subseteq files_ \cup e.add /\ fs = Version
  BY <1>1, <1>3 DEF Apply, Version
<1>6. /\ CurrentOK' /\ current' = current /\ current \in DOMAIN manifests'
      /\ manifests'[current] = manifests[current]
  BY <1>1, <1>3, <1>4, <1>5, DeletionKeepsCurrent
<1>7. /\ DOMAIN logs' \subseteq DOMAIN logs /\ \A n \in DOMAIN logs : n >= log => n \in DOMAIN logs'
      /\ \A n \in DOMAIN tables :
            n \in Numbers(fs) \cup pending \cup PinnedFiles => n \in DOMAIN tables'
  BY <1>3, <1>4, Deleting DEF Inv1, TypeInv, VsetType
<1>8. Numbers(fs) \cup PinnedFiles \subseteq DOMAIN tables'
  <2>1. Numbers(files_) \cup PinnedFiles \subseteq DOMAIN tables
    BY <1>1, OpenFacts DEF OpenOK
  <2>2. Numbers(fs) \subseteq DOMAIN tables
    BY <1>4, <1>5, <2>1 DEF Numbers
  <2> QED BY <1>7, <2>1, <2>2
<1>9. OpenOK'
  <2>1. logfile_number_ \in DOMAIN logs' /\ \A n \in DOMAIN logs' : n <= logfile_number_
    BY <1>1, <1>3, <1>4, <1>7, OpenFacts DEF OpenOK
  <2>2. \A f \in fs : f.number < next_file_number_
    BY <1>1, <1>4, <1>5, OpenFacts DEF OpenOK
  <2>3. Clean' = Clean /\ Version' = fs
    BY <1>1, <1>2, <1>3 DEF Clean, Version
  <2>4. PinnedFiles' = PinnedFiles /\ LastView(current)' = LastView(current)
    BY <1>2, <1>6 DEF PinnedFiles, LastView
  <2> QED BY <1>1, <1>2, <1>3, <1>4, <1>5, <1>6, <1>8, <2>1, <2>2, <2>3, <2>4, OpenFacts DEF OpenOK
<1>10. BackgroundOK'
  BY <1>1, <1>2 DEF BackgroundOK
<1> QED BY <1>1, <1>6, <1>9, <1>10, StillOpen

-----------------------------------------------------------------------------
(* The structure is kept by a crash and by DB::Open                        *)

LEMMA GoneIsQuiet ==
    ASSUME Gone, CurrentOK'
    PROVE  Struct'
BY DEF Gone, Struct, Quiet, OpeningOK, OpenOK, BackgroundOK, Opening_

(* A crash leaves a MANIFEST that was possible before it. *)
LEMMA CrashKeeps ==
    ASSUME Inv1, Crash
    PROVE  /\ Struct'
           /\ current # 0 => /\ current \in DOMAIN manifests /\ CurrentKs' \subseteq CurrentKs
                             /\ \A k \in CurrentKs' : /\ View(k)' = View(k)
                                                       /\ k = Len(manifests'[current].records)
<1>1. /\ CurrentOK /\ Gone /\ UNCHANGED <<current, tables>> /\ DiskType
      /\ FilesTyped(manifests, ManifestType) /\ manifests' \in Survivors(manifests)
  BY DEF Inv1, TypeInv, DiskType, Struct, Crash
<1>2. Cut(manifests, manifests')
  BY <1>1, ManifestsSurvive
<1>3. CASE current = 0
  BY <1>1, <1>3, GoneIsQuiet DEF CurrentOK
<1>4. CASE current # 0
  <2>1. ManifestOK(current) /\ current \in DOMAIN manifests /\ current \in DOMAIN manifests'
    BY <1>1, <1>2, <1>4 DEF CurrentOK, ManifestOK, Cut
  <2>2. PICK m, q : m = manifests[current] /\ q = manifests'[current]
    OBVIOUS
  <2>3. m.synced \in Nat /\ Len(m.records) \in Nat
    BY <1>1, <2>1, <2>2 DEF FilesTyped, ManifestType, Records
  <2>4. /\ q.synced \in m.synced .. Len(m.records) /\ Len(q.records) = q.synced
        /\ \A i \in 1 .. q.synced : q.records[i] = m.records[i]
    BY <1>2, <2>1, <2>2 DEF Cut
  <2>5. PICK s : s = q.synced /\ s \in Nat
    BY <2>3, <2>4
  <2>6. CurrentKs' = {s} /\ s \in CurrentKs
    BY <1>1, <2>2, <2>3, <2>4, <2>5 DEF CurrentKs, Ks
  <2>7. Replay(q.records, s) = Replay(m.records, s)
    BY <2>4, <2>5, SameReplay
  <2>8. \A k \in CurrentKs' : View(k)' = View(k) /\ k \in CurrentKs
    BY <1>1, <2>2, <2>6, <2>7 DEF View
  <2>9. CurrentOK'
    BY <1>1, <2>1, <2>8 DEF CurrentOK, ManifestOK, View, CurrentKs
  <2> QED BY <1>1, <2>1, <2>2, <2>4, <2>5, <2>6, <2>8, <2>9, GoneIsQuiet
<1> QED BY <1>3, <1>4

LEMMA GoneKeeps ==
    ASSUME Inv1, Destroyed \/ OpenFails
    PROVE  Struct'
<1>1. CurrentOK /\ Gone /\ UNCHANGED <<current, tables>> /\ DiskType
  BY DEF Inv1, TypeInv, Struct, Destroyed, OpenFails, disk
<1>2. CASE manifests' = manifests
  BY <1>1, <1>2, CurrentKept, GoneIsQuiet
<1>3. CASE status = "manifest"
           /\ manifests' = Restricted(manifests, DOMAIN manifests \ {manifest_file_number_})
  <2>1. current < manifest_file_number_ /\ current \in Nat /\ current # 0 /\ current \in DOMAIN manifests
    BY <1>1, <1>3 DEF Inv1, Struct, OpeningOK, Opening_, DiskType, CurrentOK, ManifestOK
  <2>2. current # manifest_file_number_
    BY <2>1 DEF Inv1, TypeInv, VsetType
  <2>3. current \in DOMAIN manifests' /\ manifests'[current] = manifests[current]
    BY <1>3, <2>1, <2>2 DEF Restricted
  <2>4. CurrentOK'
    BY <1>1, <2>3 DEF CurrentOK, ManifestOK
  <2> QED BY <1>1, <2>4, GoneIsQuiet
<1> QED BY <1>2, <1>3 DEF Destroyed, OpenFails, disk

LEMMA NewDBKeeps ==
    ASSUME Inv1, NewDB
    PROVE  Struct'
<1>1. CurrentOK /\ Quiet /\ status = "down" /\ status' = "down" /\ current = 0
  BY DEF Inv1, Struct, NewDB
<1>2. Quiet'
  BY <1>1 DEF Quiet, NewDB, work, mems, queue
<1>3. OpeningOK' /\ OpenOK' /\ BackgroundOK'
  BY <1>1 DEF OpeningOK, OpenOK, BackgroundOK, Opening_
<1>4. CASE current' = 0
  BY <1>2, <1>3, <1>4 DEF Struct, CurrentOK
<1>5. CASE current' # 0
  <2>1. PICK e, m : e = Edit({}, {}, 0, 2, 0) /\ m = [records |-> <<e>>, synced |-> 0]
    OBVIOUS
  <2>2. manifests' = With(manifests, 1, m) /\ current' = 1
    BY <1>1, <1>5, <2>1 DEF NewDB
  <2>3. 1 \in DOMAIN manifests' /\ manifests'[1] = m /\ m.records = <<e>> /\ m.synced = 0
    BY <2>1, <2>2 DEF With
  <2>4. e \in EditType /\ e.next = 2 /\ e.log = 0 /\ e.add = {}
    BY <2>1, EditTyped
  <2>5. CurrentKs' = {0, 1}
    <3>1. Len(m.records) = 1
      BY <2>3
    <3>2. CurrentKs' = 0 .. 1
      BY <2>2, <2>3, <3>1 DEF CurrentKs, Ks
    <3> QED BY <3>2
  <2>6. View(0)'.next = 0 /\ View(0)'.files = {}
    <3>1. CountedAt(<<e>>, 0) = {} /\ FilesAt(<<e>>, 0) = {}
      BY DEF CountedAt, FilesAt
    <3>2. Replay(<<e>>, 0).next = 0 /\ Replay(<<e>>, 0).files = {}
      BY <3>1, ReplayFields
    <3> QED BY <2>2, <2>3, <3>2 DEF View
  <2>7. View(1)'.next = 2 /\ View(1)'.files = {} /\ View(1)'.log = 0
    BY <2>2, <2>3, <2>4, ReplayOne DEF View
  <2>8. ManifestOK(1)'
    BY <2>2, <2>3, <2>5, <2>6, <2>7 DEF ManifestOK, View, CurrentKs, Numbers
  <2> QED BY <1>2, <1>3, <2>2, <2>8 DEF Struct, CurrentOK
<1> QED BY <1>4, <1>5

LEMMA RecoverKeeps ==
    ASSUME Inv1, Recover
    PROVE  Struct'
<1>1. CurrentOK /\ Quiet /\ status = "down" /\ current # 0 /\ UNCHANGED <<disk, mems, work, pinned, queue>>
  BY DEF Inv1, Struct, Recover
<1>2. status' \in {"corrupt", "recovering"}
  BY DEF Recover
<1>3. CurrentOK'
  BY <1>1, CurrentKept DEF disk
<1>4. Quiet'
  BY <1>1 DEF Quiet, work, mems, queue
<1>5. OpenOK' /\ BackgroundOK'
  BY <1>2 DEF OpenOK, BackgroundOK
<1>6. OpeningOK'
  <2>1. CASE status' = "corrupt"
    BY <2>1 DEF OpeningOK, Opening_
  <2>2. CASE status' # "corrupt"
    <3>1. ManifestOK(current) /\ current \in DOMAIN manifests /\ DiskType
      BY <1>1 DEF CurrentOK, ManifestOK, Inv1, TypeInv
    <3>2. PICK n : n = Len(manifests[current].records)
      OBVIOUS
    <3>3. PICK v : v = Replay(manifests[current].records, n)
      OBVIOUS
    <3>4. n \in Ks(manifests[current])
      <4>1. manifests[current].synced \in Nat /\ n \in Nat /\ manifests[current].synced <= n
        BY <3>1, <3>2 DEF DiskType, FilesTyped, ManifestType, Records
      <4> QED BY <3>2, <4>1 DEF Ks
    <3>5. v \in ViewType
      BY <3>1, <3>3, <3>4, CurrentViews
    <3>6. /\ v.next # 0 /\ status' = "recovering" /\ files_' = v.files /\ log_number_' = v.log
          /\ manifest_file_number_' = v.next /\ next_file_number_' = v.next + 1
          /\ rec' = [logs |-> {i \in DOMAIN logs : i >= v.log}, read |-> 0, add |-> {},
                     max_sequence |-> 0, ok |-> TRUE]
      BY <2>2, <3>2, <3>3 DEF Recover, Unreadable
    <3>7. /\ Numbers(v.files) \subseteq DOMAIN tables /\ current < v.next /\ v.log < v.next
          /\ \A f \in v.files : f.number < v.next
      BY <3>1, <3>3, <3>4, <3>6 DEF ManifestOK
    <3>8. v.next \in Nat /\ v.log \in Nat /\ (\A f \in v.files : f.number \in Nat) /\ current \in Nat
          /\ \A i \in DOMAIN logs : i \in Nat
      BY <3>1, <3>5 DEF ViewType, FileType, DiskType, FilesTyped
    <3>9. LastView(current)' = v
      BY <1>1, <3>2, <3>3 DEF LastView, disk
    <3>10. rec'.add = {} /\ rec'.logs = {i \in DOMAIN logs : i >= v.log}
      BY <3>6
    <3>11. /\ \A f \in v.files : f.number < v.next + 1
           /\ \A i \in DOMAIN logs : i < v.next + 1 \/ i \in rec'.logs
           /\ v.next < v.next + 1
      BY <3>7, <3>8, <3>10
    <3> QED BY <1>1, <3>6, <3>7, <3>9, <3>10, <3>11 DEF OpeningOK, disk, Numbers
  <2> QED BY <2>1, <2>2
<1> QED BY <1>3, <1>4, <1>5, <1>6 DEF Struct

LEMMA OpeningFacts ==
    ASSUME Inv1, status \in Opening_
    PROVE  /\ CurrentOK /\ Quiet /\ OpeningOK /\ DiskType /\ VsetType /\ rec \in RecType
           /\ current # 0 /\ current \in DOMAIN manifests /\ ManifestOK(current) /\ current \in Nat
           /\ next_file_number_ \in Nat /\ manifest_file_number_ \in Nat /\ logfile_number_ \in Nat
           /\ \A f \in files_ \cup rec.add : f.number \in Nat
           /\ \A n \in DOMAIN logs : n \in Nat
           /\ rec.add \in SUBSET FileType /\ files_ \in SUBSET FileType
<1>1. CurrentOK /\ Quiet /\ OpeningOK /\ DiskType /\ VsetType /\ rec \in RecType /\ current # 0
  BY DEF Inv1, TypeInv, Struct, WorkType, OpeningOK
<1>2. current \in DOMAIN manifests /\ ManifestOK(current) /\ current \in Nat
  BY <1>1 DEF CurrentOK, ManifestOK, DiskType
<1>3. rec.add \in SUBSET FileType /\ files_ \in SUBSET FileType
  BY <1>1 DEF RecType, VsetType
<1>4. \A f \in files_ \cup rec.add : f.number \in Nat
  BY <1>3 DEF FileType
<1>5. \A n \in DOMAIN logs : n \in Nat
  BY <1>1 DEF DiskType, FilesTyped
<1> QED BY <1>1, <1>2, <1>3, <1>4, <1>5 DEF VsetType

LEMMA StillOpening ==
    ASSUME status' \in Opening_, CurrentOK', Quiet', OpeningOK'
    PROVE  Struct'
BY DEF Struct, OpenOK, BackgroundOK, Opening_

LEMMA RecoverLogKeeps ==
    ASSUME Inv1, Recovery
    PROVE  Struct'
<1>1. status = "recovering" /\ status \in Opening_ /\ status' = "recovering" /\ status' \in Opening_
  BY DEF Recovery, RecoverTable, RecoverLogFile, Recovering, Opening_
<1>2. UNCHANGED <<current, manifests, logs, logfile_number_, log_number_, last_sequence_,
                  manifest_file_number_, files_, pinned, imm_, mem_, writing, work>>
  BY DEF Recovery, RecoverTable, RecoverLogFile, mems, queue
<1>3. PICK n \in rec.logs, found \in SUBSET Entries :
              /\ n \in Nat /\ next_file_number_' \in Nat
              /\ next_file_number_' >= next_file_number_
              /\ rec'.logs = rec.logs \/ (rec'.logs = rec.logs \ {n} /\ next_file_number_' > n)
              /\ \/ tables' = tables /\ rec'.add = rec.add
                 \/ /\ tables' = With(tables, next_file_number_, found)
                    /\ rec'.add = rec.add \cup {Table(next_file_number_, 0)}
                    /\ next_file_number_' > next_file_number_
  BY RecoveredTables
<1>4. DOMAIN tables \subseteq DOMAIN tables'
  BY <1>3 DEF With
<1>5. CurrentOK'
  BY <1>1, <1>2, <1>4, OpeningFacts, CurrentKept
<1>6. Quiet'
  BY <1>1, <1>2, OpeningFacts DEF Quiet, work
<1>7. Table(next_file_number_, 0).number = next_file_number_
  BY DEF Table
<1>8. Numbers(files_' \cup rec'.add) \subseteq DOMAIN tables'
  <2>1. Numbers(files_ \cup rec.add) \subseteq DOMAIN tables'
    BY <1>1, <1>4, OpeningFacts DEF OpeningOK
  <2>2. CASE rec'.add = rec.add
    BY <1>2, <2>1, <2>2
  <2>3. CASE tables' = With(tables, next_file_number_, found)
             /\ rec'.add = rec.add \cup {Table(next_file_number_, 0)}
    <3>1. next_file_number_ \in DOMAIN tables'
      BY <2>3 DEF With
    <3> QED BY <1>2, <1>7, <2>1, <2>3, <3>1 DEF Numbers
  <2> QED BY <1>3, <2>2, <2>3
<1>9. \A f \in files_' \cup rec'.add : f.number < next_file_number_'
  <2>1. \A f \in files_ \cup rec.add : f.number < next_file_number_ /\ f.number < next_file_number_'
    BY <1>1, <1>3, OpeningFacts DEF OpeningOK
  <2> QED BY <1>2, <1>3, <1>7, <2>1
<1>10. \A i \in DOMAIN logs' : i < next_file_number_' \/ i \in rec'.logs
  BY <1>1, <1>2, <1>3, OpeningFacts DEF OpeningOK
<1>11. OpeningOK'
  <2>1. /\ current # 0 /\ manifest_file_number_ < next_file_number_ /\ current < manifest_file_number_
        /\ LastView(current).next = manifest_file_number_ /\ LastView(current).log = log_number_
        /\ LastView(current).files = files_ /\ rec.logs \subseteq DOMAIN logs
    BY <1>1, OpeningFacts DEF OpeningOK
  <2>2. manifest_file_number_ < next_file_number_'
    BY <1>1, <1>3, <2>1, OpeningFacts
  <2>3. LastView(current)' = LastView(current)
    BY <1>2 DEF LastView
  <2>4. rec'.logs \subseteq DOMAIN logs
    BY <1>3, <2>1
  <2> QED BY <1>1, <1>2, <1>8, <1>9, <1>10, <2>1, <2>2, <2>3, <2>4 DEF OpeningOK
<1> QED BY <1>1, <1>5, <1>6, <1>11, StillOpening

LEMMA NewManifestKeeps ==
    ASSUME Inv1, NewLogAndManifest
    PROVE  Struct'
<1>1. status = "recovering" /\ status \in Opening_ /\ status' = "manifest" /\ status' \in Opening_
      /\ rec.logs = {}
  BY DEF NewLogAndManifest, Opening_
<1>2. UNCHANGED <<current, tables, imm_, mem_, writing, log_number_, manifest_file_number_, files_,
                  pinned, work, rec>>
      /\ logfile_number_' = next_file_number_ /\ next_file_number_' = next_file_number_ + 1
  BY DEF NewLogAndManifest, queue
<1>3. PICK m, l :
         /\ m = [records |-> <<Snapshot(files_), Edit(rec.add, {}, logfile_number_',
                                                    next_file_number_', last_sequence_')>>,
                 synced |-> 2]
         /\ l = [records |-> <<>>, synced |-> 0]
         /\ manifests' = With(manifests, manifest_file_number_, m)
         /\ logs' = With(logs, next_file_number_, l)
  BY <1>2 DEF NewLogAndManifest
<1>4. current < manifest_file_number_ /\ current # manifest_file_number_
  BY <1>1, OpeningFacts DEF OpeningOK
<1>5. /\ current \in DOMAIN manifests' /\ manifests'[current] = manifests[current]
      /\ manifest_file_number_ \in DOMAIN manifests' /\ manifests'[manifest_file_number_] = m
      /\ DOMAIN logs' = DOMAIN logs \cup {next_file_number_} /\ logs'[next_file_number_] = l
  BY <1>1, <1>3, <1>4, OpeningFacts DEF With
<1>6. CurrentOK'
  BY <1>1, <1>2, <1>5, OpeningFacts DEF CurrentOK, ManifestOK
<1>7. Quiet'
  BY <1>1, <1>2, OpeningFacts DEF Quiet, work
<1>8. l.records = <<>>
  BY <1>3
<1>9. /\ Numbers(files_ \cup rec.add) \subseteq DOMAIN tables
      /\ \A f \in files_ \cup rec.add : f.number < next_file_number_ + 1
      /\ manifest_file_number_ < next_file_number_ + 1 /\ next_file_number_ < next_file_number_ + 1
      /\ \A i \in DOMAIN logs' : i <= next_file_number_
  <2>1. /\ Numbers(files_ \cup rec.add) \subseteq DOMAIN tables
        /\ \A f \in files_ \cup rec.add : f.number < next_file_number_ /\ f.number \in Nat
        /\ manifest_file_number_ < next_file_number_
        /\ \A i \in DOMAIN logs : i < next_file_number_
    BY <1>1, OpeningFacts DEF OpeningOK
  <2>2. next_file_number_ \in Nat /\ manifest_file_number_ \in Nat /\ \A i \in DOMAIN logs : i \in Nat
    BY <1>1, OpeningFacts
  <2>3. \A i \in DOMAIN logs' : i <= next_file_number_
    BY <1>5, <2>1, <2>2
  <2>4. \A f \in files_ \cup rec.add : f.number < next_file_number_ + 1
    BY <2>1, <2>2
  <2>5. manifest_file_number_ < next_file_number_ + 1 /\ next_file_number_ < next_file_number_ + 1
    BY <2>1, <2>2
  <2> QED BY <2>1, <2>3, <2>4, <2>5
<1>10. OpeningOK'
  BY <1>1, <1>2, <1>3, <1>4, <1>5, <1>8, <1>9, OpeningFacts DEF OpeningOK
<1> QED BY <1>1, <1>6, <1>7, <1>10, StillOpening

(***************************************************************************)
(* The MANIFEST that recovery wrote says what recovery found.              *)
(***************************************************************************)
LEMMA NewManifestSays ==
    ASSUME Inv1, status \in {"manifest", "current"}, NEW m, m = manifests[manifest_file_number_],
           NEW v, v = Replay(m.records, 2)
    PROVE  /\ Len(m.records) = 2 /\ m.synced = 2 /\ Ks(m) = {2}
           /\ v.files = files_ \cup rec.add /\ v.log = logfile_number_
           /\ v.next = next_file_number_ /\ v.last = last_sequence_ /\ next_file_number_ # 0
<1>1. status \in Opening_
  BY DEF Opening_
<1>2. PICK e : e = Edit(rec.add, {}, logfile_number_, next_file_number_, last_sequence_)
  OBVIOUS
<1>3. m = [records |-> <<Snapshot(files_), e>>, synced |-> 2]
  BY <1>1, <1>2, OpeningFacts DEF OpeningOK
<1>4. /\ e \in EditType /\ e.add = rec.add /\ e.del = {} /\ e.log = logfile_number_
      /\ e.next = next_file_number_ /\ e.last = last_sequence_
  BY <1>1, <1>2, OpeningFacts, EditTyped DEF VsetType
<1>5. next_file_number_ # 0
  BY <1>1, OpeningFacts DEF OpeningOK
<1>6. m.records = <<Snapshot(files_), e>> /\ m.synced = 2
  BY <1>3
<1>7. Len(m.records) = 2
  BY <1>6
<1>8. Ks(m) = {2}
  BY <1>6, <1>7 DEF Ks
<1>9. v = Replay(<<Snapshot(files_), e>>, 2)
  BY <1>6
<1>10. v.files = files_ \cup e.add /\ v.log = e.log /\ v.next = e.next /\ v.last = e.last
  BY <1>1, <1>4, <1>5, <1>9, OpeningFacts, ReplayTwo
<1> QED BY <1>4, <1>5, <1>6, <1>7, <1>8, <1>10

LEMMA SetCurrentKeeps ==
    ASSUME Inv1, SetCurrentFile
    PROVE  Struct'
<1>1. status = "manifest" /\ status \in Opening_ /\ status' = "current" /\ status' \in Opening_
  BY DEF SetCurrentFile, Opening_
<1>2. UNCHANGED <<manifests, logs, tables, mems, writing, vset, pinned, work, rec>>
      /\ current' = manifest_file_number_
  BY DEF SetCurrentFile, queue
<1>3. PICK m, v : m = manifests[manifest_file_number_] /\ v = Replay(m.records, 2)
  OBVIOUS
<1>4. /\ Ks(m) = {2} /\ v.files = files_ \cup rec.add /\ v.log = logfile_number_
      /\ v.next = next_file_number_
  BY <1>1, <1>3, NewManifestSays
<1>5. /\ Numbers(v.files) \subseteq DOMAIN tables /\ manifest_file_number_ < v.next /\ v.log < v.next
      /\ (\A f \in v.files : f.number < v.next) /\ v.next \in Nat
      /\ manifest_file_number_ \in DOMAIN manifests /\ manifest_file_number_ # 0
  <2>1. /\ Numbers(files_ \cup rec.add) \subseteq DOMAIN tables
        /\ \A f \in files_ \cup rec.add : f.number < next_file_number_
        /\ manifest_file_number_ < next_file_number_ /\ logfile_number_ < next_file_number_
        /\ manifest_file_number_ \in DOMAIN manifests /\ current < manifest_file_number_
    BY <1>1, OpeningFacts DEF OpeningOK
  <2>2. next_file_number_ \in Nat /\ manifest_file_number_ # 0
    BY <1>1, <2>1, OpeningFacts
  <2> QED BY <1>4, <2>1, <2>2
<1>6. \A k \in Ks(m) : Replay(m.records, k) = v
  BY <1>3, <1>4
<1>7. CurrentOK'
  BY <1>2, <1>3, <1>5, <1>6 DEF CurrentOK, ManifestOK
<1>8. Quiet'
  BY <1>1, <1>2, OpeningFacts DEF Quiet, work, mems
<1>9. OpeningOK'
  BY <1>1, <1>2, <1>5, OpeningFacts DEF OpeningOK, vset, mems
<1> QED BY <1>1, <1>7, <1>8, <1>9, StillOpening

LEMMA OpenDoneKeeps ==
    ASSUME Inv1, OpenDone
    PROVE  Struct'
<1>1. status = "current" /\ status \in Opening_ /\ status' = "open" /\ current = manifest_file_number_
  BY OpeningFacts DEF OpenDone, Opening_, OpeningOK
<1>2. UNCHANGED <<mems, next_file_number_, manifest_file_number_, pinned, pending_outputs_, bg_error_,
                  bg, compact>>
      /\ ~bg_error_ /\ bg = Idle /\ compact = None /\ pinned = None
  BY <1>1, OpeningFacts DEF OpenDone, Quiet
<1>3. PICK fs, log : /\ fs = files_' /\ log = log_number_' /\ fs = files_ \cup rec.add
                     /\ log = logfile_number_ /\ DeleteObsoleteFiles(fs, log, {})
  BY DEF OpenDone
<1>4. PICK m, v : m = manifests[current] /\ v = Replay(m.records, 2)
  OBVIOUS
<1>5. /\ Ks(m) = {2} /\ v.files = fs /\ v.log = logfile_number_ /\ v.next = next_file_number_
      /\ m.synced = 2 /\ Len(m.records) = 2 /\ next_file_number_ # 0
  BY <1>1, <1>3, <1>4, NewManifestSays
<1>6. current >= manifest_file_number_ /\ logfile_number_ >= log /\ log \in Nat
  BY <1>1, <1>3, OpeningFacts
<1>7. /\ current' = current /\ DOMAIN logs' \subseteq DOMAIN logs
      /\ \A n \in DOMAIN logs : n >= log => n \in DOMAIN logs'
      /\ \A n \in DOMAIN manifests' : manifests'[n] = manifests[n]
      /\ \A n \in DOMAIN manifests : n >= manifest_file_number_ => n \in DOMAIN manifests'
      /\ \A n \in DOMAIN tables :
            n \in Numbers(fs) \cup {} \cup PinnedFiles => n \in DOMAIN tables'
  BY <1>1, <1>3, <1>6, OpeningFacts, Deleting
<1>8. current \in DOMAIN manifests' /\ manifests'[current] = m /\ logfile_number_ \in DOMAIN logs'
  BY <1>1, <1>4, <1>6, <1>7, OpeningFacts DEF OpeningOK
<1>9. Numbers(fs) \subseteq DOMAIN tables'
  BY <1>1, <1>3, <1>7, OpeningFacts DEF OpeningOK
<1>10. \A k \in Ks(m) : Replay(m.records, k) = v
  BY <1>4, <1>5
<1>11. CurrentOK'
  <2>1. /\ manifest_file_number_ < v.next /\ v.log < v.next
        /\ (\A f \in v.files : f.number < v.next) /\ v.next \in Nat
    BY <1>1, <1>3, <1>5, OpeningFacts DEF OpeningOK
  <2> QED BY <1>1, <1>5, <1>7, <1>8, <1>9, <1>10, <2>1 DEF CurrentOK, ManifestOK
<1>12. OpenOK'
  <2>1. PinnedFiles' = {}
    BY <1>2 DEF PinnedFiles
  <2>2. Version' = fs
    BY <1>2, <1>3 DEF Version, Idle
  <2>3. LastView(current)' = v
    BY <1>4, <1>5, <1>7, <1>8 DEF LastView
  <2>4. /\ current # 0 /\ manifest_file_number_ < next_file_number_
        /\ logfile_number_ < next_file_number_ /\ logfile_number_ <= logfile_number_
        /\ next_file_number_ <= next_file_number_
        /\ (\A f \in fs : f.number < next_file_number_)
        /\ \A n \in DOMAIN logs' : n <= logfile_number_
    BY <1>1, <1>3, <1>7, OpeningFacts DEF OpeningOK
  <2> QED BY <1>1, <1>2, <1>3, <1>5, <1>7, <1>8, <1>9, <1>10, <2>1, <2>2, <2>3, <2>4
          DEF OpenOK, mems
<1>13. BackgroundOK'
  BY <1>2 DEF BackgroundOK, Idle
<1> QED BY <1>1, <1>11, <1>12, <1>13, StillOpen

-----------------------------------------------------------------------------
(* The structure is an invariant                                           *)

LEMMA FilesTypedEmpty ==
    ASSUME NEW T
    PROVE  FilesTyped(Empty, T) /\ DOMAIN Empty = {}
BY DEF FilesTyped, Empty

LEMMA InitIsSound == Init => Inv1
<1> SUFFICES ASSUME Init PROVE Inv1
  OBVIOUS
<1>1. PICK n \in Stored :
         /\ current = n
         /\ tables = IF n = 0 THEN Empty ELSE With(Empty, 2, {<<1, 0>>})
         /\ manifests = IF n = 0 THEN Empty ELSE
               With(Empty, 1, [records |-> <<Edit({Table(2, 0)}, {}, 0, 3, 1)>>, synced |-> 1])
  BY DEF Init
<1>2. PICK e, m : e = Edit({Table(2, 0)}, {}, 0, 3, 1) /\ m = [records |-> <<e>>, synced |-> 1]
  OBVIOUS
<1>3. Table(2, 0) \in FileType /\ Table(2, 0).number = 2 /\ Numbers({Table(2, 0)}) = {2}
  BY TableTyped
<1>4. e \in EditType /\ e.add = {Table(2, 0)} /\ e.del = {} /\ e.log = 0 /\ e.next = 3 /\ e.last = 1
  BY <1>2, <1>3, EditTyped
<1>5. m.records = <<e>> /\ m.synced = 1 /\ <<e>> \in Records /\ Len(<<e>>) = 1
  BY <1>2, <1>4 DEF Records
<1>6. m \in ManifestType
  <2>1. m \in [records : Records, synced : Nat]
    BY <1>2, <1>5
  <2> QED BY <1>5, <2>1 DEF ManifestType
<1>7. n \in {0, 1}
  BY DBAssumption
<1>8. {<<1, 0>>} \in SUBSET Entries
  BY DEF Entries
<1>9. ASSUME n = 0 PROVE DiskType /\ CurrentOK
  <2>1. current = 0 /\ tables = Empty /\ manifests = Empty
    BY <1>1, <1>9
  <2>2. DiskType
    BY <2>1, FilesTypedEmpty DEF DiskType, Init
  <2>3. CurrentOK
    BY <2>1 DEF CurrentOK
  <2> QED BY <2>2, <2>3
<1>10. ASSUME n = 1 PROVE DiskType /\ CurrentOK
  <2>1. current = 1 /\ tables = With(Empty, 2, {<<1, 0>>}) /\ manifests = With(Empty, 1, m)
    BY <1>1, <1>2, <1>10
  <2>2. FilesTyped(tables, SUBSET Entries) /\ DOMAIN tables = {2}
    <3>1. PICK x, T : x = {<<1, 0>>} /\ T = SUBSET Entries
      OBVIOUS
    <3>2. FilesTyped(Empty, T) /\ DOMAIN Empty = {} /\ x \in T /\ tables = With(Empty, 2, x)
      BY <1>8, <2>1, <3>1, FilesTypedEmpty
    <3>3. FilesTyped(tables, T) /\ DOMAIN tables = DOMAIN Empty \cup {2}
      BY <3>2 DEF With, FilesTyped
    <3> QED BY <3>1, <3>2, <3>3
  <2>3. FilesTyped(manifests, ManifestType) /\ DOMAIN manifests = {1} /\ manifests[1] = m
    <3>1. FilesTyped(Empty, ManifestType) /\ DOMAIN Empty = {}
      BY FilesTypedEmpty
    <3>2. FilesTyped(manifests, ManifestType) /\ DOMAIN manifests = DOMAIN Empty \cup {1}
          /\ manifests[1] = m
      BY <1>6, <2>1, <3>1 DEF With, FilesTyped
    <3> QED BY <3>1, <3>2
  <2>4. DiskType
    BY <2>1, <2>2, <2>3, FilesTypedEmpty DEF DiskType, Init
  <2>5. Ks(m) = {1}
    BY <1>5 DEF Ks
  <2>6. PICK v : v = Replay(<<e>>, 1)
    OBVIOUS
  <2>7. v.files = {Table(2, 0)} /\ v.log = 0 /\ v.next = 3
    BY <1>4, <2>6, ReplayOne
  <2>8. \A k \in Ks(m) : Replay(m.records, k) = v
    BY <1>5, <2>5, <2>6
  <2>9. CurrentOK
    <3>1. Numbers(v.files) \subseteq DOMAIN tables /\ 1 < v.next /\ v.log < v.next
          /\ (\A f \in v.files : f.number < v.next) /\ v.next <= v.next
      <4>1. Numbers(v.files) = {2}
        BY <1>3, <2>7
      <4>2. \A f \in v.files : f.number = 2
        BY <1>3, <2>7
      <4>3. Numbers(v.files) \subseteq DOMAIN tables
        BY <2>2, <4>1
      <4>4. v.next = 3 /\ v.log = 0
        BY <2>7
      <4>5. 1 < v.next /\ v.log < v.next /\ v.next <= v.next
        BY <4>4
      <4>6. \A f \in v.files : f.number < v.next
        BY <4>2, <4>4
      <4> QED BY <4>3, <4>5, <4>6
    <3>2. ManifestOK(1)
      BY <2>3, <2>8, <3>1 DEF ManifestOK
    <3> QED BY <2>1, <3>2 DEF CurrentOK
  <2> QED BY <2>4, <2>9
<1>11. DiskType /\ CurrentOK
  BY <1>7, <1>9, <1>10
<1>12. QueueType
  BY DEF Init, QueueType, CallType
<1>13. VsetType
  BY DEF Init, VsetType
<1>14. WorkType
  BY DEF Init, WorkType, Statuses, Opening_, BgType, Idle
<1>15. Bounded
  BY DEF Init, Bounded, Empty
<1>16. Quiet
  BY DEF Init, Quiet
<1>17. OpeningOK /\ OpenOK /\ BackgroundOK
  BY DEF Init, OpeningOK, OpenOK, BackgroundOK, Opening_
<1> QED BY <1>11, <1>12, <1>13, <1>14, <1>15, <1>16, <1>17 DEF Inv1, TypeInv, Struct

LEMMA StepIsSound == Inv1 /\ [Next]_vars => Inv1'
<1> SUFFICES ASSUME Inv1, [Next]_vars PROVE Inv1'
  OBVIOUS
<1>1. TypeInv'
  BY StaysTyped
<1>2. ASSUME UNCHANGED vars PROVE Struct'
  <2>1. UNCHANGED <<current, manifests, logs, tables, status, mem_, imm_, logfile_number_, log_number_,
                    next_file_number_, last_sequence_, manifest_file_number_, files_, pinned,
                    pending_outputs_, bg_error_, bg, compact, rec, writing>>
    BY <1>2 DEF vars, disk, queue, mems, vset, work
  <2>2. CurrentOK' /\ Quiet'
    BY <2>1 DEF Inv1, Struct, CurrentOK, ManifestOK, Quiet
  <2>3. OpeningOK'
    BY <2>1 DEF Inv1, Struct, OpeningOK, LastView
  <2>4. OpenOK'
    BY <2>1 DEF Inv1, Struct, OpenOK, LastView, Clean, Version, PinnedFiles
  <2>5. BackgroundOK'
    BY <2>1 DEF Inv1, Struct, BackgroundOK, Fresh
  <2> QED BY <2>2, <2>3, <2>4, <2>5 DEF Struct
<1>3. Struct'
  BY <1>2, LightSteps, SwitchKeeps, StartFlushKeeps, FlushBuiltKeeps, FlushFailsKeeps,
     StartCompactionKeeps, OpenOutputKeeps, MergeDoneKeeps, CompactionFailsKeeps, RecordKeeps,
     FlushInstalledKeeps, CompactionInstalledKeeps, CrashKeeps, GoneKeeps, NewDBKeeps,
     RecoverKeeps, RecoverLogKeeps, NewManifestKeeps, SetCurrentKeeps, OpenDoneKeeps
  DEF Next, Writing, Opening, Recovery, Background, Flushing, Compacting
<1> QED BY <1>1, <1>3 DEF Inv1

(***************************************************************************)
(* The numbers, the files and the MANIFESTs are in order at every step of  *)
(* a write, a flush, a compaction, a crash and an opening: whatever prefix *)
(* of the MANIFEST a crash leaves, the tables it names are there.          *)
(***************************************************************************)
THEOREM FilesAreInOrder == Spec => []Inv1
<1>1. Init => Inv1
  BY InitIsSound
<1>2. Inv1 /\ [Next]_vars => Inv1'
  BY StepIsSound
<1> QED BY <1>1, <1>2, PTL DEF Spec

(***************************************************************************)
(* DeleteObsoleteFiles never deletes a table of the current version, of a  *)
(* version that a reader holds, or that a compaction writes, for any       *)
(* number of writes, failures, crashes and readers.                        *)
(***************************************************************************)
THEOREM DeletionIsSafe == Spec => []NothingInUseIsDeleted
<1>1. Inv1 => NothingInUseIsDeleted
  BY DEF Inv1, Struct, OpenOK, BackgroundOK, NothingInUseIsDeleted
<1> QED BY <1>1, FilesAreInOrder, PTL

-----------------------------------------------------------------------------
(* Where an entry may be                                                   *)

(* e is in a table of fs; in log n; in a log from b on. *)
Held(e, fs) == \E f \in fs : e \in tables[f.number]
InLog(e, n) == \E i \in 1 .. Len(logs[n].records) : e \in logs[n].records[i].entries
Logged(e, b) == \E n \in DOMAIN logs : n >= b /\ InLog(e, n)
InImm(e) == imm_ # None /\ e \in imm_.entries

Unique(S) == \A d, e \in S : d[1] = e[1] => d = e

(***************************************************************************)
(* What a reader of the MANIFEST may find, and what an open database may   *)
(* still come to say in one.                                               *)
(***************************************************************************)
DiskEntries ==
    {e \in Entries : \E k \in CurrentKs : Held(e, View(k).files) \/ Logged(e, View(k).log)}
OpenEntries ==
    {e \in Entries : \/ Logged(e, 0) \/ Held(e, files_)
                     \/ \E k \in CurrentKs : Held(e, View(k).files)
                     \/ bg.edit # None /\ Held(e, bg.edit.add)}

SeqOnDisk ==
    /\ current = 0 => DOMAIN logs = {}
    /\ current # 0 =>
          /\ Unique(DiskEntries)
          /\ \A k \in CurrentKs :
                /\ View(k).next = 0 => View(k).files = {}
                /\ \A e \in Entries : Held(e, View(k).files) => e[1] <= View(k).last

SeqOpening ==
    /\ status = "recovering" =>
          /\ \A n \in rec.logs : n >= log_number_
          /\ \A e \in Entries : Held(e, rec.add) =>
                e[1] <= rec.max_sequence /\ Logged(e, log_number_)
          /\ \A e \in Entries : Held(e, files_) => e[1] <= last_sequence_
    /\ status \in {"manifest", "current"} =>
          /\ \A e \in Entries : Held(e, files_ \cup rec.add) => e[1] <= last_sequence_
          /\ Unique({e \in Entries : Held(e, files_ \cup rec.add)})

(* A group that is in the log and not yet committed. *)
Uncommitted(e) == writing # None /\ writing.result # "unlogged" /\ e \in writing.entries

SeqOpen ==
    status = "open" =>
       /\ Unique(OpenEntries)
       /\ \A e \in OpenEntries : e[1] <= last_sequence_ \/ Uncommitted(e)
       /\ writing # None =>
             /\ Unique(writing.entries)
             /\ \A e \in writing.entries :
                   last_sequence_ < e[1] /\ e[1] <= last_sequence_ + Cardinality(writing.entries)
       /\ \A e \in mem_ : InLog(e, logfile_number_)
       /\ \A e \in Entries : InImm(e) => Logged(e, log_number_)
       /\ \A e \in Entries : Held(e, files_) \/ InImm(e) => e[1] <= last_sequence_
       /\ \A k \in CurrentKs : View(k).last <= last_sequence_
       /\ bg.edit # None =>
             /\ \A e \in Entries : Held(e, bg.edit.add) => e[1] <= bg.edit.last
             /\ bg.edit.last <= last_sequence_
             /\ \A k \in CurrentKs : View(k).last <= bg.edit.last

SeqInv == SeqOnDisk /\ SeqOpening /\ SeqOpen

-----------------------------------------------------------------------------
(* Sequence numbers: steps of an open database                             *)

LEMMA UniqueWithin ==
    ASSUME NEW S, NEW T, Unique(S), T \subseteq S
    PROVE  Unique(T)
BY DEF Unique

(* A MANIFEST of an open database speaks of entries that are known. *)
LEMMA DiskWithinOpen ==
    ASSUME Inv1, status = "open"
    PROVE  DiskEntries \subseteq OpenEntries
<1>1. \A k \in CurrentKs : View(k).log \in Nat
  BY OpenFacts DEF CurrentKs, View
<1>2. \A n \in DOMAIN logs : n \in Nat
  BY OpenFacts
<1>3. \A e \in Entries : \A k \in CurrentKs : Logged(e, View(k).log) => Logged(e, 0)
  BY <1>1, <1>2 DEF Logged
<1> QED BY <1>3 DEF DiskEntries, OpenEntries

LEMMA DiskWithinOpenNext ==
    (Inv1 /\ status = "open" => DiskEntries \subseteq OpenEntries)'
<1>1. Inv1 /\ status = "open" => DiskEntries \subseteq OpenEntries
  BY DiskWithinOpen
<1> QED BY <1>1, PTL

(* It is enough to look at the open database then. *)
LEMMA SeqWhenOpen ==
    ASSUME Inv1', status' = "open", SeqOpen', current' # 0,
           \A k \in CurrentKs' :
                /\ View(k)'.next # 0
                /\ \A e \in Entries : (Held(e, View(k).files))' => e[1] <= View(k)'.last
    PROVE  SeqInv'
<1>3. DiskEntries' \subseteq OpenEntries'
  BY DiskWithinOpenNext
<1>4. Unique(OpenEntries')
  BY DEF SeqOpen, Unique
<1>5. Unique(DiskEntries')
  BY <1>3, <1>4, UniqueWithin
<1>6. SeqOnDisk'
  BY <1>5 DEF SeqOnDisk, Unique
<1> QED BY <1>6 DEF SeqInv, SeqOpening

-----------------------------------------------------------------------------
(* Tables that a step must leave alone: those of a version, of the         *)
(* MANIFEST and of an edit that stays.                                     *)
KnownTables ==
    Numbers(files_) \cup UNION {Numbers(View(k).files) : k \in CurrentKs}

LEMMA SameHeld ==
    ASSUME NEW fs, \A n \in Numbers(fs) : tables'[n] = tables[n], NEW e
    PROVE  (\E f \in fs : e \in tables'[f.number]) <=> Held(e, fs)
BY DEF Held, Numbers

LEMMA KnownHeld ==
    ASSUME UNCHANGED <<current, manifests>>, \A n \in KnownTables : tables'[n] = tables[n]
    PROVE  /\ CurrentKs' = CurrentKs
           /\ \A k \in CurrentKs : View(k)' = View(k)
           /\ \A k \in CurrentKs : \A e \in Entries :
                 (Held(e, View(k).files))' <=> Held(e, View(k).files)
<1>1. CurrentKs' = CurrentKs /\ \A k \in CurrentKs : View(k)' = View(k)
  BY DEF CurrentKs, View
<1>2. ASSUME NEW k \in CurrentKs, NEW e \in Entries
      PROVE  (Held(e, View(k).files))' <=> Held(e, View(k).files)
  <2>1. PICK fs : fs = View(k).files
    OBVIOUS
  <2>2. \A n \in Numbers(fs) : tables'[n] = tables[n]
    BY <2>1 DEF KnownTables
  <2>3. (\E f \in fs : e \in tables'[f.number]) <=> Held(e, fs)
    BY <2>2, SameHeld
  <2>4. View(k)'.files = fs
    BY <1>1, <2>1
  <2> QED BY <2>1, <2>3, <2>4 DEF Held
<1> QED BY <1>1, <1>2

(* What every open database says of its own MANIFEST. *)
LEMMA SeqViews ==
    ASSUME Inv1, SeqInv, status = "open"
    PROVE  /\ current # 0
           /\ \A k \in CurrentKs :
                /\ View(k).next # 0 /\ View(k).last \in Nat /\ View(k).log \in Nat
                /\ \A e \in Entries : Held(e, View(k).files) => e[1] <= View(k).last
<1>1. OpenOK /\ current # 0
  BY OpenFacts
<1>2. \A k \in CurrentKs : View(k).next # 0
  BY <1>1 DEF OpenOK, View, CurrentKs
<1>3. \A k \in CurrentKs : View(k).last \in Nat /\ View(k).log \in Nat
  BY OpenFacts DEF View, CurrentKs, ViewType
<1> QED BY <1>1, <1>2, <1>3 DEF SeqInv, SeqOnDisk

(***************************************************************************)
(* A step that changes no log, no memtable, no version and no table that   *)
(* is in use.                                                              *)
(***************************************************************************)
LEMMA SeqFrame ==
    ASSUME Inv1, Inv1', SeqInv, status = "open",
           UNCHANGED <<status, current, manifests, logs, mem_, imm_, logfile_number_,
                       log_number_, last_sequence_, files_, writing>>,
           bg'.edit = None \/ (bg'.edit = bg.edit /\ UNCHANGED tables),
           \A n \in KnownTables : tables'[n] = tables[n]
    PROVE  SeqInv'
<1>1. /\ CurrentKs' = CurrentKs
      /\ \A k \in CurrentKs : View(k)' = View(k)
      /\ \A k \in CurrentKs : \A e \in Entries :
            (Held(e, View(k).files))' <=> Held(e, View(k).files)
  BY KnownHeld
<1>2. \A e \in Entries : Held(e, files_)' <=> Held(e, files_)
  <2>1. \A n \in Numbers(files_) : tables'[n] = tables[n]
    BY DEF KnownTables
  <2> QED BY <2>1 DEF Held, Numbers
<1>3. ASSUME bg'.edit # None
      PROVE  bg'.edit = bg.edit /\ \A e \in Entries : (Held(e, bg.edit.add))' <=> Held(e, bg.edit.add)
  BY <1>3 DEF Held
<1>4. /\ \A e, n : InLog(e, n)' <=> InLog(e, n)
      /\ \A e, n : Logged(e, n)' <=> Logged(e, n)
      /\ \A e : InImm(e)' <=> InImm(e)
      /\ \A e : Uncommitted(e)' <=> Uncommitted(e)
  BY DEF InLog, Logged, InImm, Uncommitted
<1>5. OpenEntries' \subseteq OpenEntries
  BY <1>1, <1>2, <1>3, <1>4 DEF OpenEntries
<1>6. SeqOpen
  BY DEF SeqInv
<1>7. SeqOpen'
  <2>1. Unique(OpenEntries)'
    BY <1>5, <1>6 DEF SeqOpen, Unique
  <2>2. \A e \in OpenEntries' : e[1] <= last_sequence_ \/ Uncommitted(e)'
    BY <1>4, <1>5, <1>6 DEF SeqOpen
  <2>3. \A e \in mem_ : InLog(e, logfile_number_)'
    BY <1>4, <1>6 DEF SeqOpen
  <2>4. \A e \in Entries : InImm(e)' => Logged(e, log_number_)'
    BY <1>4, <1>6 DEF SeqOpen
  <2>5. \A e \in Entries : Held(e, files_)' \/ InImm(e)' => e[1] <= last_sequence_
    BY <1>2, <1>4, <1>6 DEF SeqOpen
  <2>6. \A k \in CurrentKs' : View(k)'.last <= last_sequence_
    BY <1>1, <1>6 DEF SeqOpen
  <2>7. ASSUME bg'.edit # None
        PROVE  /\ \A e \in Entries : (Held(e, bg.edit.add))' => e[1] <= bg'.edit.last
               /\ bg'.edit.last <= last_sequence_
               /\ \A k \in CurrentKs' : View(k)'.last <= bg'.edit.last
    BY <1>1, <1>3, <1>6, <2>7 DEF SeqOpen
  <2>8. writing # None =>
             /\ Unique(writing.entries)
             /\ \A e \in writing.entries :
                   last_sequence_ < e[1] /\ e[1] <= last_sequence_ + Cardinality(writing.entries)
    BY <1>6 DEF SeqOpen
  <2> QED BY <2>1, <2>2, <2>3, <2>4, <2>5, <2>6, <2>7, <2>8 DEF SeqOpen
<1>8. \A k \in CurrentKs' :
         /\ View(k)'.next # 0
         /\ \A e \in Entries : (Held(e, View(k).files))' => e[1] <= View(k)'.last
  BY <1>1, SeqViews
<1> QED BY <1>7, <1>8, SeqViews, SeqWhenOpen

(* A number that is not given out yet, or is kept for an output, is in no  *)
(* version.                                                                *)
LEMMA FreshIsUnknown ==
    ASSUME NEW n, Fresh(n)
    PROVE  n \notin KnownTables
BY DEF Fresh, KnownTables, CurrentKs, View

LEMMA NextIsUnknown ==
    ASSUME Inv1, status = "open"
    PROVE  next_file_number_ \notin KnownTables
<1>1. \A f \in files_ : f.number < next_file_number_ /\ f.number \in Nat
  BY OpenFacts DEF OpenOK
<1>2. ASSUME NEW k \in CurrentKs PROVE next_file_number_ \notin Numbers(View(k).files)
  <2>1. PICK v : v = View(k)
    OBVIOUS
  <2>2. v.next # 0 /\ v.next <= next_file_number_ /\ v.next \in Nat
    BY <2>1, OpenFacts DEF OpenOK, CurrentKs, View
  <2>3. \A f \in v.files : f.number < v.next /\ f.number \in Nat
    BY <2>1, <2>2, OpenFacts DEF ManifestOK, CurrentKs, View
  <2> QED BY <2>1, <2>2, <2>3, OpenFacts DEF Numbers
<1> QED BY <1>1, <1>2, OpenFacts DEF KnownTables, Numbers

LEMMA SeqLight ==
    ASSUME Inv1, Inv1', SeqInv,
           \/ WriteFails \/ ForceReturns \/ ForceDone \/ Ref \/ Unref \/ ShutDown \/ NothingToDo
           \/ StartFlush \/ FlushNotInstalled \/ StartCompaction \/ CompactionFails
           \/ \E w \in Writers : \E k \in Kinds[w] : Enqueue(w, k)
    PROVE  SeqInv'
<1>1. status = "open"
  BY OnlyWhenOpen DEF WriteFails, ForceReturns, ForceDone, AtFront, Ref, Unref, ShutDown, NothingToDo, Running,
     StartFlush, FlushNotInstalled, StartCompaction, CompactionFails, Enqueue
<1>2. UNCHANGED <<status, current, manifests, logs, tables, mem_, imm_, logfile_number_,
                  log_number_, last_sequence_, files_, writing>>
  BY DEF WriteFails, ForceReturns, ForceDone, AtFront, Ref, Unref, ShutDown, NothingToDo, Running,
     StartFlush, FlushNotInstalled, StartCompaction, CompactionFails, Enqueue, disk, queue, mems, vset
<1>3. bg'.edit = None \/ bg'.edit = bg.edit
  <2>1. ASSUME bg' = Idle \/ bg' = [pc |-> "merge", number |-> 0, edit |-> None]
        PROVE  bg'.edit = None
    BY <2>1 DEF Idle
  <2>2. CASE FlushNotInstalled
    BY <2>1, <2>2 DEF FlushNotInstalled, AfterFlush, EndCall
  <2>3. CASE StartFlush
    BY <2>3 DEF StartFlush
  <2>4. CASE NothingToDo \/ StartCompaction \/ CompactionFails
    BY <2>1, <2>4 DEF NothingToDo, StartCompaction, CompactionFails, EndCall
  <2>5. ASSUME WriteFails \/ ForceReturns \/ ForceDone \/ Ref \/ Unref \/ ShutDown
               \/ \E w \in Writers : \E k \in Kinds[w] : Enqueue(w, k)
        PROVE  bg' = bg
    BY <2>5 DEF WriteFails, ForceReturns, ForceDone, Ref, Unref, ShutDown, Enqueue, work
  <2> QED BY <2>2, <2>3, <2>4, <2>5
<1> QED BY <1>1, <1>2, <1>3, SeqFrame

LEMMA SeqFlushFails ==
    ASSUME Inv1, Inv1', SeqInv, FlushFails
    PROVE  SeqInv'
<1>1. status = "open" /\ bg.pc = "build" /\ Fresh(bg.number) /\ bg.number \in Nat
  <2>1. bg.pc = "build" /\ status = "open"
    BY OnlyWhenOpen DEF FlushFails
  <2> QED BY <2>1, OpenFacts DEF BackgroundOK
<1>2. UNCHANGED <<status, current, manifests, logs, mem_, imm_, logfile_number_,
                  log_number_, last_sequence_, files_, writing>>
  BY DEF FlushFails, queue, mems, vset
<1>4. bg'.edit = None
  <2>1. bg' = Idle \/ bg' = [pc |-> "merge", number |-> 0, edit |-> None]
    BY DEF FlushFails, AfterFlush, EndCall
  <2> QED BY <2>1 DEF Idle
<1>3. \A n \in KnownTables : tables'[n] = tables[n]
  <2>1. bg.number \notin KnownTables
    BY <1>1, FreshIsUnknown
  <2>2. KnownTables \subseteq DOMAIN tables
    BY <1>1, OpenFacts DEF KnownTables, OpenOK, ManifestOK, View, CurrentKs
  <2>3. tables' = tables \/ tables' = With(tables, bg.number, imm_.entries)
    BY DEF FlushFails
  <2> QED BY <2>1, <2>2, <2>3 DEF With
<1> QED BY <1>1, <1>2, <1>3, <1>4, SeqFrame

LEMMA KnownOnDisk ==
    ASSUME Inv1, status = "open"
    PROVE  KnownTables \subseteq DOMAIN tables
BY OpenFacts DEF KnownTables, OpenOK, ManifestOK, View, CurrentKs

LEMMA SeqOpenOutput ==
    ASSUME Inv1, Inv1', SeqInv, OpenCompactionOutputFile
    PROVE  SeqInv'
<1>1. status = "open" /\ bg.edit = None
  <2>1. bg.pc = "merge" /\ status = "open"
    BY OnlyWhenOpen DEF OpenCompactionOutputFile
  <2> QED BY <2>1, OpenFacts DEF BackgroundOK
<1>2. UNCHANGED <<status, current, manifests, logs, mem_, imm_, logfile_number_,
                  log_number_, last_sequence_, files_, writing, bg>>
  BY DEF OpenCompactionOutputFile, queue, mems
<1>3. tables' = With(tables, next_file_number_, {})
  BY DEF OpenCompactionOutputFile
<1>4. \A n \in KnownTables : tables'[n] = tables[n]
  BY <1>1, <1>3, NextIsUnknown, KnownOnDisk DEF With
<1> QED BY <1>1, <1>2, <1>4, SeqFrame

-----------------------------------------------------------------------------
(* Sequence numbers: the writers                                           *)

LEMMA SameVersions ==
    ASSUME UNCHANGED <<current, manifests, tables, files_, bg>>
    PROVE  /\ CurrentKs' = CurrentKs
           /\ \A k \in CurrentKs : View(k)' = View(k)
           /\ \A k \in CurrentKs : \A e \in Entries :
                 (Held(e, View(k).files))' <=> Held(e, View(k).files)
           /\ \A e \in Entries : Held(e, files_)' <=> Held(e, files_)
           /\ bg.edit # None =>
                 \A e \in Entries : (Held(e, bg.edit.add))' <=> Held(e, bg.edit.add)
<1>1. \A n \in KnownTables : tables'[n] = tables[n]
  OBVIOUS
<1>2. /\ CurrentKs' = CurrentKs
      /\ \A k \in CurrentKs : View(k)' = View(k)
      /\ \A k \in CurrentKs : \A e \in Entries :
            (Held(e, View(k).files))' <=> Held(e, View(k).files)
  BY <1>1, KnownHeld
<1> QED BY <1>2 DEF Held

(* The parts of SeqOpen that speak of versions and edits. *)
SeqVersions(last) ==
    /\ \A e \in Entries : Held(e, files_) => e[1] <= last
    /\ \A k \in CurrentKs : View(k).last <= last
    /\ bg.edit # None =>
          /\ \A e \in Entries : Held(e, bg.edit.add) => e[1] <= bg.edit.last
          /\ bg.edit.last <= last
          /\ \A k \in CurrentKs : View(k).last <= bg.edit.last

LEMMA SeqVersionsKept ==
    ASSUME Inv1, Inv1', SeqInv, status = "open",
           UNCHANGED <<status, current, manifests, tables, files_, bg>>,
           last_sequence_ <= last_sequence_'
    PROVE  /\ SeqVersions(last_sequence_)'
           /\ current' # 0
           /\ \A k \in CurrentKs' :
                 /\ View(k)'.next # 0
                 /\ \A e \in Entries : (Held(e, View(k).files))' => e[1] <= View(k)'.last
<1>1. /\ CurrentKs' = CurrentKs
      /\ \A k \in CurrentKs : View(k)' = View(k)
      /\ \A k \in CurrentKs : \A e \in Entries :
            (Held(e, View(k).files))' <=> Held(e, View(k).files)
      /\ \A e \in Entries : Held(e, files_)' <=> Held(e, files_)
      /\ bg.edit # None =>
            \A e \in Entries : (Held(e, bg.edit.add))' <=> Held(e, bg.edit.add)
  BY SameVersions
<1>2. SeqOpen
  BY DEF SeqInv
<1>3. last_sequence_ \in Nat /\ last_sequence_' \in Nat
  BY OpenFacts DEF Inv1, TypeInv, VsetType
<1>4. \A e \in Entries : e[1] \in Nat
  BY DEF Entries
<1>5. \A k \in CurrentKs : View(k).last \in Nat
  BY SeqViews
<1>6. bg.edit # None => bg.edit.last \in Nat
  BY OpenFacts DEF EditType
<1>7. \A e \in Entries : Held(e, files_)' => e[1] <= last_sequence_'
  BY <1>1, <1>2, <1>3, <1>4 DEF SeqOpen
<1>8. \A k \in CurrentKs' : View(k)'.last <= last_sequence_'
  BY <1>1, <1>2, <1>3, <1>5 DEF SeqOpen
<1>9. bg'.edit # None =>
          /\ \A e \in Entries : (Held(e, bg.edit.add))' => e[1] <= bg'.edit.last
          /\ bg'.edit.last <= last_sequence_'
          /\ \A k \in CurrentKs' : View(k)'.last <= bg'.edit.last
  BY <1>1, <1>2, <1>3, <1>6 DEF SeqOpen
<1>10. SeqVersions(last_sequence_)'
  BY <1>7, <1>8, <1>9 DEF SeqVersions
<1> QED BY <1>1, <1>10, SeqViews

(***************************************************************************)
(* BuildBatchGroup numbers the batches of a group one after the other.     *)
(***************************************************************************)
LEMMA GroupNumbers ==
    ASSUME NEW n \in Nat, NEW s \in Nat, NEW E,
           E = {<<s + Cardinality(Batches(i)), writers_[i]>> : i \in Batches(n)}
    PROVE  Unique(E) /\ \A e \in E : s < e[1] /\ e[1] <= s + Cardinality(E)
<1>1. Cardinality(E) = Cardinality(Batches(n)) /\ Cardinality(Batches(n)) \in Nat
  BY GroupEntries, BatchesCounted
<1>2. \A i \in Batches(n) : /\ i \in Nat /\ i \in Batches(i)
                            /\ Cardinality(Batches(i)) \in 1 .. Cardinality(Batches(n))
  BY BatchesWithin
<1>3. ASSUME NEW i \in Batches(n), NEW j \in Batches(n),
             Cardinality(Batches(i)) = Cardinality(Batches(j))
      PROVE  i = j
  <2>1. ~ (i < j) /\ ~ (j < i)
    <3>1. i < j => Cardinality(Batches(i)) < Cardinality(Batches(j))
      BY <1>2, BatchesGrow
    <3>2. j < i => Cardinality(Batches(j)) < Cardinality(Batches(i))
      BY <1>2, BatchesGrow
    <3> QED BY <1>1, <1>2, <1>3, <3>1, <3>2
  <2> QED BY <1>2, <2>1
<1>4. ASSUME NEW d \in E, NEW e \in E, d[1] = e[1] PROVE d = e
  <2>1. PICK i \in Batches(n) : d = <<s + Cardinality(Batches(i)), writers_[i]>>
    OBVIOUS
  <2>2. PICK j \in Batches(n) : e = <<s + Cardinality(Batches(j)), writers_[j]>>
    OBVIOUS
  <2>3. Cardinality(Batches(i)) = Cardinality(Batches(j))
    BY <1>1, <1>2, <1>4, <2>1, <2>2
  <2> QED BY <1>3, <2>1, <2>2, <2>3
<1>5. ASSUME NEW e \in E PROVE s < e[1] /\ e[1] <= s + Cardinality(E)
  <2>1. PICK i \in Batches(n) : e = <<s + Cardinality(Batches(i)), writers_[i]>>
    OBVIOUS
  <2> QED BY <1>1, <1>2, <2>1
<1> QED BY <1>4, <1>5 DEF Unique

LEMMA SeqBeginGroup ==
    ASSUME Inv1, Inv1', SeqInv, BeginGroup
    PROVE  SeqInv'
<1>1. /\ status = "open" /\ writing = None /\ writers_ # <<>>
      /\ UNCHANGED <<status, current, manifests, logs, tables, mem_, imm_, logfile_number_,
                     log_number_, last_sequence_, files_, bg>>
      /\ writing'.result = "unlogged"
  BY DEF BeginGroup, AtFront, disk, mems, vset, work
<1>2. PICK n, E : /\ n = GroupSize
                  /\ E = {<<last_sequence_ + Cardinality(Batches(i)), writers_[i]>> : i \in Batches(n)}
  OBVIOUS
<1>3. writing'.entries = E
  BY <1>2 DEF BeginGroup
<1>4. n \in Nat
  <2>1. writers_ \in Seq(Writers)
    BY DEF Inv1, TypeInv, QueueType
  <2> QED BY <1>1, <1>2, <2>1, GroupSizeOK
<1>5. last_sequence_ \in Nat
  BY <1>1, OpenFacts
<1>6. Unique(E) /\ \A e \in E : last_sequence_ < e[1] /\ e[1] <= last_sequence_ + Cardinality(E)
  BY <1>2, <1>4, <1>5, GroupNumbers
<1>7. /\ SeqVersions(last_sequence_)' /\ current' # 0
      /\ \A k \in CurrentKs' :
            /\ View(k)'.next # 0
            /\ \A e \in Entries : (Held(e, View(k).files))' => e[1] <= View(k)'.last
  BY <1>1, <1>5, SeqVersionsKept
<1>8. SeqOpen
  BY DEF SeqInv
<1>9. /\ \A e, m : InLog(e, m)' <=> InLog(e, m)
      /\ \A e, m : Logged(e, m)' <=> Logged(e, m)
      /\ \A e : InImm(e)' <=> InImm(e)
  BY <1>1 DEF InLog, Logged, InImm
<1>10. OpenEntries' \subseteq OpenEntries
  <2>1. /\ CurrentKs' = CurrentKs
        /\ \A k \in CurrentKs : \A e \in Entries :
              (Held(e, View(k).files))' <=> Held(e, View(k).files)
        /\ \A e \in Entries : Held(e, files_)' <=> Held(e, files_)
        /\ bg.edit # None =>
              \A e \in Entries : (Held(e, bg.edit.add))' <=> Held(e, bg.edit.add)
    BY <1>1, SameVersions
  <2> QED BY <1>1, <1>9, <2>1 DEF OpenEntries
<1>11. \A e \in OpenEntries' : e[1] <= last_sequence_
  BY <1>1, <1>8, <1>10 DEF SeqOpen, Uncommitted
<1>12. SeqOpen'
  <2>1. Unique(OpenEntries)'
    BY <1>1, <1>8, <1>10 DEF SeqOpen, Unique
  <2>2. \A e \in mem_' : InLog(e, logfile_number_)'
    BY <1>1, <1>8, <1>9 DEF SeqOpen
  <2>3. \A e \in Entries : InImm(e)' => Logged(e, log_number_)' /\ e[1] <= last_sequence_
    BY <1>1, <1>8, <1>9 DEF SeqOpen
  <2>4. writing' # None =>
             /\ Unique(writing'.entries)
             /\ \A e \in writing'.entries :
                   last_sequence_ < e[1] /\ e[1] <= last_sequence_ + Cardinality(writing'.entries)
    BY <1>3, <1>6
  <2> QED BY <1>1, <1>7, <1>11, <2>1, <2>2, <2>3, <2>4 DEF SeqOpen, SeqVersions, Unique
<1> QED BY <1>1, <1>7, <1>12, SeqWhenOpen

(* AddRecord: the group, or a part of it, is in the log now. *)
LEMMA LogGroupEffect ==
    ASSUME Inv1, LogGroup
    PROVE  /\ status = "open" /\ writing # None /\ writing.result = "unlogged"
           /\ writing.entries \in SUBSET Entries /\ logfile_number_ \in DOMAIN logs
           /\ DOMAIN logs' = DOMAIN logs
           /\ \A n \in DOMAIN logs : n # logfile_number_ => logs'[n] = logs[n]
           /\ \A e : InLog(e, logfile_number_)' <=>
                        InLog(e, logfile_number_) \/ e \in writing.entries
           /\ writing' # None
           /\ writing'.entries = writing.entries /\ writing'.result # "unlogged"
           /\ mem_' = mem_ \/ mem_' = mem_ \cup writing.entries
           /\ UNCHANGED <<status, current, manifests, tables, imm_, logfile_number_,
                          log_number_, last_sequence_, files_, bg>>
<1>1. status = "open" /\ writing # None /\ writing.result = "unlogged"
  BY OnlyWhenOpen DEF LogGroup
<1>2. writing \in WritingType /\ writing.entries \in SUBSET Entries
  BY <1>1 DEF Inv1, TypeInv, QueueType, WritingType
<1>3. logfile_number_ \in DOMAIN logs /\ logs[logfile_number_] \in LogType
      /\ FilesTyped(logs, LogType)
  BY <1>1, OpenFacts DEF OpenOK, Inv1, TypeInv, DiskType, FilesTyped
<1>4. PICK n, E, log : n = logfile_number_ /\ E = writing.entries /\ log = logs[n]
  OBVIOUS
<1>5. PICK ok \in BOOLEAN, s \in BOOLEAN :
         logs' = [logs EXCEPT ![n] = IF s THEN Synced(Append1(log, ok)) ELSE Append1(log, ok)]
  BY <1>4 DEF LogGroup
<1>6. PICK q : q = [log EXCEPT !.records = Append(@, [entries |-> E, ok |-> ok])]
  OBVIOUS
<1>7. q = Append1(log, ok)
  BY <1>4, <1>6 DEF Append1
<1>8. /\ q \in LogType /\ Synced(q) \in LogType
      /\ q.records = Append(log.records, [entries |-> E, ok |-> ok])
      /\ Synced(q).records = Append(log.records, [entries |-> E, ok |-> ok])
  <2>1. log \in LogType /\ E \in SUBSET Entries
    BY <1>2, <1>3, <1>4
  <2> QED BY <1>6, <2>1, AppendLog, ZenonT(30)
<1>9. PICK g : g = IF s THEN Synced(q) ELSE q
  OBVIOUS
<1>10. g \in LogType /\ g.records = Append(log.records, [entries |-> E, ok |-> ok])
  BY <1>8, <1>9
<1>11. /\ DOMAIN logs' = DOMAIN logs /\ logs'[n] = g
       /\ \A x \in DOMAIN logs : x # n => logs'[x] = logs[x]
  <2>1. logs' = [logs EXCEPT ![n] = g]
    BY <1>5, <1>7, <1>9
  <2> QED BY <1>3, <1>4, <2>1
<1>12. ASSUME NEW e PROVE InLog(e, n)' <=> InLog(e, n) \/ e \in E
  <2>1. log.records \in LogRecords /\ Len(log.records) \in Nat
    BY <1>3, <1>4 DEF LogType, LogRecords
  <2>2. /\ Len(g.records) = Len(log.records) + 1
        /\ \A i \in 1 .. Len(log.records) : g.records[i] = log.records[i]
        /\ g.records[Len(log.records) + 1] = [entries |-> E, ok |-> ok]
    BY <1>10, <2>1 DEF LogRecords
  <2>3. g.records[Len(log.records) + 1].entries = E
    BY <2>2
  <2>4. InLog(e, n) <=> \E i \in 1 .. Len(log.records) : e \in log.records[i].entries
    BY <1>4 DEF InLog
  <2>5. InLog(e, n)' <=> \E i \in 1 .. Len(g.records) : e \in g.records[i].entries
    BY <1>11 DEF InLog
  <2> QED BY <2>1, <2>2, <2>3, <2>4, <2>5, SMTT(30)
<1>13. /\ UNCHANGED <<status, current, manifests, tables, imm_, logfile_number_,
                      log_number_, last_sequence_, files_, bg>>
       /\ mem_' = mem_ \/ mem_' = mem_ \cup writing.entries
  BY DEF LogGroup, vset, work
<1>14. writing' # None /\ writing'.entries = writing.entries /\ writing'.result # "unlogged"
  <2>1. PICK r \in {"ok", "failed", "sync error"} : writing' = [writing EXCEPT !.result = r]
    BY DEF LogGroup
  <2> QED BY <1>2, <2>1 DEF WritingType, None
<1>15. \A e : InLog(e, logfile_number_)' <=> InLog(e, n)'
  BY <1>4, <1>13
<1> QED BY <1>1, <1>2, <1>3, <1>4, <1>11, <1>12, <1>13, <1>14, <1>15

LEMMA SeqLogGroup ==
    ASSUME Inv1, Inv1', SeqInv, LogGroup
    PROVE  SeqInv'
<1>1. /\ status = "open" /\ writing # None /\ writing.result = "unlogged"
      /\ writing.entries \in SUBSET Entries /\ logfile_number_ \in DOMAIN logs
      /\ DOMAIN logs' = DOMAIN logs
      /\ \A n \in DOMAIN logs : n # logfile_number_ => logs'[n] = logs[n]
      /\ \A e : InLog(e, logfile_number_)' <=>
                   InLog(e, logfile_number_) \/ e \in writing.entries
      /\ writing' # None
      /\ writing'.entries = writing.entries /\ writing'.result # "unlogged"
      /\ mem_' = mem_ \/ mem_' = mem_ \cup writing.entries
      /\ UNCHANGED <<status, current, manifests, tables, imm_, logfile_number_,
                     log_number_, last_sequence_, files_, bg>>
  BY LogGroupEffect
<1>2. SeqOpen
  BY DEF SeqInv
<1>3. /\ last_sequence_ \in Nat /\ \A e \in Entries : e[1] \in Nat
  BY <1>1, OpenFacts DEF Entries
<1>4. /\ SeqVersions(last_sequence_)' /\ current' # 0
      /\ \A k \in CurrentKs' :
            /\ View(k)'.next # 0
            /\ \A e \in Entries : (Held(e, View(k).files))' => e[1] <= View(k)'.last
  BY <1>1, <1>3, SeqVersionsKept
<1>5. \A e : \A n \in DOMAIN logs :
         /\ InLog(e, n) => InLog(e, n)'
         /\ InLog(e, n)' => InLog(e, n) \/ e \in writing.entries
  <2>1. ASSUME NEW e, NEW n \in DOMAIN logs
        PROVE  /\ InLog(e, n) => InLog(e, n)'
               /\ InLog(e, n)' => InLog(e, n) \/ e \in writing.entries
    <3>1. CASE n = logfile_number_
      <4>1. InLog(e, n)' <=> InLog(e, logfile_number_)'
        BY <1>1, <3>1
      <4> QED BY <1>1, <3>1, <4>1
    <3>2. CASE n # logfile_number_
      BY <1>1, <3>2 DEF InLog
    <3> QED BY <3>1, <3>2
  <2> QED BY <2>1
<1>6. \A e, b : /\ Logged(e, b) => Logged(e, b)'
                /\ Logged(e, b)' => Logged(e, b) \/ e \in writing.entries
  BY <1>1, <1>5 DEF Logged
<1>7. ASSUME NEW e \in OpenEntries' PROVE e \in OpenEntries \/ e \in writing.entries
  <2>1. /\ CurrentKs' = CurrentKs
        /\ \A k \in CurrentKs : \A d \in Entries :
              (Held(d, View(k).files))' <=> Held(d, View(k).files)
        /\ \A d \in Entries : Held(d, files_)' <=> Held(d, files_)
        /\ bg.edit # None =>
              \A d \in Entries : (Held(d, bg.edit.add))' <=> Held(d, bg.edit.add)
    BY <1>1, SameVersions
  <2>2. /\ e \in Entries
        /\ \/ Logged(e, 0)' \/ Held(e, files_)'
           \/ \E k \in CurrentKs' : (Held(e, View(k).files))'
           \/ bg'.edit # None /\ (Held(e, bg.edit.add))'
    BY <1>7 DEF OpenEntries
  <2> QED BY <1>1, <1>6, <2>1, <2>2 DEF OpenEntries
<1>8. \A e \in OpenEntries : e[1] <= last_sequence_ /\ e \in Entries
  BY <1>1, <1>2 DEF SeqOpen, Uncommitted, OpenEntries
<1>9. /\ Unique(writing.entries)
      /\ \A e \in writing.entries :
            last_sequence_ < e[1] /\ e[1] <= last_sequence_ + Cardinality(writing.entries)
  BY <1>1, <1>2 DEF SeqOpen
<1>10. SeqOpen'
  <2>1. Unique(OpenEntries')
    <3>1. Unique(OpenEntries)
      BY <1>1, <1>2 DEF SeqOpen
    <3>2. ASSUME NEW d \in OpenEntries', NEW e \in OpenEntries', d[1] = e[1] PROVE d = e
      <4>1. CASE d \in OpenEntries /\ e \in OpenEntries
        BY <3>1, <3>2, <4>1 DEF Unique
      <4>2. CASE d \in writing.entries /\ e \in writing.entries
        BY <1>9, <3>2, <4>2 DEF Unique
      <4>3. ~ (d \in OpenEntries /\ e \in writing.entries) /\ ~ (e \in OpenEntries /\ d \in writing.entries)
        BY <1>1, <1>3, <1>8, <1>9, <3>2
      <4> QED BY <1>7, <4>1, <4>2, <4>3
    <3> QED BY <3>2 DEF Unique
  <2>2. \A e \in OpenEntries' : e[1] <= last_sequence_' \/ Uncommitted(e)'
    <3>1. \A e \in writing.entries : Uncommitted(e)'
      BY <1>1 DEF Uncommitted
    <3> QED BY <1>1, <1>7, <1>8, <3>1
  <2>3. \A e \in mem_' : InLog(e, logfile_number_)'
    BY <1>1, <1>2 DEF SeqOpen
  <2>4. \A e \in Entries : InImm(e)' => Logged(e, log_number_)' /\ e[1] <= last_sequence_'
    <3>1. \A e \in Entries : InImm(e)' => InImm(e)
      BY <1>1 DEF InImm
    <3>2. \A e \in Entries : InImm(e) => Logged(e, log_number_) /\ e[1] <= last_sequence_
      BY <1>1, <1>2 DEF SeqOpen
    <3>3. PICK b : b = log_number_
      OBVIOUS
    <3>4. \A e \in Entries : Logged(e, b)' <=> Logged(e, log_number_)'
      BY <1>1, <3>3
    <3> QED BY <1>1, <1>6, <3>1, <3>2, <3>3, <3>4
  <2>5. writing' # None =>
             /\ Unique(writing'.entries)
             /\ \A e \in writing'.entries :
                   last_sequence_' < e[1] /\ e[1] <= last_sequence_' + Cardinality(writing'.entries)
    BY <1>1, <1>9
  <2> QED BY <1>4, <2>1, <2>2, <2>3, <2>4, <2>5 DEF SeqOpen, SeqVersions, Unique
<1> QED BY <1>1, <1>4, <1>10, SeqWhenOpen

LEMMA SameOpenEntries ==
    ASSUME UNCHANGED <<current, manifests, tables, files_, bg>>,
           \A e : Logged(e, 0)' => Logged(e, 0)
    PROVE  OpenEntries' \subseteq OpenEntries
<1>1. /\ CurrentKs' = CurrentKs
      /\ \A k \in CurrentKs : \A d \in Entries :
            (Held(d, View(k).files))' <=> Held(d, View(k).files)
      /\ \A d \in Entries : Held(d, files_)' <=> Held(d, files_)
      /\ bg.edit # None =>
            \A d \in Entries : (Held(d, bg.edit.add))' <=> Held(d, bg.edit.add)
  BY SameVersions
<1>2. ASSUME NEW e \in OpenEntries' PROVE e \in OpenEntries
  <2>2. /\ e \in Entries
        /\ \/ Logged(e, 0)' \/ Held(e, files_)'
           \/ \E k \in CurrentKs' : (Held(e, View(k).files))'
           \/ bg'.edit # None /\ (Held(e, bg.edit.add))'
    BY <1>2 DEF OpenEntries
  <2> QED BY <1>1, <2>2 DEF OpenEntries
<1> QED BY <1>2

LEMMA SeqFinishGroup ==
    ASSUME Inv1, Inv1', SeqInv, FinishGroup
    PROVE  SeqInv'
<1>1. /\ status = "open" /\ writing # None /\ writing' = None
      /\ UNCHANGED <<status, current, manifests, logs, tables, mem_, imm_, logfile_number_,
                     log_number_, files_, bg>>
      /\ last_sequence_' = last_sequence_ + Cardinality(writing.entries)
  BY OnlyWhenOpen DEF FinishGroup, disk, mems, SequenceAfter
<1>2. SeqOpen
  BY DEF SeqInv
<1>3. /\ last_sequence_ \in Nat /\ last_sequence_' \in Nat /\ \A e \in Entries : e[1] \in Nat
      /\ last_sequence_ <= last_sequence_' /\ Cardinality(writing.entries) \in Nat
  <2>1. IsFiniteSet(writing.entries)
    BY <1>1 DEF Inv1, TypeInv, QueueType
  <2>2. Cardinality(writing.entries) \in Nat
    BY <2>1, FS_CardinalityType
  <2> QED BY <1>1, <2>2, OpenFacts DEF Entries
<1>4. /\ SeqVersions(last_sequence_)' /\ current' # 0
      /\ \A k \in CurrentKs' :
            /\ View(k)'.next # 0
            /\ \A e \in Entries : (Held(e, View(k).files))' => e[1] <= View(k)'.last
  BY <1>1, <1>3, SeqVersionsKept
<1>5. /\ \A e, m : InLog(e, m)' <=> InLog(e, m)
      /\ \A e, m : Logged(e, m)' <=> Logged(e, m)
      /\ \A e : InImm(e)' <=> InImm(e)
  BY <1>1 DEF InLog, Logged, InImm
<1>6. OpenEntries' \subseteq OpenEntries
  BY <1>1, <1>5, SameOpenEntries
<1>7. SeqOpen'
  <2>1. Unique(OpenEntries')
    BY <1>1, <1>2, <1>6 DEF SeqOpen, Unique
  <2>2. \A e \in OpenEntries : e[1] <= last_sequence_'
    <3>1. ASSUME NEW e \in OpenEntries PROVE e[1] <= last_sequence_'
      <4>1. e \in Entries /\ e[1] \in Nat
        BY <1>3 DEF OpenEntries
      <4>2. e[1] <= last_sequence_ \/ e \in writing.entries
        BY <1>1, <1>2 DEF SeqOpen, Uncommitted
      <4>3. e \in writing.entries => e[1] <= last_sequence_ + Cardinality(writing.entries)
        BY <1>1, <1>2 DEF SeqOpen
      <4> QED BY <1>1, <1>3, <4>1, <4>2, <4>3
    <3> QED BY <3>1
  <2>3. \A e \in mem_' : InLog(e, logfile_number_)'
    BY <1>1, <1>2, <1>5 DEF SeqOpen
  <2>4. \A e \in Entries : InImm(e)' => Logged(e, log_number_)' /\ e[1] <= last_sequence_'
    <3>1. \A e \in Entries : InImm(e)' => Logged(e, log_number_)' /\ e[1] <= last_sequence_
      BY <1>1, <1>2, <1>5 DEF SeqOpen
    <3> QED BY <1>3, <3>1
  <2> QED BY <1>1, <1>4, <1>6, <2>1, <2>2, <2>3, <2>4 DEF SeqOpen, SeqVersions, Unique
<1> QED BY <1>1, <1>4, <1>7, SeqWhenOpen

(* MakeRoomForWrite: the new log is empty; the other logs are as before. *)
LEMMA SwitchEffect ==
    ASSUME Inv1, SwitchMemTable
    PROVE  /\ status = "open" /\ writing = None /\ imm_ = None
           /\ imm_' = [entries |-> mem_] /\ mem_' = {}
           /\ next_file_number_ \notin DOMAIN logs
           /\ logfile_number_' = next_file_number_
           /\ DOMAIN logs' = DOMAIN logs \cup {next_file_number_}
           /\ \A n \in DOMAIN logs : logs'[n] = logs[n]
           /\ logs'[next_file_number_] = [records |-> <<>>, synced |-> 0]
           /\ UNCHANGED <<status, current, manifests, tables, writing, log_number_,
                          last_sequence_, files_, bg>>
           /\ \A e, n : InLog(e, n)' /\ n \in DOMAIN logs' => n \in DOMAIN logs /\ InLog(e, n)
           /\ \A e, b : Logged(e, b)' <=> Logged(e, b)
<1>1. /\ status = "open" /\ writing = None /\ imm_ = None
      /\ imm_' = [entries |-> mem_] /\ mem_' = {}
      /\ logs' = With(logs, next_file_number_, [records |-> <<>>, synced |-> 0])
      /\ logfile_number_' = next_file_number_
      /\ UNCHANGED <<status, current, manifests, tables, writing, log_number_,
                     last_sequence_, files_, bg>>
  BY DEF SwitchMemTable, AtFront, MustSwitch
<1>2. next_file_number_ \notin DOMAIN logs
  BY <1>1, OpenFacts DEF OpenOK
<1>3. /\ DOMAIN logs' = DOMAIN logs \cup {next_file_number_}
      /\ \A n \in DOMAIN logs : logs'[n] = logs[n]
      /\ logs'[next_file_number_] = [records |-> <<>>, synced |-> 0]
  BY <1>1, <1>2 DEF With
<1>4. \A n \in DOMAIN logs : \A e : InLog(e, n)' <=> InLog(e, n)
  BY <1>3 DEF InLog
<1>5. ASSUME NEW n, n = next_file_number_, NEW e PROVE ~InLog(e, n)'
  <2>1. Len(logs'[n].records) = 0
    BY <1>3, <1>5
  <2> QED BY <2>1 DEF InLog
<1>6. \A e, b : Logged(e, b)' <=> Logged(e, b)
  BY <1>3, <1>4, <1>5 DEF Logged
<1> QED BY <1>1, <1>2, <1>3, <1>4, <1>5, <1>6

LEMMA SeqSwitch ==
    ASSUME Inv1, Inv1', SeqInv, SwitchMemTable
    PROVE  SeqInv'
<1>1. /\ status = "open" /\ writing = None
      /\ imm_' = [entries |-> mem_] /\ mem_' = {}
      /\ UNCHANGED <<status, current, manifests, tables, writing, log_number_,
                     last_sequence_, files_, bg>>
      /\ \A e, b : Logged(e, b)' <=> Logged(e, b)
  BY SwitchEffect
<1>2. SeqOpen
  BY DEF SeqInv
<1>3. last_sequence_ \in Nat /\ logfile_number_ \in DOMAIN logs
      /\ log_number_ <= logfile_number_ /\ log_number_ \in Nat /\ logfile_number_ \in Nat
      /\ mem_ \in SUBSET Entries
  BY <1>1, OpenFacts DEF OpenOK, Inv1, TypeInv, VsetType
<1>4. /\ SeqVersions(last_sequence_)' /\ current' # 0
      /\ \A k \in CurrentKs' :
            /\ View(k)'.next # 0
            /\ \A e \in Entries : (Held(e, View(k).files))' => e[1] <= View(k)'.last
  BY <1>1, <1>3, SeqVersionsKept
<1>5. OpenEntries' \subseteq OpenEntries
  BY <1>1, SameOpenEntries
<1>6. \A e \in OpenEntries : e[1] <= last_sequence_
  BY <1>1, <1>2 DEF SeqOpen, Uncommitted
<1>7. ASSUME NEW e \in mem_ PROVE Logged(e, log_number_) /\ e[1] <= last_sequence_
  <2>1. InLog(e, logfile_number_)
    BY <1>1, <1>2 DEF SeqOpen
  <2>2. Logged(e, log_number_) /\ Logged(e, 0)
    BY <1>3, <2>1 DEF Logged
  <2>3. e \in OpenEntries
    BY <1>3, <2>2 DEF OpenEntries
  <2> QED BY <1>6, <2>2, <2>3
<1>8. \A e \in Entries : InImm(e)' => Logged(e, log_number_)' /\ e[1] <= last_sequence_'
  <2>1. \A e : InImm(e)' => e \in mem_
    BY <1>1 DEF InImm
  <2>2. PICK b : b = log_number_
    OBVIOUS
  <2>3. \A e : Logged(e, b)' <=> Logged(e, log_number_)'
    BY <1>1, <2>2
  <2> QED BY <1>1, <1>7, <2>1, <2>2, <2>3
<1>9. SeqOpen'
  <2>1. Unique(OpenEntries')
    BY <1>1, <1>2, <1>5 DEF SeqOpen, Unique
  <2>2. \A e \in OpenEntries' : e[1] <= last_sequence_'
    BY <1>1, <1>5, <1>6
  <2> QED BY <1>1, <1>4, <1>8, <2>1, <2>2 DEF SeqOpen, SeqVersions, Unique
<1> QED BY <1>1, <1>4, <1>9, SeqWhenOpen

-----------------------------------------------------------------------------
(* Sequence numbers: the background thread                                 *)

(***************************************************************************)
(* A table is built from the memtable or from tables of the version: its   *)
(* entries are known.                                                      *)
(***************************************************************************)
LEMMA SeqEdit ==
    ASSUME Inv1, Inv1', SeqInv, status = "open",
           UNCHANGED <<status, current, manifests, logs, mem_, imm_, logfile_number_,
                       log_number_, last_sequence_, files_, writing>>,
           \A n \in KnownTables : tables'[n] = tables[n],
           bg'.edit # None, bg'.edit.last = last_sequence_,
           \A e \in Entries : (Held(e, bg.edit.add))' => InImm(e) \/ Held(e, files_)
    PROVE  SeqInv'
<1>1. /\ CurrentKs' = CurrentKs
      /\ \A k \in CurrentKs : View(k)' = View(k)
      /\ \A k \in CurrentKs : \A e \in Entries :
            (Held(e, View(k).files))' <=> Held(e, View(k).files)
  BY KnownHeld
<1>2. \A e \in Entries : Held(e, files_)' <=> Held(e, files_)
  <2>1. \A n \in Numbers(files_) : tables'[n] = tables[n]
    BY DEF KnownTables
  <2> QED BY <2>1 DEF Held, Numbers
<1>3. SeqOpen
  BY DEF SeqInv
<1>4. /\ \A e, n : InLog(e, n)' <=> InLog(e, n)
      /\ \A e, n : Logged(e, n)' <=> Logged(e, n)
      /\ \A e : InImm(e)' <=> InImm(e)
      /\ \A e : Uncommitted(e)' <=> Uncommitted(e)
  BY DEF InLog, Logged, InImm, Uncommitted
<1>5. \A e \in Entries : InImm(e) => Logged(e, 0)
  <2>1. \A n \in DOMAIN logs : n \in Nat
    BY OpenFacts
  <2> QED BY <1>3, <2>1 DEF SeqOpen, Logged
<1>6. ASSUME NEW e \in OpenEntries' PROVE e \in OpenEntries
  <2>1. /\ e \in Entries
        /\ \/ Logged(e, 0)' \/ Held(e, files_)'
           \/ \E k \in CurrentKs' : (Held(e, View(k).files))'
           \/ bg'.edit # None /\ (Held(e, bg.edit.add))'
    BY <1>6 DEF OpenEntries
  <2> QED BY <1>1, <1>2, <1>4, <1>5, <2>1 DEF OpenEntries
<1>7. /\ \A e \in Entries : (Held(e, bg.edit.add))' => e[1] <= bg'.edit.last
      /\ bg'.edit.last <= last_sequence_
      /\ \A k \in CurrentKs' : View(k)'.last <= bg'.edit.last
  <2>1. \A e \in Entries : Held(e, files_) \/ InImm(e) => e[1] <= last_sequence_
    BY <1>3 DEF SeqOpen
  <2>2. \A k \in CurrentKs : View(k).last <= last_sequence_
    BY <1>3 DEF SeqOpen
  <2> QED BY <1>1, <2>1, <2>2, OpenFacts
<1>8. SeqOpen'
  <2>1. Unique(OpenEntries')
    BY <1>3, <1>6 DEF SeqOpen, Unique
  <2>2. \A e \in OpenEntries' : e[1] <= last_sequence_ \/ Uncommitted(e)'
    BY <1>3, <1>4, <1>6 DEF SeqOpen
  <2>3. \A e \in mem_ : InLog(e, logfile_number_)'
    BY <1>3, <1>4 DEF SeqOpen
  <2>4. \A e \in Entries : InImm(e)' => Logged(e, log_number_)'
    BY <1>3, <1>4 DEF SeqOpen
  <2>5. \A e \in Entries : Held(e, files_)' \/ InImm(e)' => e[1] <= last_sequence_
    BY <1>2, <1>3, <1>4 DEF SeqOpen
  <2>6. \A k \in CurrentKs' : View(k)'.last <= last_sequence_
    BY <1>1, <1>3 DEF SeqOpen
  <2>7. writing # None =>
             /\ Unique(writing.entries)
             /\ \A e \in writing.entries :
                   last_sequence_ < e[1] /\ e[1] <= last_sequence_ + Cardinality(writing.entries)
    BY <1>3 DEF SeqOpen
  <2> QED BY <1>7, <2>1, <2>2, <2>3, <2>4, <2>5, <2>6, <2>7 DEF SeqOpen, Unique
<1>9. \A k \in CurrentKs' :
         /\ View(k)'.next # 0
         /\ \A e \in Entries : (Held(e, View(k).files))' => e[1] <= View(k)'.last
  BY <1>1, SeqViews
<1> QED BY <1>8, <1>9, SeqViews, SeqWhenOpen

LEMMA FlushBuiltEffect ==
    ASSUME Inv1, FlushBuilt
    PROVE  /\ status = "open" /\ bg.pc = "build" /\ imm_ # None /\ imm_.entries \in SUBSET Entries
           /\ UNCHANGED <<status, current, manifests, logs, mem_, imm_, logfile_number_,
                          log_number_, last_sequence_, files_, writing>>
           /\ \A n \in KnownTables : tables'[n] = tables[n]
           /\ bg'.pc = "flush" /\ bg'.edit # None /\ bg'.edit.last = last_sequence_
           /\ bg'.edit.log = logfile_number_
           /\ \A e : (Held(e, bg.edit.add))' <=> InImm(e)
<1>1. status = "open" /\ bg.pc = "build"
  BY OnlyWhenOpen DEF FlushBuilt
<1>2. /\ imm_ # None /\ Fresh(bg.number) /\ bg.number \in Nat
      /\ next_file_number_ \in Nat /\ last_sequence_ \in Nat /\ logfile_number_ \in Nat
  BY <1>1, OpenFacts DEF BackgroundOK
<1>3. imm_.entries \in SUBSET Entries
  BY <1>2 DEF Inv1, TypeInv, VsetType
<1>4. UNCHANGED <<status, current, manifests, logs, mem_, imm_, logfile_number_,
                  log_number_, last_sequence_, files_, writing>>
  BY DEF FlushBuilt, queue, mems, vset
<1>0. PICK n : n = bg.number
  OBVIOUS
<1>5. PICK l \in {0, 1} :
         /\ tables' = (IF imm_.entries = {} THEN tables ELSE With(tables, n, imm_.entries))
         /\ bg' = [pc |-> "flush", number |-> n,
                   edit |-> Edit(IF imm_.entries = {} THEN {} ELSE {Table(n, l)}, {}, logfile_number_,
                                 next_file_number_, last_sequence_)]
  BY <1>0 DEF FlushBuilt, ApplyEdit, FlushLog
<1>6. Table(n, l) \in FileType /\ Table(n, l).number = n
  BY <1>0, <1>2, TableTyped
<1>7. PICK add : add = IF imm_.entries = {} THEN {} ELSE {Table(n, l)}
  OBVIOUS
<1>8. bg'.edit = Edit(add, {}, logfile_number_, next_file_number_, last_sequence_) /\ bg'.pc = "flush"
  BY <1>5, <1>7
<1>9. /\ bg'.edit # None /\ bg'.edit.add = add /\ bg'.edit.last = last_sequence_
      /\ bg'.edit.log = logfile_number_
  <2>1. add \in SUBSET FileType
    BY <1>6, <1>7
  <2> QED BY <1>2, <1>8, <2>1, EditTyped
<1>10. \A m \in KnownTables : tables'[m] = tables[m]
  <2>1. n \notin KnownTables
    BY <1>0, <1>2, FreshIsUnknown
  <2> QED BY <1>1, <1>5, <2>1, KnownOnDisk DEF With
<1>11. ASSUME NEW e PROVE (Held(e, bg.edit.add))' <=> InImm(e)
  <2>1. imm_.entries # {} => tables'[n] = imm_.entries
    BY <1>5 DEF With
  <2>2. (Held(e, bg.edit.add))' <=> \E f \in add : e \in tables'[f.number]
    BY <1>9 DEF Held
  <2>3. CASE imm_.entries = {}
    BY <1>7, <2>2, <2>3 DEF InImm
  <2>4. CASE imm_.entries # {}
    <3>1. add = {Table(n, l)}
      BY <1>7, <2>4
    <3> QED BY <1>2, <1>6, <2>1, <2>2, <2>4, <3>1 DEF InImm
  <2> QED BY <2>3, <2>4
<1> QED BY <1>1, <1>2, <1>3, <1>4, <1>8, <1>9, <1>10, <1>11

LEMMA MergeDoneEffect ==
    ASSUME Inv1, MergeDone
    PROVE  /\ status = "open" /\ bg.pc = "merge" /\ compact # None /\ compact.inputs \subseteq files_
           /\ UNCHANGED <<status, current, manifests, logs, mem_, imm_, logfile_number_,
                          log_number_, last_sequence_, files_, writing, compact>>
           /\ \A n \in KnownTables : tables'[n] = tables[n]
           /\ bg'.pc = "apply" /\ bg'.edit # None /\ bg'.edit.last = last_sequence_
           /\ \A e : (Held(e, bg.edit.add))' <=> Held(e, compact.inputs)
<1>1. status = "open" /\ bg.pc = "merge" /\ compact.output # 0
  BY OnlyWhenOpen DEF MergeDone
<1>2. /\ compact # None /\ compact.inputs \subseteq files_ /\ compact.inputs \subseteq FileType
      /\ compact.output \in Nat /\ compact.output \in DOMAIN tables /\ Fresh(compact.output)
      /\ next_file_number_ \in Nat /\ last_sequence_ \in Nat /\ log_number_ \in Nat
  BY <1>1, OpenFacts DEF BackgroundOK
<1>3. UNCHANGED <<status, current, manifests, logs, mem_, imm_, logfile_number_,
                  log_number_, last_sequence_, files_, writing, compact>>
  BY DEF MergeDone, queue, mems, vset
<1>4. PICK n, ins, S : n = compact.output /\ ins = compact.inputs
                       /\ S = UNION {tables[m] : m \in Numbers(compact.inputs)}
  OBVIOUS
<1>5. /\ tables' = [tables EXCEPT ![n] = S]
      /\ bg' = [pc |-> "apply", number |-> 0,
                edit |-> Edit({Table(n, 1)}, ins, log_number_, next_file_number_, last_sequence_)]
  BY <1>4 DEF MergeDone, ApplyEdit
<1>6. Table(n, 1) \in FileType /\ Table(n, 1).number = n
  BY <1>2, <1>4, TableTyped
<1>7. bg'.edit = Edit({Table(n, 1)}, ins, log_number_, next_file_number_, last_sequence_) /\ bg'.pc = "apply"
  BY <1>5
<1>8. /\ bg'.edit # None /\ bg'.edit.add = {Table(n, 1)} /\ bg'.edit.last = last_sequence_
  BY <1>2, <1>4, <1>6, <1>7, EditTyped
<1>9. \A m \in KnownTables : tables'[m] = tables[m]
  <2>1. n \notin KnownTables
    BY <1>2, <1>4, FreshIsUnknown
  <2> QED BY <1>1, <1>5, <2>1, KnownOnDisk
<1>10. ASSUME NEW e PROVE (Held(e, bg.edit.add))' <=> Held(e, compact.inputs)
  <2>1. tables'[n] = S
    BY <1>2, <1>4, <1>5 DEF Inv1, TypeInv, DiskType, FilesTyped
  <2>2. (Held(e, bg.edit.add))' <=> \E f \in {Table(n, 1)} : e \in tables'[f.number]
    BY <1>8 DEF Held
  <2>3. e \in S <=> Held(e, compact.inputs)
    BY <1>4 DEF Held, Numbers
  <2> QED BY <1>6, <2>1, <2>2, <2>3
<1> QED BY <1>1, <1>2, <1>3, <1>7, <1>8, <1>9, <1>10

LEMMA SeqBuilt ==
    ASSUME Inv1, Inv1', SeqInv, FlushBuilt \/ MergeDone
    PROVE  SeqInv'
<1>1. CASE FlushBuilt
  BY <1>1, FlushBuiltEffect, SeqEdit
<1>2. CASE MergeDone
  <2>1. \A e \in Entries : (Held(e, bg.edit.add))' => Held(e, files_)
    BY <1>2, MergeDoneEffect DEF Held
  <2> QED BY <1>2, <2>1, MergeDoneEffect, SeqEdit
<1> QED BY <1>1, <1>2

(* LogAndApply: a record adds nothing that was not known. *)
LEMMA SeqRecord ==
    ASSUME Inv1, Inv1', SeqInv, ManifestRecord
    PROVE  SeqInv'
<1>1. status = "open" /\ bg.pc \in {"flush", "apply"} /\ bg.edit # None
  BY RecordEffect
<1>2. UNCHANGED <<status, current, logs, tables, mem_, imm_, logfile_number_, log_number_,
                  last_sequence_, files_, writing>>
  BY DEF ManifestRecord, queue, mems, vset
<1>3. PICK n \in Nat :
         /\ n \in CurrentKs
         /\ CurrentKs' \subseteq CurrentKs \cup {n + 1}
         /\ \A k \in CurrentKs : View(k)' = View(k)
         /\ \/ /\ bg'.edit = bg.edit /\ CurrentKs' = {n + 1}
               /\ Applied(View(n + 1)', View(n), bg.edit)
            \/ /\ bg'.edit = None
               /\ View(n + 1)' = View(n) \/ Applied(View(n + 1)', View(n), bg.edit)
  BY RecordEffect
<1>4. SeqOpen
  BY DEF SeqInv
<1>5. /\ last_sequence_ \in Nat /\ bg.edit.last \in Nat
      /\ \A e \in Entries : e[1] \in Nat
      /\ \A k \in CurrentKs : View(k).last \in Nat
  BY <1>1, OpenFacts, SeqViews DEF Entries, EditType
<1>6. /\ \A e \in Entries : Held(e, bg.edit.add) => e[1] <= bg.edit.last
      /\ bg.edit.last <= last_sequence_
      /\ \A k \in CurrentKs : View(k).last <= bg.edit.last
  BY <1>1, <1>4 DEF SeqOpen
<1>7. \A k \in CurrentKs' :
         \/ k \in CurrentKs /\ View(k)' = View(k)
         \/ View(k)' = View(n)
         \/ Applied(View(k)', View(n), bg.edit)
  BY <1>3
<1>8. ASSUME NEW k \in CurrentKs', NEW e \in Entries, (Held(e, View(k).files))'
      PROVE  (\E j \in CurrentKs : Held(e, View(j).files)) \/ Held(e, bg.edit.add)
  <2>1. PICK f \in View(k)'.files : e \in tables[f.number]
    BY <1>2, <1>8 DEF Held
  <2>2. (\E j \in CurrentKs : f \in View(j).files) \/ f \in bg.edit.add
    BY <1>3, <1>7, <2>1 DEF Applied, Apply
  <2> QED BY <2>1, <2>2 DEF Held
<1>9. ASSUME NEW k \in CurrentKs'
      PROVE  /\ View(k)'.next # 0 /\ View(k)'.last <= last_sequence_
             /\ \A e \in Entries : (Held(e, View(k).files))' => e[1] <= View(k)'.last
  <2>1. View(k)'.next # 0
    <3>1. status' = "open" /\ OpenOK'
      BY <1>1, <1>2 DEF Inv1, Struct
    <3> QED BY <3>1 DEF OpenOK, CurrentKs, View
  <2>2. CASE k \in CurrentKs /\ View(k)' = View(k)
    <3>1. \A e \in Entries : (Held(e, View(k).files))' => Held(e, View(k).files)
      BY <1>2, <2>2 DEF Held
    <3>2. View(k).last <= last_sequence_
      BY <1>1, <1>4, <2>2 DEF SeqOpen
    <3>3. \A e \in Entries : Held(e, View(k).files) => e[1] <= View(k).last
      BY <1>1, <2>2, SeqViews
    <3> QED BY <2>1, <2>2, <3>1, <3>2, <3>3
  <2>3. CASE View(k)' = View(n)
    <3>1. \A e \in Entries : (Held(e, View(k).files))' => Held(e, View(n).files)
      BY <1>2, <2>3 DEF Held
    <3>2. View(n).last <= last_sequence_
      BY <1>1, <1>3, <1>4 DEF SeqOpen
    <3>3. \A e \in Entries : Held(e, View(n).files) => e[1] <= View(n).last
      BY <1>1, <1>3, SeqViews
    <3> QED BY <2>1, <2>3, <3>1, <3>2, <3>3
  <2>4. CASE Applied(View(k)', View(n), bg.edit)
    <3>1. \A e \in Entries : (Held(e, View(k).files))' =>
                                Held(e, View(n).files) \/ Held(e, bg.edit.add)
      BY <1>2, <2>4 DEF Held, Applied, Apply
    <3>2. View(k)'.last = bg.edit.last
      BY <2>4 DEF Applied
    <3>3. \A e \in Entries : Held(e, View(n).files) => e[1] <= View(n).last
      BY <1>1, <1>3, SeqViews
    <3>4. View(n).last <= bg.edit.last /\ View(n).last \in Nat
      BY <1>3, <1>5, <1>6
    <3>5. \A e \in Entries : (Held(e, View(k).files))' => e[1] <= bg.edit.last
      BY <1>5, <1>6, <3>1, <3>3, <3>4
    <3> QED BY <1>6, <2>1, <3>2, <3>5
  <2> QED BY <1>7, <2>2, <2>3, <2>4
<1>10. /\ \A e, m : InLog(e, m)' <=> InLog(e, m)
       /\ \A e, m : Logged(e, m)' <=> Logged(e, m)
       /\ \A e : InImm(e)' <=> InImm(e)
       /\ \A e : Uncommitted(e)' <=> Uncommitted(e)
       /\ \A e : Held(e, files_)' <=> Held(e, files_)
  BY <1>2 DEF InLog, Logged, InImm, Uncommitted, Held
<1>11. bg'.edit # None => bg'.edit = bg.edit /\ \A k \in CurrentKs' : View(k)'.last = bg.edit.last
  BY <1>3 DEF Applied
<1>12. bg'.edit # None => \A e : (Held(e, bg.edit.add))' <=> Held(e, bg.edit.add)
  BY <1>2, <1>11 DEF Held
<1>13. ASSUME NEW e \in OpenEntries' PROVE e \in OpenEntries
  <2>1. /\ e \in Entries
        /\ \/ Logged(e, 0)' \/ Held(e, files_)'
           \/ \E k \in CurrentKs' : (Held(e, View(k).files))'
           \/ bg'.edit # None /\ (Held(e, bg.edit.add))'
    BY <1>13 DEF OpenEntries
  <2> QED BY <1>1, <1>8, <1>10, <1>12, <2>1 DEF OpenEntries
<1>14. SeqOpen'
  <2>1. Unique(OpenEntries')
    BY <1>1, <1>4, <1>13 DEF SeqOpen, Unique
  <2>2. \A e \in OpenEntries' : e[1] <= last_sequence_ \/ Uncommitted(e)'
    BY <1>1, <1>4, <1>10, <1>13 DEF SeqOpen
  <2>3. \A e \in mem_ : InLog(e, logfile_number_)'
    BY <1>1, <1>2, <1>4, <1>10 DEF SeqOpen
  <2>4. \A e \in Entries : InImm(e)' => Logged(e, log_number_)'
    BY <1>1, <1>2, <1>4, <1>10 DEF SeqOpen
  <2>5. \A e \in Entries : Held(e, files_)' \/ InImm(e)' => e[1] <= last_sequence_
    BY <1>1, <1>4, <1>10 DEF SeqOpen
  <2>6. writing # None =>
             /\ Unique(writing.entries)
             /\ \A e \in writing.entries :
                   last_sequence_ < e[1] /\ e[1] <= last_sequence_ + Cardinality(writing.entries)
    BY <1>1, <1>4 DEF SeqOpen
  <2>7. bg'.edit # None =>
          /\ \A e \in Entries : (Held(e, bg.edit.add))' => e[1] <= bg'.edit.last
          /\ bg'.edit.last <= last_sequence_
          /\ \A k \in CurrentKs' : View(k)'.last <= bg'.edit.last
    BY <1>5, <1>6, <1>11, <1>12
  <2> QED BY <1>2, <1>9, <2>1, <2>2, <2>3, <2>4, <2>5, <2>6, <2>7 DEF SeqOpen, Unique
<1> QED BY <1>1, <1>2, <1>9, <1>14, SeqWhenOpen, SeqViews

(***************************************************************************)
(* The installation of a new version, and the deletion of what it makes    *)
(* obsolete: what remains was known, and what the memtables need remains.  *)
(***************************************************************************)
LEMMA InstalledEffect ==
    ASSUME Inv1, Inv1', FlushInstalled \/ CompactionInstalled
    PROVE  /\ status = "open" /\ bg.edit # None
           /\ bg.pc = (IF FlushInstalled THEN "flushed" ELSE "applied")
           /\ files_' = Apply(files_, bg.edit) /\ log_number_' = bg.edit.log
           /\ UNCHANGED <<status, current, mem_, logfile_number_, last_sequence_, writing>>
           /\ bg'.edit = None /\ CurrentKs' = CurrentKs /\ manifests'[current] = manifests[current]
           /\ (imm_' = None \/ (imm_' = imm_ /\ log_number_' = log_number_))
           /\ \A k \in CurrentKs : View(k)' = View(k)
           /\ \A k \in CurrentKs : \A e : (Held(e, View(k).files))' <=> Held(e, View(k).files)
           /\ \A e : Held(e, files_)' <=> Held(e, Apply(files_, bg.edit))
           /\ \A n \in DOMAIN logs' : n \in DOMAIN logs /\ logs'[n] = logs[n]
           /\ \A n \in DOMAIN logs : n >= log_number_' => n \in DOMAIN logs'
<1>1. status = "open" /\ bg.pc \in {"flushed", "applied"} /\ bg.edit # None
      /\ bg.pc = (IF FlushInstalled THEN "flushed" ELSE "applied")
  <2>1. status = "open" /\ bg.pc \in {"flushed", "applied"}
        /\ bg.pc = (IF FlushInstalled THEN "flushed" ELSE "applied")
    BY OnlyWhenOpen DEF FlushInstalled, CompactionInstalled
  <2> QED BY <2>1, OpenFacts DEF BackgroundOK
<1>2. files_' = Apply(files_, bg.edit) /\ log_number_' = bg.edit.log
  BY DEF FlushInstalled, CompactionInstalled
<1>3. UNCHANGED <<status, mem_, logfile_number_, last_sequence_, writing>>
  BY DEF FlushInstalled, CompactionInstalled, queue, mems
<1>4. PICK fs, log, pending : /\ fs = files_' /\ log = log_number_'
                              /\ DeleteObsoleteFiles(fs, log, pending)
  BY DEF FlushInstalled, CompactionInstalled
<1>5. bg'.edit = None
  <2>1. bg' = Idle \/ bg' = [pc |-> "merge", number |-> 0, edit |-> None]
    BY DEF FlushInstalled, CompactionInstalled, AfterFlush, EndCall
  <2> QED BY <2>1 DEF Idle
<1>6. imm_' = None \/ (imm_' = imm_ /\ log_number_' = log_number_)
  <2>1. CASE FlushInstalled
    BY <2>1 DEF FlushInstalled
  <2>2. CASE CompactionInstalled
    <3>1. bg.pc = "applied" /\ imm_' = imm_
      BY <2>2 DEF CompactionInstalled, mems
    <3> QED BY <1>1, <1>2, <3>1, OpenFacts DEF BackgroundOK
  <2> QED BY <2>1, <2>2
<1>7. DiskType /\ manifest_file_number_ \in Nat /\ log \in Nat
  BY <1>1, <1>2, <1>4, OpenFacts DEF Inv1, TypeInv
<1>8. /\ current' = current
      /\ \A n \in DOMAIN logs' : n \in DOMAIN logs /\ logs'[n] = logs[n]
      /\ \A n \in DOMAIN logs : n >= log => n \in DOMAIN logs'
      /\ \A n \in DOMAIN manifests' : manifests'[n] = manifests[n]
      /\ \A n \in DOMAIN tables' : tables'[n] = tables[n]
  BY <1>4, <1>7, Deleting
<1>9. status' = "open" /\ OpenOK' /\ CurrentOK' /\ current' # 0
  BY <1>1, <1>3 DEF Inv1, Struct, OpenOK
<1>10. current \in DOMAIN manifests' /\ manifests'[current] = manifests[current]
  BY <1>8, <1>9 DEF CurrentOK, ManifestOK
<1>11. CurrentKs' = CurrentKs /\ \A k \in CurrentKs : View(k)' = View(k)
  BY <1>8, <1>10 DEF CurrentKs, View
<1>12. ASSUME NEW k \in CurrentKs, NEW e
       PROVE  (Held(e, View(k).files))' <=> Held(e, View(k).files)
  <2>1. Numbers(View(k)'.files) \subseteq DOMAIN tables'
    BY <1>9, <1>11 DEF CurrentOK, ManifestOK, CurrentKs, View
  <2> QED BY <1>8, <1>11, <2>1 DEF Held, Numbers
<1>13. ASSUME NEW e PROVE Held(e, files_)' <=> Held(e, Apply(files_, bg.edit))
  <2>1. Numbers(files_') \subseteq DOMAIN tables'
    BY <1>9 DEF OpenOK
  <2> QED BY <1>2, <1>8, <2>1 DEF Held, Numbers
<1> QED BY <1>1, <1>2, <1>3, <1>4, <1>5, <1>6, <1>8, <1>10, <1>11, <1>12, <1>13

LEMMA SeqInstalled ==
    ASSUME Inv1, Inv1', SeqInv, FlushInstalled \/ CompactionInstalled
    PROVE  SeqInv'
<1>1. /\ status = "open" /\ bg.edit # None
      /\ files_' = Apply(files_, bg.edit) /\ log_number_' = bg.edit.log
      /\ UNCHANGED <<status, current, mem_, logfile_number_, last_sequence_, writing>>
      /\ bg'.edit = None /\ CurrentKs' = CurrentKs
      /\ (imm_' = None \/ (imm_' = imm_ /\ log_number_' = log_number_))
      /\ \A k \in CurrentKs : View(k)' = View(k)
      /\ \A k \in CurrentKs : \A e : (Held(e, View(k).files))' <=> Held(e, View(k).files)
      /\ \A e : Held(e, files_)' <=> Held(e, Apply(files_, bg.edit))
      /\ \A n \in DOMAIN logs' : n \in DOMAIN logs /\ logs'[n] = logs[n]
      /\ \A n \in DOMAIN logs : n >= log_number_' => n \in DOMAIN logs'
  BY InstalledEffect
<1>2. SeqOpen
  BY DEF SeqInv
<1>3. /\ last_sequence_ \in Nat /\ bg.edit.last \in Nat
      /\ \A e \in Entries : e[1] \in Nat
  BY <1>1, OpenFacts DEF Entries, EditType
<1>4. \A e : Held(e, files_)' => Held(e, files_) \/ Held(e, bg.edit.add)
  BY <1>1 DEF Held, Apply
<1>5. /\ \A e, m : m \in DOMAIN logs' => (InLog(e, m)' <=> InLog(e, m))
      /\ \A e, m : Logged(e, m)' => Logged(e, m)
      /\ \A e : Uncommitted(e)' <=> Uncommitted(e)
  BY <1>1 DEF InLog, Logged, Uncommitted
<1>6. ASSUME NEW e \in OpenEntries' PROVE e \in OpenEntries
  <2>1. /\ e \in Entries
        /\ \/ Logged(e, 0)' \/ Held(e, files_)'
           \/ \E k \in CurrentKs' : (Held(e, View(k).files))'
           \/ bg'.edit # None /\ (Held(e, bg.edit.add))'
    BY <1>6 DEF OpenEntries
  <2> QED BY <1>1, <1>4, <1>5, <2>1 DEF OpenEntries
<1>7. \A e \in Entries : Held(e, files_)' => e[1] <= last_sequence_
  <2>1. /\ \A e \in Entries : Held(e, files_) => e[1] <= last_sequence_
        /\ \A e \in Entries : Held(e, bg.edit.add) => e[1] <= bg.edit.last
        /\ bg.edit.last <= last_sequence_
    BY <1>1, <1>2 DEF SeqOpen
  <2> QED BY <1>3, <1>4, <2>1
<1>8. \A e \in Entries : InImm(e)' => Logged(e, log_number_)' /\ e[1] <= last_sequence_
  <2>1. CASE imm_' = None
    BY <2>1 DEF InImm
  <2>2. CASE imm_' = imm_ /\ log_number_' = log_number_
    <3>1. \A e \in Entries : InImm(e)' => Logged(e, log_number_) /\ e[1] <= last_sequence_
      BY <1>1, <1>2, <2>2 DEF SeqOpen, InImm
    <3>2. \A e \in Entries : Logged(e, log_number_) => Logged(e, log_number_)'
      BY <1>1, <2>2 DEF Logged, InLog
    <3> QED BY <3>1, <3>2
  <2> QED BY <1>1, <2>1, <2>2
<1>9. SeqOpen'
  <2>1. Unique(OpenEntries')
    BY <1>1, <1>2, <1>6 DEF SeqOpen, Unique
  <2>2. \A e \in OpenEntries' : e[1] <= last_sequence_ \/ Uncommitted(e)'
    BY <1>1, <1>2, <1>5, <1>6 DEF SeqOpen
  <2>3. \A e \in mem_ : InLog(e, logfile_number_)'
    <3>1. logfile_number_ \in DOMAIN logs'
      BY <1>1 DEF Inv1, Struct, OpenOK
    <3>2. \A e \in mem_ : InLog(e, logfile_number_)
      BY <1>1, <1>2 DEF SeqOpen
    <3> QED BY <1>1, <3>1, <3>2 DEF InLog
  <2>4. writing # None =>
             /\ Unique(writing.entries)
             /\ \A e \in writing.entries :
                   last_sequence_ < e[1] /\ e[1] <= last_sequence_ + Cardinality(writing.entries)
    BY <1>1, <1>2 DEF SeqOpen
  <2>5. \A k \in CurrentKs' : View(k)'.last <= last_sequence_
    BY <1>1, <1>2 DEF SeqOpen
  <2> QED BY <1>1, <1>7, <1>8, <2>1, <2>2, <2>3, <2>4, <2>5 DEF SeqOpen, Unique
<1>10. \A k \in CurrentKs' :
         /\ View(k)'.next # 0
         /\ \A e \in Entries : (Held(e, View(k).files))' => e[1] <= View(k)'.last
  BY <1>1, SeqViews
<1> QED BY <1>1, <1>9, <1>10, SeqWhenOpen, SeqViews

-----------------------------------------------------------------------------
(* Sequence numbers: the end of a process, and DB::Open                    *)

LEMMA ClosedSeq ==
    ASSUME status' \notin {"open", "recovering", "manifest", "current"}, SeqOnDisk'
    PROVE  SeqInv'
BY DEF SeqInv, SeqOpening, SeqOpen

(* The machine stops: what can be read is a part of what could be. *)
LEMMA SeqCrash ==
    ASSUME Inv1, Inv1', SeqInv, Crash
    PROVE  SeqInv'
<1>1. /\ UNCHANGED <<current, tables>> /\ status' = "down"
      /\ logs' \in Survivors(logs)
  BY DEF Crash, Gone
<1>2. Cut(logs, logs')
  BY <1>1, LogsSurvive DEF Inv1, TypeInv, DiskType
<1>3. DOMAIN logs' = DOMAIN logs
  BY <1>2 DEF Cut
<1>4. \A n \in DOMAIN logs' : \A e : InLog(e, n)' => InLog(e, n)
  <2>1. ASSUME NEW n \in DOMAIN logs', NEW e, InLog(e, n)' PROVE InLog(e, n)
    <3>1. PICK i \in 1 .. Len(logs'[n].records) : e \in logs'[n].records[i].entries
      BY <2>1 DEF InLog
    <3>2. logs[n] \in LogType /\ logs'[n] \in LogType
      BY <1>3, <2>1 DEF Inv1, TypeInv, DiskType, FilesTyped
    <3>3. Len(logs[n].records) \in Nat /\ Len(logs'[n].records) \in Nat
      BY <3>2 DEF LogType, LogRecords
    <3>4. /\ Len(logs'[n].records) <= Len(logs[n].records)
          /\ logs'[n].records[i] = logs[n].records[i]
      BY <1>2, <1>3, <2>1, <3>1, <3>2, <3>3 DEF Cut, LogType
    <3> QED BY <3>1, <3>3, <3>4 DEF InLog
  <2> QED BY <2>1
<1>5. \A e, b : Logged(e, b)' => Logged(e, b)
  BY <1>3, <1>4 DEF Logged
<1>6. ASSUME current # 0
      PROVE  /\ CurrentKs' \subseteq CurrentKs
             /\ \A k \in CurrentKs' : View(k)' = View(k)
  BY <1>6, CrashKeeps
<1>7. ASSUME current # 0
      PROVE  /\ DiskEntries' \subseteq DiskEntries
             /\ \A k \in CurrentKs' : \A e \in Entries :
                   (Held(e, View(k).files))' => Held(e, View(k).files)
  <2>1. \A k \in CurrentKs' : \A e \in Entries :
           (Held(e, View(k).files))' => Held(e, View(k).files)
    BY <1>1, <1>6, <1>7 DEF Held
  <2>2. ASSUME NEW e \in DiskEntries' PROVE e \in DiskEntries
    <3>1. PICK k \in CurrentKs' : e \in Entries /\ ((Held(e, View(k).files))' \/ (Logged(e, View(k).log))')
      BY <2>2 DEF DiskEntries
    <3>2. k \in CurrentKs /\ View(k)' = View(k)
      BY <1>6, <1>7, <3>1
    <3>3. PICK b : b = View(k).log
      OBVIOUS
    <3>4. (Logged(e, View(k).log))' <=> Logged(e, b)'
      BY <3>2, <3>3 DEF Logged
    <3> QED BY <1>5, <2>1, <3>1, <3>2, <3>3, <3>4 DEF DiskEntries
  <2> QED BY <2>1, <2>2
<1>8. SeqOnDisk
  BY DEF SeqInv
<1>9. SeqOnDisk'
  BY <1>1, <1>3, <1>6, <1>7, <1>8 DEF SeqOnDisk, Unique
<1> QED BY <1>1, <1>9, ClosedSeq

(* The directory says the same as before. *)
LEMMA SameDisk ==
    ASSUME UNCHANGED <<current, logs>>, current # 0 => manifests'[current] = manifests[current],
           current # 0 => \A k \in CurrentKs : \A n \in Numbers(View(k).files) : tables'[n] = tables[n]
    PROVE  /\ current # 0 => CurrentKs' = CurrentKs
           /\ current # 0 => \A k \in CurrentKs : View(k)' = View(k)
           /\ current # 0 => \A k \in CurrentKs : \A e \in Entries :
                 (Held(e, View(k).files))' <=> Held(e, View(k).files)
           /\ SeqOnDisk => SeqOnDisk'
<1>1. ASSUME current # 0
      PROVE  CurrentKs' = CurrentKs /\ \A k \in CurrentKs : View(k)' = View(k)
  BY <1>1 DEF CurrentKs, View
<1>2. ASSUME current # 0, NEW k \in CurrentKs, NEW e \in Entries
      PROVE  (Held(e, View(k).files))' <=> Held(e, View(k).files)
  <2>1. PICK fs : fs = View(k).files
    OBVIOUS
  <2>2. (\E f \in fs : e \in tables'[f.number]) <=> Held(e, fs)
    BY <1>2, <2>1, SameHeld
  <2>3. View(k)'.files = fs
    BY <1>1, <1>2, <2>1
  <2> QED BY <2>1, <2>2, <2>3 DEF Held
<1>3. ASSUME SeqOnDisk PROVE SeqOnDisk'
  <2>1. CASE current = 0
    BY <1>3, <2>1 DEF SeqOnDisk
  <2>2. CASE current # 0
    <3>1. \A e, b : Logged(e, b)' <=> Logged(e, b)
      BY DEF Logged, InLog
    <3>2. ASSUME NEW e \in DiskEntries' PROVE e \in DiskEntries
      <4>1. PICK k \in CurrentKs' : /\ e \in Entries
                                    /\ (Held(e, View(k).files))' \/ (Logged(e, View(k).log))'
        BY <3>2 DEF DiskEntries
      <4>2. k \in CurrentKs /\ View(k)' = View(k)
        BY <1>1, <2>2, <4>1
      <4>3. PICK b : b = View(k).log
        OBVIOUS
      <4>4. (Logged(e, View(k).log))' <=> Logged(e, b)'
        BY <4>2, <4>3 DEF Logged
      <4> QED BY <1>2, <2>2, <3>1, <4>1, <4>2, <4>3, <4>4 DEF DiskEntries
    <3> QED BY <1>1, <1>2, <1>3, <2>2, <3>2 DEF SeqOnDisk, Unique
  <2> QED BY <2>1, <2>2
<1> QED BY <1>1, <1>2, <1>3

LEMMA SeqGone ==
    ASSUME Inv1, Inv1', SeqInv, Destroyed \/ OpenFails
    PROVE  SeqInv'
<1>1. status' = "down" /\ UNCHANGED <<current, logs, tables>>
  BY DEF Destroyed, OpenFails, Gone, disk
<1>2. ASSUME current # 0 PROVE manifests'[current] = manifests[current]
  <2>1. CASE manifests' = manifests
    BY <2>1
  <2>2. CASE status = "manifest"
             /\ manifests' = Restricted(manifests, DOMAIN manifests \ {manifest_file_number_})
    <3>1. status \in Opening_
      BY <2>2 DEF Opening_
    <3>2. current < manifest_file_number_ /\ current \in DOMAIN manifests /\ current \in Nat
          /\ manifest_file_number_ \in Nat
      BY <2>2, <3>1, OpeningFacts DEF OpeningOK
    <3> QED BY <2>2, <3>2 DEF Restricted
  <2> QED BY <2>1, <2>2 DEF Destroyed, OpenFails, disk
<1>3. SeqOnDisk'
  BY <1>1, <1>2, SameDisk DEF SeqInv
<1> QED BY <1>1, <1>3, ClosedSeq

LEMMA SeqNewDB ==
    ASSUME Inv1, Inv1', SeqInv, NewDB
    PROVE  SeqInv'
<1>1. status' = "down" /\ current = 0 /\ logs' = logs /\ DOMAIN logs = {}
  BY DEF NewDB, SeqInv, SeqOnDisk
<1>2. CASE current' = 0
  BY <1>1, <1>2, ClosedSeq DEF SeqOnDisk
<1>3. CASE current' # 0
  <2>1. PICK e, m : e = Edit({}, {}, 0, 2, 0) /\ m = [records |-> <<e>>, synced |-> 0]
    OBVIOUS
  <2>2. manifests' = With(manifests, 1, m) /\ current' = 1
    BY <1>1, <1>3, <2>1 DEF NewDB
  <2>3. manifests'[1] = m /\ m.records = <<e>> /\ m.synced = 0
    BY <2>1, <2>2 DEF With
  <2>4. e \in EditType /\ e.next = 2 /\ e.add = {}
    BY <2>1, EditTyped
  <2>5. CurrentKs' = {0, 1}
    <3>1. Len(m.records) = 1
      BY <2>3
    <3>2. CurrentKs' = 0 .. 1
      BY <2>2, <2>3, <3>1 DEF CurrentKs, Ks
    <3> QED BY <3>2
  <2>6. View(0)'.files = {}
    <3>1. FilesAt(<<e>>, 0) = {}
      BY DEF FilesAt
    <3>2. Replay(<<e>>, 0).files = {}
      BY <3>1, ReplayFields
    <3> QED BY <2>2, <2>3, <3>2 DEF View
  <2>7. View(1)'.files = {}
    BY <2>2, <2>3, <2>4, ReplayOne DEF View
  <2>8. \A k \in CurrentKs' : View(k)'.files = {}
    BY <2>5, <2>6, <2>7
  <2>9. DiskEntries' = {}
    BY <1>1, <2>8 DEF DiskEntries, Held, Logged
  <2>10. SeqOnDisk'
    BY <1>3, <2>8, <2>9 DEF SeqOnDisk, Unique, Held
  <2> QED BY <1>1, <2>10, ClosedSeq
<1> QED BY <1>2, <1>3

(***************************************************************************)
(* VersionSet::Recover reads the whole MANIFEST.                           *)
(***************************************************************************)
LEMMA RecoverEffect ==
    ASSUME Inv1, Recover
    PROVE  /\ status = "down" /\ current # 0 /\ UNCHANGED <<current, manifests, logs, tables>>
           /\ \E n \in CurrentKs :
                 /\ n = Len(manifests[current].records)
                 /\ \/ status' = "corrupt"
                    \/ /\ status' = "recovering" /\ View(n).next # 0
                       /\ files_' = View(n).files /\ log_number_' = View(n).log
                       /\ last_sequence_' = View(n).last
                       /\ rec' = [logs |-> {i \in DOMAIN logs : i >= View(n).log}, read |-> 0, add |-> {},
                                  max_sequence |-> 0, ok |-> TRUE]
<1>1. status = "down" /\ current # 0 /\ UNCHANGED <<current, manifests, logs, tables>>
  BY DEF Recover, disk
<1>2. PICK n : n = Len(manifests[current].records)
  OBVIOUS
<1>3. n \in CurrentKs
  <2>1. current \in DOMAIN manifests /\ DiskType
    BY <1>1 DEF CurrentOK, ManifestOK, Inv1, TypeInv, Struct
  <2>2. manifests[current].synced \in Nat /\ n \in Nat /\ manifests[current].synced <= n
    BY <1>2, <2>1 DEF DiskType, FilesTyped, ManifestType, Records
  <2> QED BY <1>2, <2>2 DEF Ks, CurrentKs
<1>4. PICK v : v = Replay(manifests[current].records, n)
  OBVIOUS
<1>5. \/ status' = "corrupt"
      \/ /\ status' = "recovering" /\ v.next # 0
         /\ files_' = v.files /\ log_number_' = v.log
         /\ last_sequence_' = v.last
         /\ rec' = [logs |-> {i \in DOMAIN logs : i >= v.log}, read |-> 0, add |-> {},
                    max_sequence |-> 0, ok |-> TRUE]
  BY <1>2, <1>4 DEF Recover, Unreadable
<1>6. v = View(n)
  BY <1>4 DEF View
<1> QED BY <1>1, <1>2, <1>3, <1>5, <1>6

LEMMA SeqRecover ==
    ASSUME Inv1, Inv1', SeqInv, Recover
    PROVE  SeqInv'
<1>1. /\ status = "down" /\ current # 0 /\ UNCHANGED <<current, manifests, logs, tables>>
  BY RecoverEffect
<1>2. PICK n \in CurrentKs :
         \/ status' = "corrupt"
         \/ /\ status' = "recovering"
            /\ files_' = View(n).files /\ log_number_' = View(n).log
            /\ last_sequence_' = View(n).last
            /\ rec' = [logs |-> {i \in DOMAIN logs : i >= View(n).log}, read |-> 0, add |-> {},
                       max_sequence |-> 0, ok |-> TRUE]
  BY RecoverEffect
<1>3. SeqOnDisk /\ SeqOnDisk'
  BY <1>1, SameDisk DEF SeqInv
<1>4. CASE status' = "corrupt"
  BY <1>3, <1>4, ClosedSeq
<1>5. CASE status' = "recovering"
  <2>1. /\ files_' = View(n).files /\ last_sequence_' = View(n).last /\ log_number_' = View(n).log
        /\ rec'.add = {} /\ rec'.logs = {i \in DOMAIN logs : i >= View(n).log}
    BY <1>2, <1>5
  <2>2. \A e \in Entries : Held(e, files_)' => e[1] <= last_sequence_'
    <3>1. \A e \in Entries : Held(e, files_)' <=> Held(e, View(n).files)
      BY <1>1, <2>1 DEF Held
    <3> QED BY <1>1, <1>3, <2>1, <3>1 DEF SeqOnDisk
  <2>3. \A e \in Entries : ~ (Held(e, rec.add))'
    BY <2>1 DEF Held
  <2> QED BY <1>3, <1>5, <2>1, <2>2, <2>3 DEF SeqInv, SeqOpening, SeqOpen
<1> QED BY <1>2, <1>4, <1>5

(* A number that recovery gives out is in no version of the MANIFEST. *)
LEMMA RecoveryNumbers ==
    ASSUME Inv1, SeqInv, status = "recovering"
    PROVE  /\ \A k \in CurrentKs : next_file_number_ \notin Numbers(View(k).files)
           /\ next_file_number_ \notin Numbers(files_ \cup rec.add)
           /\ \A k \in CurrentKs : Numbers(View(k).files) \subseteq DOMAIN tables
           /\ Numbers(files_ \cup rec.add) \subseteq DOMAIN tables
           /\ \E n \in CurrentKs : /\ n = Len(manifests[current].records)
                                   /\ View(n).files = files_ /\ View(n).log = log_number_
<1>1. status \in Opening_
  BY DEF Opening_
<1>2. /\ OpeningOK /\ ManifestOK(current) /\ current # 0 /\ current \in DOMAIN manifests /\ DiskType
      /\ next_file_number_ \in Nat /\ manifest_file_number_ \in Nat
      /\ \A f \in files_ \cup rec.add : f.number \in Nat
  BY <1>1, OpeningFacts
<1>3. PICK n : n = Len(manifests[current].records)
  OBVIOUS
<1>4. n \in CurrentKs
  <2>1. manifests[current].synced \in Nat /\ n \in Nat /\ manifests[current].synced <= n
    BY <1>2, <1>3 DEF DiskType, FilesTyped, ManifestType, Records
  <2> QED BY <1>3, <2>1 DEF Ks, CurrentKs
<1>5. /\ View(n).files = files_ /\ View(n).log = log_number_ /\ View(n).next = manifest_file_number_
      /\ manifest_file_number_ < next_file_number_
      /\ Numbers(files_ \cup rec.add) \subseteq DOMAIN tables
      /\ \A f \in files_ \cup rec.add : f.number < next_file_number_
  BY <1>1, <1>2, <1>3 DEF OpeningOK, LastView, View
<1>6. ASSUME NEW k \in CurrentKs
      PROVE  /\ next_file_number_ \notin Numbers(View(k).files)
             /\ Numbers(View(k).files) \subseteq DOMAIN tables
  <2>1. PICK v : v = View(k)
    OBVIOUS
  <2>2. v \in ViewType /\ k \in 0 .. n /\ n \in Nat
    BY <1>2, <1>3, <2>1, CurrentViews DEF CurrentKs, View
  <2>3. /\ Numbers(v.files) \subseteq DOMAIN tables
        /\ v.next # 0 => \A f \in v.files : f.number < v.next
        /\ v.next <= View(n).next
    BY <1>2, <1>4, <2>1, <2>2 DEF ManifestOK, CurrentKs, View
  <2>4. v.next = 0 => v.files = {}
    BY <1>2, <2>1 DEF SeqInv, SeqOnDisk
  <2>5. v.next \in Nat /\ \A f \in v.files : f.number \in Nat
    BY <2>2 DEF ViewType, FileType
  <2>6. \A f \in v.files : f.number < next_file_number_
    BY <1>2, <1>5, <2>3, <2>4, <2>5
  <2> QED BY <1>2, <2>1, <2>3, <2>5, <2>6 DEF Numbers
<1>7. next_file_number_ \notin Numbers(files_ \cup rec.add)
  BY <1>2, <1>5 DEF Numbers
<1> QED BY <1>3, <1>4, <1>5, <1>6, <1>7

LogHeld(n, is, k, found) ==
    /\ n = ThisLog /\ n \in rec.logs /\ n \in DOMAIN logs
    /\ is \in ReadableIn(logs[n], rec.read)
    /\ found = Found(n, UpTo(is, k)) /\ found \in SUBSET Entries
    /\ \A e \in found : InLog(e, n)
    /\ rec'.max_sequence \in Nat /\ rec'.max_sequence >= rec.max_sequence
    /\ \A e : (Held(e, rec.add))' =>
          Held(e, rec.add) \/ (e \in found /\ e[1] <= rec'.max_sequence)
    /\ \A e : Held(e, rec.add) => (Held(e, rec.add))'
    /\ \/ k \in is /\ GoesOn(n, k) /\ \A e \in found : (Held(e, rec.add))'
       \/ HasDone(n) /\ (rec'.ok =>
             /\ \A e \in found : (Held(e, rec.add))'
             /\ promised' = {p \in promised : p[1] \notin Found(n, is \ UpTo(is, k))})

(***************************************************************************)
(* Recovery: the entries found go to a new table, or there is none.        *)
(***************************************************************************)
LEMMA RecoverLogEffect ==
    ASSUME Inv1, SeqInv, Recovery
    PROVE  /\ status = "recovering"
           /\ UNCHANGED <<status, current, manifests, logs, files_, log_number_, last_sequence_>>
           /\ \A k \in CurrentKs : \A m \in Numbers(View(k).files) : tables'[m] = tables[m]
           /\ \A e : Held(e, files_)' <=> Held(e, files_)
           /\ flaws \subseteq flaws'
           /\ \E n, is, k, found : LogHeld(n, is, k, found)
<1>1. /\ status = "recovering"
      /\ UNCHANGED <<status, current, manifests, logs, files_, log_number_, last_sequence_>>
  BY DEF Recovery, RecoverTable, RecoverLogFile, Recovering
<1>0. PICK n, is, k, found : LogRun(n, is, k, found)
  BY RecoveredLog
<1>2. /\ n = ThisLog /\ n \in rec.logs /\ n \in DOMAIN logs
      /\ is \in ReadableIn(logs[n], rec.read)
      /\ found = Found(n, UpTo(is, k)) /\ found \in SUBSET Entries
      /\ \A e \in found : \E i \in 1 .. Len(logs[n].records) : e \in logs[n].records[i].entries
      /\ \A e \in found : e[1] <= Seen(found)
      /\ rec'.max_sequence >= rec.max_sequence
      /\ rec' \in RecType
      /\ NoTable(found) \/ TableAdded(found)
      /\ \/ k \in is /\ GoesOn(n, k) /\ TableAdded(found)
         \/ HasDone(n) /\ (rec'.ok =>
               /\ found = {} \/ TableAdded(found)
               /\ promised' = {p \in promised : p[1] \notin Found(n, is \ UpTo(is, k))})
  BY <1>0, Zenon DEF LogRun
<1>3. rec'.max_sequence \in Nat /\ flaws \subseteq flaws'
  BY <1>2 DEF RecType, GoesOn, HasDone
<1>4. \A e \in found : InLog(e, n)
  BY <1>2 DEF InLog
<1>5. PICK t : t = next_file_number_
  OBVIOUS
<1>6. Table(t, 0).number = t
  BY <1>1, <1>5, OpeningFacts, TableTyped DEF Opening_
<1>7. /\ \A h \in CurrentKs : t \notin Numbers(View(h).files) /\ Numbers(View(h).files) \subseteq DOMAIN tables
      /\ t \notin Numbers(files_ \cup rec.add) /\ Numbers(files_ \cup rec.add) \subseteq DOMAIN tables
  BY <1>1, <1>5, RecoveryNumbers
<1>8. \A m \in DOMAIN tables : m # t => tables'[m] = tables[m]
  BY <1>2, <1>5 DEF With, NoTable, TableAdded
<1>9. \A h \in CurrentKs : \A m \in Numbers(View(h).files) : tables'[m] = tables[m]
  BY <1>7, <1>8
<1>10. \A f \in files_ \cup rec.add : tables'[f.number] = tables[f.number]
  BY <1>7, <1>8 DEF Numbers
<1>11. \A e : Held(e, files_)' <=> Held(e, files_)
  BY <1>1, <1>10 DEF Held
<1>12. \A e : Held(e, rec.add) => (Held(e, rec.add))'
  <2>1. rec.add \subseteq rec'.add
    BY <1>2 DEF NoTable, TableAdded
  <2> QED BY <1>10, <2>1 DEF Held
<1>13. ASSUME TableAdded(found)
       PROVE  /\ \A e : (Held(e, rec.add))' <=> Held(e, rec.add) \/ e \in found
              /\ \A e \in found : e[1] <= rec'.max_sequence
  <2>1. tables'[t] = found /\ rec'.add = rec.add \cup {Table(t, 0)}
    BY <1>5, <1>13 DEF With, TableAdded
  <2>2. rec'.max_sequence = Seen(found)
    BY <1>13 DEF TableAdded
  <2> QED BY <1>2, <1>6, <1>10, <2>1, <2>2 DEF Held
<1>14. ASSUME NoTable(found)
       PROVE  \A e : (Held(e, rec.add))' <=> Held(e, rec.add)
  BY <1>14 DEF Held, NoTable
<1>15. \A e : (Held(e, rec.add))' => Held(e, rec.add) \/ (e \in found /\ e[1] <= rec'.max_sequence)
  BY <1>2, <1>13, <1>14
<1>16. \/ k \in is /\ GoesOn(n, k) /\ \A e \in found : (Held(e, rec.add))'
       \/ HasDone(n) /\ (rec'.ok =>
             /\ \A e \in found : (Held(e, rec.add))'
             /\ promised' = {p \in promised : p[1] \notin Found(n, is \ UpTo(is, k))})
  <2>1. found = {} \/ TableAdded(found) => \A e \in found : (Held(e, rec.add))'
    BY <1>13
  <2> HIDE DEF Held
  <2> QED BY <1>2, <2>1
<1>17. LogHeld(n, is, k, found)
  <2> HIDE DEF Held
  <2> QED BY <1>2, <1>3, <1>4, <1>12, <1>15, <1>16, Zenon DEF LogHeld
<1>18. \E m, js, h, es : LogHeld(m, js, h, es)
  BY <1>17, Zenon
<1> HIDE DEF Held, LogHeld
<1> QED BY <1>1, <1>3, <1>9, <1>11, <1>18, Zenon

LEMMA SeqRecoverLog ==
    ASSUME Inv1, Inv1', SeqInv, Recovery
    PROVE  SeqInv'
<1>1. /\ status = "recovering"
      /\ UNCHANGED <<status, current, manifests, logs, files_, log_number_, last_sequence_>>
      /\ \A k \in CurrentKs : \A m \in Numbers(View(k).files) : tables'[m] = tables[m]
      /\ \A e : Held(e, files_)' <=> Held(e, files_)
  BY RecoverLogEffect
<1>0. PICK n, is, k, found : LogHeld(n, is, k, found)
  BY RecoverLogEffect
<1>2. /\ n \in rec.logs /\ found \in SUBSET Entries
      /\ n \in DOMAIN logs /\ \A e \in found : InLog(e, n)
      /\ rec'.max_sequence \in Nat /\ rec'.max_sequence >= rec.max_sequence
      /\ rec'.logs \subseteq rec.logs
      /\ \A e : (Held(e, rec.add))' =>
            Held(e, rec.add) \/ (e \in found /\ e[1] <= rec'.max_sequence)
  <2>1. rec'.logs \subseteq rec.logs
    BY <1>0 DEF LogHeld, GoesOn, HasDone
  <2> QED BY <1>0, <2>1, Zenon DEF LogHeld
<1>3. SeqOnDisk'
  BY <1>1, SameDisk DEF SeqInv
<1>4. SeqOpening
  BY DEF SeqInv
<1>5. rec.max_sequence \in Nat /\ \A e \in Entries : e[1] \in Nat
  BY <1>1, OpeningFacts DEF Opening_, RecType, Entries
<1>6. \A e, b : Logged(e, b)' <=> Logged(e, b)
  BY <1>1 DEF Logged, InLog
<1>7. \A e \in found : Logged(e, log_number_)
  BY <1>1, <1>2, <1>4 DEF SeqOpening, Logged
<1>8. \A e \in Entries : Held(e, rec.add) =>
            e[1] <= rec.max_sequence /\ Logged(e, log_number_)
  BY <1>1, <1>4 DEF SeqOpening
<1>9. \A e \in Entries : (Held(e, rec.add))' =>
            e[1] <= rec'.max_sequence /\ Logged(e, log_number_)
  BY <1>2, <1>5, <1>7, <1>8
<1>10. \A e : Logged(e, log_number_) => Logged(e, log_number_)'
  BY <1>1, <1>6 DEF Logged, InLog
<1>11. SeqOpening'
  BY <1>1, <1>2, <1>4, <1>9, <1>10 DEF SeqOpening
<1> QED BY <1>1, <1>3, <1>11 DEF SeqInv, SeqOpen

(* The new log is empty, and the new MANIFEST is not yet the current one. *)
LEMMA NewManifestEffect ==
    ASSUME Inv1, SeqInv, NewLogAndManifest
    PROVE  /\ status = "recovering" /\ rec.logs = {} /\ rec.ok /\ status' = "manifest"
           /\ UNCHANGED <<current, tables, files_, rec>> /\ current # 0
           /\ CurrentKs' = CurrentKs /\ \A k \in CurrentKs : View(k)' = View(k)
           /\ manifests'[current] = manifests[current]
           /\ last_sequence_ \in Nat /\ rec.max_sequence \in Nat /\ last_sequence_' \in Nat
           /\ last_sequence_' >= last_sequence_ /\ last_sequence_' >= rec.max_sequence
           /\ DOMAIN logs' = DOMAIN logs \cup {next_file_number_}
           /\ next_file_number_ \notin DOMAIN logs
           /\ \A n \in DOMAIN logs : logs'[n] = logs[n]
           /\ logs'[next_file_number_] = [records |-> <<>>, synced |-> 0]
           /\ \A e, b : Logged(e, b)' <=> Logged(e, b)
<1>1. /\ status = "recovering" /\ rec.logs = {} /\ rec.ok /\ status' = "manifest"
      /\ UNCHANGED <<current, tables, files_, rec>>
      /\ last_sequence_' = MaxOf({last_sequence_, rec.max_sequence})
      /\ logs' = With(logs, next_file_number_, [records |-> <<>>, synced |-> 0])
  BY DEF NewLogAndManifest
<1>2. /\ OpeningOK /\ current # 0 /\ current \in DOMAIN manifests /\ current \in Nat
      /\ next_file_number_ \in Nat /\ manifest_file_number_ \in Nat
      /\ last_sequence_ \in Nat /\ rec.max_sequence \in Nat
      /\ \A n \in DOMAIN logs : n \in Nat
  BY <1>1, OpeningFacts DEF Opening_, VsetType, RecType
<1>3. current < manifest_file_number_ /\ \A n \in DOMAIN logs : n < next_file_number_
  BY <1>1, <1>2 DEF OpeningOK, Opening_
<1>4. manifests'[current] = manifests[current]
  <2>1. PICK m : manifests' = With(manifests, manifest_file_number_, m)
    BY DEF NewLogAndManifest
  <2> QED BY <1>2, <1>3, <2>1 DEF With
<1>5. CurrentKs' = CurrentKs /\ \A k \in CurrentKs : View(k)' = View(k)
  BY <1>1, <1>4 DEF CurrentKs, View
<1>6. /\ last_sequence_' \in Nat
      /\ last_sequence_' >= last_sequence_ /\ last_sequence_' >= rec.max_sequence
  BY <1>1, <1>2, GreaterOfTwo
<1>7. next_file_number_ \notin DOMAIN logs
  BY <1>2, <1>3
<1>8. /\ DOMAIN logs' = DOMAIN logs \cup {next_file_number_}
      /\ \A n \in DOMAIN logs : logs'[n] = logs[n]
      /\ logs'[next_file_number_] = [records |-> <<>>, synced |-> 0]
  BY <1>1, <1>7 DEF With
<1>9. \A n \in DOMAIN logs : \A e : InLog(e, n)' <=> InLog(e, n)
  BY <1>8 DEF InLog
<1>10. ASSUME NEW n, n = next_file_number_, NEW e PROVE ~InLog(e, n)'
  <2>1. Len(logs'[n].records) = 0
    BY <1>8, <1>10
  <2> QED BY <2>1 DEF InLog
<1>11. \A e, b : Logged(e, b)' <=> Logged(e, b)
  BY <1>8, <1>9, <1>10 DEF Logged
<1> QED BY <1>1, <1>2, <1>4, <1>5, <1>6, <1>7, <1>8, <1>11

LEMMA SeqNewManifest ==
    ASSUME Inv1, Inv1', SeqInv, NewLogAndManifest
    PROVE  SeqInv'
<1>1. /\ status = "recovering" /\ status' = "manifest"
      /\ UNCHANGED <<current, tables, files_, rec>> /\ current # 0
      /\ CurrentKs' = CurrentKs /\ \A k \in CurrentKs : View(k)' = View(k)
      /\ last_sequence_ \in Nat /\ rec.max_sequence \in Nat /\ last_sequence_' \in Nat
      /\ last_sequence_' >= last_sequence_ /\ last_sequence_' >= rec.max_sequence
      /\ \A e, b : Logged(e, b)' <=> Logged(e, b)
  BY NewManifestEffect
<1>2. SeqOnDisk /\ SeqOpening
  BY DEF SeqInv
<1>3. \A k \in CurrentKs : \A e \in Entries : (Held(e, View(k).files))' <=> Held(e, View(k).files)
  BY <1>1 DEF Held
<1>4. ASSUME NEW e \in DiskEntries' PROVE e \in DiskEntries
  <2>1. PICK k \in CurrentKs' : /\ e \in Entries
                                /\ (Held(e, View(k).files))' \/ (Logged(e, View(k).log))'
    BY <1>4 DEF DiskEntries
  <2>2. PICK b : b = View(k).log
    OBVIOUS
  <2>3. (Logged(e, View(k).log))' <=> Logged(e, b)'
    BY <1>1, <2>1, <2>2 DEF Logged
  <2> QED BY <1>1, <1>3, <2>1, <2>2, <2>3 DEF DiskEntries
<1>5. SeqOnDisk'
  BY <1>1, <1>2, <1>3, <1>4 DEF SeqOnDisk, Unique
<1>6. /\ \A e \in Entries : Held(e, rec.add) => e[1] <= rec.max_sequence /\ Logged(e, log_number_)
      /\ \A e \in Entries : Held(e, files_) => e[1] <= last_sequence_
  BY <1>1, <1>2 DEF SeqOpening
<1>7. \A e : (Held(e, files_ \cup rec.add))' <=> Held(e, files_) \/ Held(e, rec.add)
  BY <1>1 DEF Held
<1>8. \A e \in Entries : (Held(e, files_ \cup rec.add))' => e[1] <= last_sequence_'
  <2>1. \A e \in Entries : e[1] \in Nat
    BY DEF Entries
  <2> QED BY <1>1, <1>6, <1>7, <2>1
<1>9. \A e \in Entries : (Held(e, files_ \cup rec.add))' => e \in DiskEntries
  <2>1. PICK n \in CurrentKs : View(n).files = files_ /\ View(n).log = log_number_
    BY <1>1, RecoveryNumbers
  <2>2. \A e \in Entries : Held(e, files_) => e \in DiskEntries
    BY <2>1 DEF DiskEntries
  <2>3. \A e \in Entries : Logged(e, log_number_) => e \in DiskEntries
    BY <2>1 DEF DiskEntries
  <2> QED BY <1>6, <1>7, <2>2, <2>3
<1>10. Unique({e \in Entries : (Held(e, files_ \cup rec.add))'})
  BY <1>1, <1>2, <1>9 DEF SeqOnDisk, Unique
<1>11. SeqOpening'
  BY <1>1, <1>8, <1>10 DEF SeqOpening, Unique
<1> QED BY <1>1, <1>5, <1>11 DEF SeqInv, SeqOpen

(* The only log that the new MANIFEST asks for is empty. *)
LEMMA NewestLogIsEmpty ==
    ASSUME Inv1, status \in {"manifest", "current"}
    PROVE  \A e : ~Logged(e, logfile_number_)
<1>1. status \in Opening_
  BY DEF Opening_
<1>2. /\ \A n \in DOMAIN logs : n <= logfile_number_ /\ n \in Nat
      /\ logs[logfile_number_].records = <<>> /\ logfile_number_ \in Nat
  BY <1>1, OpeningFacts DEF OpeningOK
<1>3. ASSUME NEW n \in DOMAIN logs, n >= logfile_number_, NEW e PROVE ~InLog(e, n)
  <2>1. n = logfile_number_
    BY <1>2, <1>3
  <2>2. Len(logs[n].records) = 0
    BY <1>2, <2>1
  <2> QED BY <2>2 DEF InLog
<1> QED BY <1>3 DEF Logged

LEMMA SetCurrentEffect ==
    ASSUME Inv1, SetCurrentFile
    PROVE  /\ status = "manifest" /\ status' = "current"
           /\ UNCHANGED <<logs, manifests, tables, files_, rec, last_sequence_, logfile_number_>>
           /\ current' # 0 /\ CurrentKs' = {2} /\ View(2)'.files = files_ \cup rec.add
           /\ View(2)'.log = logfile_number_ /\ View(2)'.next # 0 /\ View(2)'.last = last_sequence_
           /\ Len(manifests'[current'].records) = 2
<1>1. /\ status = "manifest" /\ status' = "current" /\ current' = manifest_file_number_
      /\ UNCHANGED <<logs, manifests, tables, files_, rec, last_sequence_, logfile_number_>>
  BY DEF SetCurrentFile, mems, vset
<1>2. PICK m, v : m = manifests[manifest_file_number_] /\ v = Replay(m.records, 2)
  OBVIOUS
<1>3. /\ Ks(m) = {2} /\ v.files = files_ \cup rec.add /\ v.log = logfile_number_
      /\ v.next = next_file_number_ /\ v.last = last_sequence_ /\ next_file_number_ # 0
      /\ Len(m.records) = 2
  BY <1>1, <1>2, NewManifestSays
<1>4. manifest_file_number_ # 0
  BY <1>1, OpeningFacts DEF OpeningOK, Opening_
<1>5. CurrentKs' = {2} /\ View(2)' = v
  BY <1>1, <1>2, <1>3 DEF CurrentKs, View
<1> QED BY <1>1, <1>2, <1>3, <1>4, <1>5

LEMMA SeqSetCurrent ==
    ASSUME Inv1, Inv1', SeqInv, SetCurrentFile
    PROVE  SeqInv'
<1>1. /\ status = "manifest" /\ status' = "current"
      /\ UNCHANGED <<logs, manifests, tables, files_, rec, last_sequence_, logfile_number_>>
      /\ current' # 0 /\ CurrentKs' = {2} /\ View(2)'.files = files_ \cup rec.add
      /\ View(2)'.log = logfile_number_ /\ View(2)'.next # 0 /\ View(2)'.last = last_sequence_
  BY SetCurrentEffect
<1>2. /\ \A e \in Entries : Held(e, files_ \cup rec.add) => e[1] <= last_sequence_
      /\ Unique({e \in Entries : Held(e, files_ \cup rec.add)})
  BY <1>1 DEF SeqInv, SeqOpening
<1>3. \A e \in Entries : (Held(e, files_ \cup rec.add))' <=> Held(e, files_ \cup rec.add)
  BY <1>1 DEF Held
<1>4. \A e \in Entries : (Held(e, View(2).files))' <=> Held(e, files_ \cup rec.add)
  BY <1>1 DEF Held
<1>5. \A e \in Entries : ~ (Logged(e, View(2).log))'
  <2>1. \A e : ~Logged(e, logfile_number_)
    BY <1>1, NewestLogIsEmpty
  <2> QED BY <1>1, <2>1 DEF Logged, InLog
<1>6. \A e \in DiskEntries' : e \in Entries /\ Held(e, files_ \cup rec.add)
  BY <1>1, <1>4, <1>5 DEF DiskEntries
<1>7. SeqOnDisk'
  <2>1. Unique(DiskEntries')
    BY <1>2, <1>6 DEF Unique
  <2> QED BY <1>1, <1>2, <1>4, <2>1 DEF SeqOnDisk, Unique
<1>8. SeqOpening'
  BY <1>1, <1>2, <1>3 DEF SeqOpening, Unique
<1> QED BY <1>1, <1>7, <1>8 DEF SeqInv, SeqOpen

(* DB::Open ends: one log, which is empty, and the version of the MANIFEST. *)
LEMMA OpenDoneEffect ==
    ASSUME Inv1, Inv1', OpenDone
    PROVE  /\ status = "current" /\ status' = "open"
           /\ UNCHANGED <<current, mem_, imm_, writing, bg, last_sequence_, logfile_number_>>
           /\ mem_ = {} /\ imm_ = None /\ writing = None /\ bg.edit = None /\ bg.pc = "idle"
           /\ files_' = files_ \cup rec.add /\ log_number_' = logfile_number_
           /\ current # 0 /\ CurrentKs' = {2} /\ CurrentKs = {2} /\ View(2)' = View(2)
           /\ View(2).files = files_ \cup rec.add
           /\ View(2).log = logfile_number_ /\ View(2).next # 0 /\ View(2).last = last_sequence_
           /\ Len(manifests'[current].records) = 2 /\ manifests'[current] = manifests[current]
           /\ \A e : Held(e, files_)' <=> Held(e, files_ \cup rec.add)
           /\ \A e : (Held(e, View(2).files))' <=> Held(e, files_ \cup rec.add)
           /\ \A n \in DOMAIN logs' : n \in DOMAIN logs /\ logs'[n] = logs[n]
           /\ \A e, b : ~Logged(e, b)'
<1>1. status = "current" /\ status \in Opening_ /\ status' = "open" /\ current = manifest_file_number_
      /\ current # 0
  BY OpeningFacts DEF OpenDone, Opening_, OpeningOK
<1>2. /\ UNCHANGED <<mem_, imm_, logfile_number_, writing, bg, last_sequence_>>
      /\ ~bg_error_ /\ bg = Idle /\ mem_ = {} /\ imm_ = None /\ writing = None
  BY <1>1, OpeningFacts DEF OpenDone, Quiet, mems, queue
<1>3. PICK fs, log : /\ fs = files_' /\ log = log_number_' /\ fs = files_ \cup rec.add
                     /\ log = logfile_number_ /\ DeleteObsoleteFiles(fs, log, {})
  BY DEF OpenDone
<1>4. PICK m, v : m = manifests[current] /\ v = Replay(m.records, 2)
  OBVIOUS
<1>5. /\ Ks(m) = {2} /\ v.files = fs /\ v.log = logfile_number_ /\ v.next = next_file_number_
      /\ v.last = last_sequence_ /\ Len(m.records) = 2 /\ next_file_number_ # 0
  BY <1>1, <1>3, <1>4, NewManifestSays
<1>6. CurrentKs = {2} /\ View(2) = v
  BY <1>4, <1>5 DEF CurrentKs, View
<1>7. DiskType /\ manifest_file_number_ \in Nat /\ log \in Nat
  BY <1>1, <1>3, OpeningFacts
<1>8. /\ current' = current
      /\ \A n \in DOMAIN logs' : n \in DOMAIN logs /\ logs'[n] = logs[n] /\ n >= log
      /\ \A n \in DOMAIN manifests' : manifests'[n] = manifests[n]
      /\ \A n \in DOMAIN tables' : tables'[n] = tables[n]
  BY <1>2, <1>3, <1>7, Deleting
<1>9. CurrentOK' /\ OpenOK'
  BY DEF Inv1, Struct
<1>10. manifests'[current] = m
  BY <1>1, <1>4, <1>8, <1>9 DEF CurrentOK, ManifestOK
<1>11. CurrentKs' = {2} /\ View(2)' = v
  BY <1>4, <1>5, <1>8, <1>10 DEF CurrentKs, View
<1>12. Numbers(fs) \subseteq DOMAIN tables'
  BY <1>1, <1>3, <1>9 DEF OpenOK
<1>13. \A e : Held(e, files_)' <=> Held(e, files_ \cup rec.add)
  BY <1>3, <1>8, <1>12 DEF Held, Numbers
<1>14. \A e : (Held(e, View(2).files))' <=> Held(e, files_ \cup rec.add)
  <2>1. View(2)'.files = fs
    BY <1>5, <1>11
  <2> QED BY <1>3, <1>8, <1>12, <2>1 DEF Held, Numbers
<1>15. \A e, b : ~Logged(e, b)'
  <2>1. \A e : ~Logged(e, logfile_number_)
    BY <1>1, NewestLogIsEmpty
  <2>2. \A n \in DOMAIN logs' : \A e : InLog(e, n)' => Logged(e, logfile_number_)
    BY <1>3, <1>8 DEF Logged, InLog
  <2> QED BY <2>1, <2>2 DEF Logged
<1>16. bg.edit = None /\ bg.pc = "idle"
  BY <1>2 DEF Idle
<1> QED BY <1>1, <1>2, <1>3, <1>4, <1>5, <1>6, <1>8, <1>10, <1>11, <1>13, <1>14, <1>15, <1>16

LEMMA SeqOpenDone ==
    ASSUME Inv1, Inv1', SeqInv, OpenDone
    PROVE  SeqInv'
<1>1. /\ status = "current" /\ status' = "open"
      /\ UNCHANGED <<current, mem_, imm_, writing, bg, last_sequence_, logfile_number_>>
      /\ mem_ = {} /\ imm_ = None /\ writing = None /\ bg.edit = None
      /\ current # 0 /\ CurrentKs' = {2} /\ View(2)' = View(2)
      /\ View(2).next # 0 /\ View(2).last = last_sequence_
      /\ \A e : Held(e, files_)' <=> Held(e, files_ \cup rec.add)
      /\ \A e : (Held(e, View(2).files))' <=> Held(e, files_ \cup rec.add)
      /\ \A e, b : ~Logged(e, b)'
  BY OpenDoneEffect
<1>2. /\ \A e \in Entries : Held(e, files_ \cup rec.add) => e[1] <= last_sequence_
      /\ Unique({e \in Entries : Held(e, files_ \cup rec.add)})
  BY <1>1 DEF SeqInv, SeqOpening
<1>3. last_sequence_ \in Nat
  BY <1>1, OpeningFacts DEF Opening_, VsetType
<1>4. ASSUME NEW e \in OpenEntries' PROVE e \in Entries /\ Held(e, files_ \cup rec.add)
  <2>1. /\ e \in Entries
        /\ \/ Logged(e, 0)' \/ Held(e, files_)'
           \/ \E k \in CurrentKs' : (Held(e, View(k).files))'
           \/ bg'.edit # None /\ (Held(e, bg.edit.add))'
    BY <1>4 DEF OpenEntries
  <2> QED BY <1>1, <2>1
<1>5. SeqOpen'
  <2>1. Unique(OpenEntries')
    BY <1>2, <1>4 DEF Unique
  <2>2. \A e \in OpenEntries' : e[1] <= last_sequence_'
    BY <1>1, <1>2, <1>4
  <2>3. \A e : ~InImm(e)'
    BY <1>1 DEF InImm
  <2>4. \A k \in CurrentKs' : View(k)'.last <= last_sequence_'
    BY <1>1, <1>3
  <2> QED BY <1>1, <1>2, <2>1, <2>2, <2>3, <2>4 DEF SeqOpen, Unique
<1>6. \A k \in CurrentKs' :
         /\ View(k)'.next # 0
         /\ \A e \in Entries : (Held(e, View(k).files))' => e[1] <= View(k)'.last
  BY <1>1, <1>2
<1> QED BY <1>1, <1>5, <1>6, SeqWhenOpen

-----------------------------------------------------------------------------
(* The sequence numbers                                                    *)

LEMMA InitialDisk ==
    ASSUME Init
    PROVE  /\ DOMAIN logs = {} /\ current \in {0, 1} /\ status = "down"
           /\ current = 1 => /\ CurrentKs = {1} /\ Len(manifests[current].records) = 1
                             /\ View(1).files = {Table(2, 0)} /\ View(1).next = 3
                             /\ View(1).last = 1 /\ View(1).log = 0
                             /\ Table(2, 0).number = 2 /\ tables[2] = {<<1, 0>>}
                             /\ manifests[current].records[1] # None
<1>1. PICK n \in Stored :
         /\ current = n
         /\ tables = IF n = 0 THEN Empty ELSE With(Empty, 2, {<<1, 0>>})
         /\ manifests = IF n = 0 THEN Empty ELSE
               With(Empty, 1, [records |-> <<Edit({Table(2, 0)}, {}, 0, 3, 1)>>, synced |-> 1])
  BY DEF Init
<1>2. PICK e, m : e = Edit({Table(2, 0)}, {}, 0, 3, 1) /\ m = [records |-> <<e>>, synced |-> 1]
  OBVIOUS
<1>3. Table(2, 0) \in FileType /\ Table(2, 0).number = 2
  BY TableTyped
<1>4. e \in EditType /\ e.add = {Table(2, 0)} /\ e.log = 0 /\ e.next = 3 /\ e.last = 1 /\ e # None
  BY <1>2, <1>3, EditTyped
<1>5. n \in {0, 1} /\ DOMAIN logs = {} /\ status = "down"
  BY DBAssumption DEF Init, Empty
<1>6. ASSUME n = 1
      PROVE  /\ CurrentKs = {1} /\ Len(manifests[current].records) = 1
             /\ View(1).files = {Table(2, 0)} /\ View(1).next = 3
             /\ View(1).last = 1 /\ View(1).log = 0 /\ tables[2] = {<<1, 0>>}
             /\ manifests[current].records[1] # None
  <2>1. current = 1 /\ tables = With(Empty, 2, {<<1, 0>>}) /\ manifests = With(Empty, 1, m)
    BY <1>1, <1>2, <1>6
  <2>2. manifests[1] = m /\ tables[2] = {<<1, 0>>}
    BY <2>1 DEF With
  <2>3. m.records = <<e>> /\ m.synced = 1 /\ Len(<<e>>) = 1 /\ <<e>>[1] = e
    BY <1>2
  <2>4. CurrentKs = {1}
    <3>1. Len(m.records) = 1
      BY <2>3
    <3>2. CurrentKs = 1 .. 1
      BY <2>1, <2>2, <2>3, <3>1 DEF CurrentKs, Ks
    <3> QED BY <3>2
  <2>5. PICK v : v = Replay(<<e>>, 1)
    OBVIOUS
  <2>6. v.files = {Table(2, 0)} /\ v.log = 0 /\ v.next = 3 /\ v.last = 1
    BY <1>4, <2>5, ReplayOne
  <2>7. View(1) = v
    BY <2>1, <2>2, <2>3, <2>5 DEF View
  <2> QED BY <1>4, <2>1, <2>2, <2>3, <2>4, <2>6, <2>7
<1> QED BY <1>1, <1>3, <1>5, <1>6

LEMMA SeqInit == Init => SeqInv
<1> SUFFICES ASSUME Init PROVE SeqInv
  OBVIOUS
<1>1. DOMAIN logs = {} /\ current \in {0, 1} /\ status = "down"
  BY InitialDisk
<1>2. CASE current = 0
  BY <1>1, <1>2 DEF SeqInv, SeqOnDisk, SeqOpening, SeqOpen
<1>3. CASE current = 1
  <2>1. /\ CurrentKs = {1} /\ View(1).files = {Table(2, 0)} /\ View(1).next = 3
        /\ View(1).last = 1 /\ Table(2, 0).number = 2 /\ tables[2] = {<<1, 0>>}
    BY <1>3, InitialDisk
  <2>2. \A e : Held(e, View(1).files) <=> e = <<1, 0>>
    BY <2>1 DEF Held
  <2>3. \A e, b : ~Logged(e, b)
    BY <1>1 DEF Logged
  <2>4. \A e \in DiskEntries : e = <<1, 0>>
    BY <2>1, <2>2, <2>3 DEF DiskEntries
  <2>5. <<1, 0>>[1] <= 1
    OBVIOUS
  <2>6. SeqOnDisk
    BY <1>3, <2>1, <2>2, <2>4, <2>5 DEF SeqOnDisk, Unique
  <2> QED BY <1>1, <2>6 DEF SeqInv, SeqOpening, SeqOpen
<1> QED BY <1>1, <1>2, <1>3

LEMMA SeqStutter ==
    ASSUME SeqInv, UNCHANGED vars
    PROVE  SeqInv'
<1>1. UNCHANGED <<current, manifests, logs, tables, status, mem_, imm_, logfile_number_, log_number_,
                  last_sequence_, files_, bg, rec, writing>>
  BY DEF vars, disk, queue, mems, vset, work
<1>2. SeqOnDisk'
  BY <1>1, SameDisk DEF SeqInv
<1>3. SeqOpening'
  BY <1>1 DEF SeqInv, SeqOpening, Held, Logged, InLog
<1>4. SeqOpen'
  BY <1>1 DEF SeqInv, SeqOpen, OpenEntries, Held, Logged, InLog, InImm, Uncommitted, CurrentKs, View
<1> QED BY <1>2, <1>3, <1>4 DEF SeqInv

LEMMA SeqStep == Inv1 /\ Inv1' /\ SeqInv /\ [Next]_vars => SeqInv'
BY SeqLight, SeqFlushFails, SeqOpenOutput, SeqBeginGroup, SeqLogGroup, SeqFinishGroup, SeqSwitch,
   SeqBuilt, SeqRecord, SeqInstalled, SeqCrash, SeqGone, SeqNewDB, SeqRecover, SeqRecoverLog,
   SeqNewManifest, SeqSetCurrent, SeqOpenDone, SeqStutter
DEF Next, Writing, Opening, Recovery, Background, Flushing, Compacting

LEMMA SeqAlways == Spec => []SeqInv
<1>1. Init => SeqInv
  BY SeqInit
<1>2. Inv1 /\ Inv1' /\ SeqInv /\ [Next]_vars => SeqInv'
  BY SeqStep
<1> QED BY <1>1, <1>2, FilesAreInOrder, PTL DEF Spec

LEMMA ContentsAreKnown ==
    ASSUME Inv1, SeqInv, status = "open"
    PROVE  Contents \subseteq OpenEntries
<1>1. SeqOpen /\ logfile_number_ \in DOMAIN logs /\ mem_ \in SUBSET Entries
      /\ (\A n \in DOMAIN logs : n \in Nat)
      /\ (imm_ # None => imm_.entries \in SUBSET Entries)
      /\ FilesTyped(tables, SUBSET Entries)
  BY OpenFacts DEF SeqInv, OpenOK, Inv1, TypeInv, VsetType, DiskType
<1>2. ASSUME NEW e \in mem_ PROVE e \in OpenEntries
  <2>1. Logged(e, 0)
    BY <1>1 DEF SeqOpen, Logged
  <2> QED BY <1>1, <2>1 DEF OpenEntries
<1>3. ASSUME imm_ # None, NEW e \in imm_.entries PROVE e \in OpenEntries
  <2>1. e \in Entries /\ InImm(e)
    BY <1>1, <1>3 DEF InImm
  <2>2. Logged(e, 0)
    BY <1>1, <2>1 DEF SeqOpen, Logged
  <2> QED BY <2>1, <2>2 DEF OpenEntries
<1>4. ASSUME NEW n \in Numbers(files_) \cap DOMAIN tables, NEW e \in tables[n] PROVE e \in OpenEntries
  <2>1. e \in Entries
    BY <1>1 DEF FilesTyped
  <2>2. Held(e, files_)
    BY DEF Numbers, Held
  <2> QED BY <2>1, <2>2 DEF OpenEntries
<1> QED BY <1>2, <1>3, <1>4 DEF Contents

(***************************************************************************)
(* No two writes share a sequence number, and none is visible before its   *)
(* group is committed, whatever failed before: last_sequence_ moves past a *)
(* group whose log record failed, and recovery moves it past everything    *)
(* that a log or a table may hold.                                         *)
(***************************************************************************)
THEOREM SequenceNumbersAreUnique == Spec => []SequenceNumbersUnique
<1>1. Inv1 /\ SeqInv => SequenceNumbersUnique
  <2> SUFFICES ASSUME Inv1, SeqInv, status = "open"
               PROVE  /\ \A d, e \in Contents : d[1] = e[1] => d = e
                      /\ \A e \in Contents :
                            e[1] <= last_sequence_ \/ (writing # None /\ e \in writing.entries)
    BY DEF SequenceNumbersUnique
  <2>1. Contents \subseteq OpenEntries
    BY ContentsAreKnown
  <2>2. SeqOpen
    BY DEF SeqInv
  <2> QED BY <2>1, <2>2 DEF SeqOpen, Unique, Uncommitted
<1> QED BY <1>1, FilesAreInOrder, SeqAlways, PTL

-----------------------------------------------------------------------------
(* Acknowledged writes: what keeps them                                    *)

(* e is in the part of log n that a crash leaves; in one of a log from b on. *)
SyncedIn(e, n) == \E i \in 1 .. logs[n].synced : e \in logs[n].records[i].entries
SyncedFrom(e, b) == \E n \in DOMAIN logs : n >= b /\ SyncedIn(e, n)

(* Any part of the MANIFEST that a crash may leave can be recovered from.  *)
Solid == current # 0 /\ \A k \in CurrentKs : View(k).next # 0

(* The group being written: its members wait, and it is synced if one asks *)
(* for that.                                                               *)
QueueInv ==
    /\ promised \subseteq Entries \X BOOLEAN
    /\ \A i \in 1 .. Len(writers_) : call[writers_[i]].state = "queued"
    /\ \A i, j \in 1 .. Len(writers_) : writers_[i] = writers_[j] => i = j
    /\ writing # None =>
          /\ writing.size \in 1 .. Len(writers_)
          /\ \A e \in writing.entries :
                /\ e[2] \in Writers /\ call[e[2]].state = "queued"
                /\ call[e[2]].kind = "sync" => call[FrontWriter].kind = "sync"
          /\ writing.result = "ok" =>
                /\ writing.entries \subseteq mem_
                /\ call[FrontWriter].kind = "sync" =>
                      \A e \in writing.entries : SyncedIn(e, logfile_number_)
    /\ (\E w \in Writers : call[w].state = "ok") => Solid

(* A table that is to be installed holds what it replaces.                 *)
TablesInv ==
    status = "open" =>
       /\ bg.pc \in {"flush", "flushed"} /\ bg.edit # None =>
             bg.edit.log = logfile_number_ /\ \A e : InImm(e) => Held(e, bg.edit.add)
       /\ bg.pc \in {"apply", "applied"} /\ bg.edit # None =>
             \A e : Held(e, compact.inputs) => Held(e, bg.edit.add)
       /\ bg.pc \in {"flushed", "applied"} => \A k \in CurrentKs : View(k).log = bg.edit.log

LogsWhole == \A n \in DOMAIN logs : \A i \in 1 .. Len(logs[n].records) : logs[n].records[i].ok
ManifestWhole ==
    current # 0 => \A i \in 1 .. Len(manifests[current].records) - 1 :
                      manifests[current].records[i] # None

KeptOnDisk(p) ==
    /\ current # 0
    /\ p[2] => \A k \in CurrentKs :
                  Held(p[1], View(k).files) \/ SyncedFrom(p[1], View(k).log)
    /\ \A k \in CurrentKs : k = Len(manifests[current].records) =>
          Held(p[1], View(k).files) \/ Logged(p[1], View(k).log)

(* Recovery has yet to read e in log n. *)
UnreadIn(e, n) ==
    \E i \in 1 .. Len(logs[n].records) :
       e \in logs[n].records[i].entries /\ (n = ThisLog => rec.read < i)

KeptOpening(p) ==
    /\ status = "recovering" /\ rec.ok =>
          Held(p[1], files_) \/ Held(p[1], rec.add) \/ \E n \in rec.logs : UnreadIn(p[1], n)
    /\ status \in {"manifest", "current"} => Held(p[1], files_ \cup rec.add)

KeptOpen(p) ==
    status = "open" =>
       /\ p[1] \in mem_ \/ InImm(p[1]) \/ Held(p[1], files_)
       /\ p[2] /\ p[1] \in mem_ => SyncedIn(p[1], logfile_number_)
       /\ p[2] /\ InImm(p[1]) => SyncedFrom(p[1], log_number_)

Kept ==
    /\ LogsWhole /\ ManifestWhole
    /\ \A p \in promised : KeptOnDisk(p) /\ KeptOpening(p) /\ KeptOpen(p)
    /\ status = "corrupt" => \A w \in Writers : call[w].state # "ok"
KeptInv == flaws = {} => Kept

-----------------------------------------------------------------------------
(* The queue of writers                                                    *)

LEMMA OpenIsSolid ==
    ASSUME Inv1, status = "open"
    PROVE  Solid
BY OpenFacts DEF Solid, OpenOK, CurrentKs, View

LEMMA OpenIsSolidNext == (Inv1 /\ status = "open" => Solid)'
<1>1. Inv1 /\ status = "open" => Solid
  BY OpenIsSolid
<1> QED BY <1>1, PTL

LEMMA SameManifestSolid ==
    ASSUME Solid, current' = current, manifests'[current] = manifests[current]
    PROVE  Solid'
BY DEF Solid, CurrentKs, View

(* OpenFails deletes the MANIFEST that is not current. *)
LEMMA GoneEffect ==
    ASSUME Inv1, Destroyed \/ OpenFails
    PROVE  /\ status' = "down" /\ UNCHANGED <<current, logs, tables, call, promised, flaws>>
           /\ writers_' = <<>> /\ writing' = None
           /\ current # 0 => manifests'[current] = manifests[current]
<1>1. /\ status' = "down" /\ UNCHANGED <<current, logs, tables, call, promised, flaws>>
      /\ writers_' = <<>> /\ writing' = None
  BY DEF Destroyed, OpenFails, Gone, disk
<1>2. ASSUME current # 0 PROVE manifests'[current] = manifests[current]
  <2>1. CASE manifests' = manifests
    BY <2>1
  <2>2. CASE status = "manifest"
             /\ manifests' = Restricted(manifests, DOMAIN manifests \ {manifest_file_number_})
    <3>1. status \in Opening_
      BY <2>2 DEF Opening_
    <3>2. current < manifest_file_number_ /\ current \in DOMAIN manifests /\ current \in Nat
          /\ manifest_file_number_ \in Nat
      BY <2>2, <3>1, OpeningFacts DEF OpeningOK
    <3> QED BY <2>2, <3>2 DEF Restricted
  <2> QED BY <2>1, <2>2 DEF Destroyed, OpenFails, disk
<1> QED BY <1>1, <1>2

LEMMA SolidKept ==
    ASSUME Inv1, Inv1', SeqInv, Solid, [Next]_vars
    PROVE  Solid'
<1>1. CASE status' = "open"
  BY <1>1, OpenIsSolidNext
<1>2. CASE Crash
  BY <1>2, CrashKeeps DEF Solid, Crash
<1>3. CASE Destroyed \/ OpenFails
  BY <1>3, GoneEffect, SameManifestSolid DEF Solid
<1>4. CASE NewDB
  BY <1>4 DEF NewDB, Solid
<1>5. CASE Recover \/ RecoverTable \/ RecoverLogFile
  BY <1>5, SameManifestSolid DEF Recover, RecoverTable, RecoverLogFile, disk
<1>6. CASE NewLogAndManifest
  BY <1>6, NewManifestEffect, SameManifestSolid
<1>7. CASE SetCurrentFile
  BY <1>7, SetCurrentEffect DEF Solid
<1>8. CASE OpenDone
  BY <1>1, <1>8 DEF OpenDone
<1>9. CASE UNCHANGED vars
  BY <1>9, SameManifestSolid DEF vars, disk
<1>10. CASE \/ \E w \in Writers : \E k \in Kinds[w] : Enqueue(w, k)
            \/ Writing \/ Ref \/ Unref \/ Background \/ ShutDown
  <2>1. status = "open" /\ status' = status
    BY <1>10, OnlyWhenOpen DEF Enqueue, Writing, WriteFails, SwitchMemTable, ForceReturns,
       ForceDone, BeginGroup, LogGroup, FinishGroup, AtFront, Ref, Unref, ShutDown, Background, Flushing, Compacting,
       NothingToDo, Running, StartFlush, FlushBuilt, FlushFails, FlushInstalled, FlushNotInstalled,
       ManifestRecord, StartCompaction, OpenCompactionOutputFile, MergeDone, CompactionInstalled,
       CompactionFails
  <2> QED BY <1>1, <2>1
<1> QED BY <1>2, <1>3, <1>4, <1>5, <1>6, <1>7, <1>8, <1>9, <1>10 DEF Next, Opening

LEMMA QueueFrame ==
    ASSUME QueueInv, UNCHANGED <<call, writers_, writing, promised>>,
           writing # None => /\ UNCHANGED <<mem_, logfile_number_>>
                             /\ logs'[logfile_number_] = logs[logfile_number_],
           Solid => Solid'
    PROVE  QueueInv'
<1>1. writing # None => \A e : SyncedIn(e, logfile_number_)' <=> SyncedIn(e, logfile_number_)
  BY DEF SyncedIn
<1> QED BY <1>1 DEF QueueInv, FrontWriter

(* The writers at the head return; those that stay are still waiting. *)
LEMMA ReturnEffect ==
    ASSUME QueueType, QueueInv, NEW n \in 1 .. Len(writers_), NEW st, Return(n, st)
    PROVE  /\ \A i \in 1 .. Len(writers_') : call'[writers_'[i]].state = "queued"
           /\ \A i, j \in 1 .. Len(writers_') : writers_'[i] = writers_'[j] => i = j
           /\ \A w \in Writers : call'[w].state = "ok" => st = "ok" \/ call[w].state = "ok"
<1>1. writers_ \in Seq(Writers) /\ Len(writers_) \in Nat /\ call \in [Writers -> CallType]
  BY DEF QueueType
<1>2. PICK s : s = SubSeq(writers_, 1, n)
  OBVIOUS
<1>3. Len(s) = n /\ s \in Seq(Writers) /\ \A i \in 1 .. n : s[i] = writers_[i]
  <2>1. \A i \in 1 .. n : writers_[i] \in Writers
    BY <1>1
  <2> QED BY <1>1, <1>2, <2>1, SubSeqProperties
<1>4. Range(s) = {writers_[i] : i \in 1 .. n}
  BY <1>3 DEF Range
<1>5. /\ Len(writers_') = Len(writers_) - n
      /\ \A i \in 1 .. Len(writers_') : writers_'[i] = writers_[n + i] /\ n + i \in 1 .. Len(writers_)
  <2>1. writers_' = SubSeq(writers_, n + 1, Len(writers_))
    BY DEF Return
  <2>2. n + 1 \in 1 .. Len(writers_) + 1 /\ Len(writers_) \in (n + 1) - 1 .. Len(writers_)
    BY <1>1
  <2>3. /\ Len(writers_') = Len(writers_) - (n + 1) + 1
        /\ \A i \in 1 .. Len(writers_) - (n + 1) + 1 : writers_'[i] = writers_[(n + 1) + i - 1]
    BY <1>1, <2>1, <2>2, SubSeqProperties
  <2>4. Len(writers_) - (n + 1) + 1 = Len(writers_) - n
    BY <1>1
  <2> QED BY <1>1, <2>3, <2>4
<1>6. call' = [w \in Writers |-> IF w \in Range(s) THEN [call[w] EXCEPT !.state = Result(w, st)]
                               ELSE call[w]]
  BY <1>2 DEF Return
<1>7. ASSUME NEW i \in 1 .. Len(writers_') PROVE call'[writers_'[i]].state = "queued"
  <2>1. n + i \in 1 .. Len(writers_) /\ writers_'[i] = writers_[n + i] /\ writers_[n + i] \in Writers
    BY <1>1, <1>5
  <2>2. \A j \in 1 .. n : j \in 1 .. Len(writers_) /\ j # n + i
    BY <1>1, <2>1
  <2>3. writers_[n + i] \notin Range(s)
    BY <1>4, <2>1, <2>2 DEF QueueInv
  <2> QED BY <1>6, <2>1, <2>3 DEF QueueInv
<1>8. ASSUME NEW i \in 1 .. Len(writers_'), NEW j \in 1 .. Len(writers_'), writers_'[i] = writers_'[j]
      PROVE  i = j
  <2>1. n + i = n + j
    BY <1>5, <1>8 DEF QueueInv
  <2> QED BY <1>1, <1>5, <2>1
<1>9. ASSUME NEW w \in Writers, call'[w].state = "ok" PROVE st = "ok" \/ call[w].state = "ok"
  <2>1. call'[w] = call[w] \/ call'[w] = [call[w] EXCEPT !.state = Result(w, st)]
    BY <1>6
  <2>2. Result(w, st) = "ok" => st = "ok"
    BY DEF Result
  <2> QED BY <1>1, <1>9, <2>1, <2>2 DEF CallType
<1> QED BY <1>7, <1>8, <1>9

LEMMA QueueEnqueue ==
    ASSUME Inv1, Inv1', SeqInv, QueueInv, NEW w \in Writers, NEW k \in Kinds[w], Enqueue(w, k)
    PROVE  QueueInv'
<1>1. /\ call[w].state = "new"
      /\ call' = [call EXCEPT ![w] = [kind |-> k, state |-> "queued", forced |-> FALSE]]
      /\ writers_' = Append(writers_, w)
      /\ UNCHANGED <<status, writing, promised, mem_, logfile_number_, logs, current, manifests>>
  BY DEF Enqueue, mems, disk
<1>2. writers_ \in Seq(Writers) /\ call \in [Writers -> CallType] /\ Len(writers_) \in Nat
  BY DEF Inv1, TypeInv, QueueType
<1>3. PICK n : n = Len(writers_)
  OBVIOUS
<1>4. /\ Len(writers_') = n + 1 /\ writers_'[n + 1] = w
      /\ \A i \in 1 .. n : writers_'[i] = writers_[i] /\ writers_[i] \in Writers
  BY <1>1, <1>2, <1>3
<1>5. \A v \in Writers : v # w => call'[v] = call[v]
  BY <1>1, <1>2
<1>6. call'[w].state = "queued"
  BY <1>1, <1>2
<1>7. \A i \in 1 .. n : writers_[i] # w
  BY <1>1, <1>3 DEF QueueInv
<1>8. \A i \in 1 .. Len(writers_') : call'[writers_'[i]].state = "queued"
  <2>1. \A i \in 1 .. n : call'[writers_'[i]].state = "queued"
    BY <1>3, <1>4, <1>5, <1>7 DEF QueueInv
  <2> QED BY <1>2, <1>3, <1>4, <1>6, <2>1
<1>9. \A i, j \in 1 .. Len(writers_') : writers_'[i] = writers_'[j] => i = j
  BY <1>2, <1>3, <1>4, <1>7 DEF QueueInv
<1>10. ASSUME writing # None
       PROVE  /\ writing.size \in 1 .. Len(writers_')
              /\ call'[FrontWriter'] = call[FrontWriter]
              /\ \A e \in writing.entries : e[2] \in Writers /\ call'[e[2]] = call[e[2]]
  <2>1. writing.size \in 1 .. n
    BY <1>3, <1>10 DEF QueueInv
  <2>2. writing.size \in 1 .. n + 1 /\ 1 \in 1 .. n
    BY <1>2, <1>3, <2>1
  <2>3. FrontWriter = writers_[1] /\ FrontWriter' = writers_'[1]
    BY <1>2, <1>3, <1>4, <2>2 DEF FrontWriter
  <2>4. call'[FrontWriter'] = call[FrontWriter]
    BY <1>4, <1>5, <1>7, <2>2, <2>3
  <2>5. \A e \in writing.entries : e[2] \in Writers /\ e[2] # w
    BY <1>1, <1>10 DEF QueueInv
  <2> QED BY <1>4, <1>5, <2>2, <2>4, <2>5
<1>11. \A e : SyncedIn(e, logfile_number_)' <=> SyncedIn(e, logfile_number_)
  BY <1>1 DEF SyncedIn
<1>12. writing' # None =>
          /\ writing'.size \in 1 .. Len(writers_')
          /\ \A e \in writing'.entries :
                /\ e[2] \in Writers /\ call'[e[2]].state = "queued"
                /\ call'[e[2]].kind = "sync" => call'[FrontWriter'].kind = "sync"
          /\ writing'.result = "ok" =>
                /\ writing'.entries \subseteq mem_'
                /\ call'[FrontWriter'].kind = "sync" =>
                      \A e \in writing'.entries : SyncedIn(e, logfile_number_)'
  BY <1>1, <1>10, <1>11 DEF QueueInv
<1>13. (\E v \in Writers : call'[v].state = "ok") => Solid'
  <2>1. (\E v \in Writers : call'[v].state = "ok") => (\E v \in Writers : call[v].state = "ok")
    BY <1>5, <1>6
  <2>2. Solid => Solid'
    BY <1>1, SameManifestSolid
  <2> QED BY <2>1, <2>2 DEF QueueInv
<1> QED BY <1>1, <1>8, <1>9, <1>12, <1>13 DEF QueueInv

LEMMA QueueReturns ==
    ASSUME Inv1, Inv1', SeqInv, QueueInv, WriteFails \/ ForceReturns
    PROVE  QueueInv'
<1>1. /\ status = "open" /\ status' = "open" /\ writers_ # <<>> /\ writing = None
      /\ UNCHANGED <<writing, promised>>
  BY DEF WriteFails, ForceReturns, AtFront
<1>2. PICK st : Return(1, st)
  BY DEF WriteFails, ForceReturns
<1>3. QueueType /\ 1 \in 1 .. Len(writers_)
  BY <1>1 DEF Inv1, TypeInv, QueueType
<1>4. /\ \A i \in 1 .. Len(writers_') : call'[writers_'[i]].state = "queued"
      /\ \A i, j \in 1 .. Len(writers_') : writers_'[i] = writers_'[j] => i = j
  BY <1>2, <1>3, ReturnEffect
<1>5. Solid'
  BY <1>1, OpenIsSolidNext
<1> QED BY <1>1, <1>4, <1>5 DEF QueueInv

LEMMA QueueForced ==
    ASSUME Inv1, Inv1', SeqInv, QueueInv, ForceDone
    PROVE  QueueInv'
<1>1. /\ status = "open" /\ status' = "open"
      /\ UNCHANGED <<writers_, writing, promised, logs, mem_, logfile_number_>>
  BY DEF ForceDone, disk, mems
<1>2. Solid'
  BY <1>1, OpenIsSolidNext
<1>3. PICK w, st : w \in Writers /\ call[w].state = "waiting" /\ call' = [call EXCEPT ![w].state = st]
  BY DEF ForceDone
<1>4. call \in [Writers -> CallType] /\ \A i \in 1 .. Len(writers_) : writers_[i] \in Writers
  BY DEF Inv1, TypeInv, QueueType
<1>5. \A v \in Writers : call'[v].kind = call[v].kind /\ (call[v].state = "queued" => call'[v] = call[v])
  BY <1>3, <1>4 DEF CallType
<1>6. \A i \in 1 .. Len(writers_) : call'[writers_[i]].state = "queued"
  BY <1>4, <1>5 DEF QueueInv
<1>7. writing # None => FrontWriter \in Writers
  <2>1. writing # None => 1 \in 1 .. Len(writers_)
    BY DEF QueueInv, Inv1, TypeInv, QueueType
  <2> QED BY <1>4, <2>1 DEF FrontWriter
<1>8. FrontWriter' = FrontWriter /\ \A e : SyncedIn(e, logfile_number_)' <=> SyncedIn(e, logfile_number_)
  BY <1>1 DEF FrontWriter, SyncedIn
<1> QED BY <1>1, <1>2, <1>5, <1>6, <1>7, <1>8 DEF QueueInv

LEMMA QueueSwitch ==
    ASSUME Inv1, Inv1', SeqInv, QueueInv, SwitchMemTable
    PROVE  QueueInv'
<1>1. /\ status = "open" /\ status' = "open" /\ writing = None /\ writers_ # <<>>
      /\ UNCHANGED <<writers_, writing, promised>>
      /\ call' = [call EXCEPT ![FrontWriter].forced = TRUE]
  BY DEF SwitchMemTable, AtFront
<1>2. writers_ \in Seq(Writers) /\ call \in [Writers -> CallType]
  BY DEF Inv1, TypeInv, QueueType
<1>3. \A w \in Writers : call'[w].state = call[w].state
  BY <1>1, <1>2 DEF CallType
<1>4. Solid'
  BY <1>1, OpenIsSolidNext
<1> QED BY <1>1, <1>2, <1>3, <1>4 DEF QueueInv

LEMMA QueueBegin ==
    ASSUME Inv1, Inv1', SeqInv, QueueInv, BeginGroup
    PROVE  QueueInv'
<1>1. /\ status = "open" /\ status' = "open" /\ writing = None /\ writers_ # <<>>
      /\ UNCHANGED <<writers_, call, promised>>
      /\ writing'.size = GroupSize /\ writing'.result = "unlogged"
      /\ writing'.entries = {<<last_sequence_ + Cardinality(Batches(i)), writers_[i]>> :
                                i \in Batches(GroupSize)}
  BY DEF BeginGroup, AtFront
<1>2. writers_ \in Seq(Writers) /\ call \in [Writers -> CallType] /\ Len(writers_) \in Nat
  BY DEF Inv1, TypeInv, QueueType
<1>3. GroupSize \in 1 .. Len(writers_) /\ GroupOf(GroupSize)
  BY <1>1, <1>2, GroupSizeOK
<1>4. FrontWriter = writers_[1] /\ FrontWriter' = FrontWriter
  BY <1>1, <1>2 DEF FrontWriter
<1>5. ASSUME NEW e \in writing'.entries
      PROVE  /\ e[2] \in Writers /\ call'[e[2]].state = "queued"
             /\ call'[e[2]].kind = "sync" => call'[FrontWriter'].kind = "sync"
  <2>1. PICK i \in Batches(GroupSize) : e = <<last_sequence_ + Cardinality(Batches(i)), writers_[i]>>
    BY <1>1
  <2>2. i \in 1 .. Len(writers_) /\ i \in 1 .. GroupSize
    BY <1>2, <1>3 DEF Batches
  <2>3. e[2] = writers_[i] /\ writers_[i] \in Writers
    BY <1>2, <2>1, <2>2
  <2>4. call[writers_[i]].state = "queued"
    BY <2>2 DEF QueueInv
  <2>5. call[writers_[i]].kind = "sync" => call[FrontWriter].kind = "sync"
    <3>1. CASE i = 1
      BY <1>4, <3>1
    <3>2. CASE i # 1
      <4>1. i \in 2 .. GroupSize
        BY <1>2, <1>3, <2>2, <3>2
      <4> QED BY <1>3, <4>1 DEF GroupOf
    <3> QED BY <3>1, <3>2
  <2> QED BY <1>1, <1>4, <2>3, <2>4, <2>5
<1>6. Solid'
  BY <1>1, OpenIsSolidNext
<1> QED BY <1>1, <1>3, <1>5, <1>6 DEF QueueInv

(* AddRecord and Sync: a group that is logged is in the memtable, and one  *)
(* that asked for a sync is in the part of the log that a crash leaves.    *)
LEMMA LogGroupSyncs ==
    ASSUME Inv1, LogGroup
    PROVE  /\ \A e : \A n \in DOMAIN logs : SyncedIn(e, n) => SyncedIn(e, n)'
           /\ writing'.result = "ok" => /\ mem_' = mem_ \cup writing.entries
                                        /\ call[FrontWriter].kind = "sync" =>
                                             \A e \in writing.entries : SyncedIn(e, logfile_number_)'
           /\ writing'.size = writing.size
           /\ UNCHANGED <<call, writers_, promised>>
           /\ flaws \subseteq flaws' /\ (flaws' = {} /\ LogsWhole => LogsWhole')
<1>1. status = "open" /\ writing # None /\ writing.result = "unlogged"
  BY OnlyWhenOpen DEF LogGroup
<1>2. writing \in WritingType /\ writing.entries \in SUBSET Entries
  BY <1>1 DEF Inv1, TypeInv, QueueType, WritingType
<1>3. logfile_number_ \in DOMAIN logs /\ logs[logfile_number_] \in LogType
      /\ FilesTyped(logs, LogType)
  BY <1>1, OpenFacts DEF OpenOK, Inv1, TypeInv, DiskType, FilesTyped
<1>4. PICK n, E, log : n = logfile_number_ /\ E = writing.entries /\ log = logs[n]
  OBVIOUS
<1>5. PICK ok \in BOOLEAN, s \in BOOLEAN :
         /\ logs' = [logs EXCEPT ![n] = IF s THEN Synced(Append1(log, ok)) ELSE Append1(log, ok)]
         /\ writing'.result = "ok" => /\ mem_' = mem_ \cup writing.entries
                                      /\ call[FrontWriter].kind = "sync" => s
         /\ flaws \subseteq flaws' /\ (~ok => "torn log" \in flaws')
  <2>1. CASE mem_' = mem_ \cup writing.entries
             /\ logs' = [logs EXCEPT ![n] = IF call[FrontWriter].kind = "sync"
                                            THEN Synced(Append1(log, TRUE)) ELSE Append1(log, TRUE)]
             /\ UNCHANGED flaws
    <3>1. (call[FrontWriter].kind = "sync") \in BOOLEAN
      OBVIOUS
    <3> QED BY <2>1, <3>1
  <2>2. CASE logs' = [logs EXCEPT ![n] = Append1(log, FALSE)]
             /\ writing' = [writing EXCEPT !.result = "failed"] /\ flaws' = flaws \cup {"torn log"}
    <3>1. writing'.result # "ok"
      BY <1>2, <2>2 DEF WritingType
    <3> QED BY <2>2, <3>1
  <2>3. CASE logs' = [logs EXCEPT ![n] = Append1(log, TRUE)]
             /\ writing' = [writing EXCEPT !.result = "sync error"] /\ UNCHANGED flaws
    <3>1. writing'.result # "ok"
      BY <1>2, <2>3 DEF WritingType
    <3> QED BY <2>3, <3>1
  <2> QED BY <1>4, <2>1, <2>2, <2>3 DEF LogGroup
<1>6. PICK r : r = [entries |-> E, ok |-> ok]
  OBVIOUS
<1>7. PICK q : q = [log EXCEPT !.records = Append(@, [entries |-> E, ok |-> ok])]
  OBVIOUS
<1>8. q = Append1(log, ok)
  BY <1>4, <1>7 DEF Append1
<1>9. /\ q \in LogType /\ Synced(q) \in LogType /\ q.synced = log.synced
      /\ q.records = Append(log.records, r)
      /\ Synced(q).records = Append(log.records, r)
      /\ Synced(q).synced = Len(log.records) + 1
  <2>1. log \in LogType /\ E \in SUBSET Entries
    BY <1>2, <1>3, <1>4
  <2>2. /\ q \in LogType /\ Synced(q) \in LogType
        /\ q.records = Append(log.records, [entries |-> E, ok |-> ok])
        /\ Synced(q).records = Append(log.records, [entries |-> E, ok |-> ok])
    BY <1>7, <2>1, AppendLog, ZenonT(30)
  <2>3. q.synced = log.synced
    BY <1>7, <2>1, AppendLog
  <2>4. Synced(q).synced = Len(log.records) + 1
    BY <1>7, <2>1, AppendLog
  <2> QED BY <1>6, <2>2, <2>3, <2>4
<1>10. PICK g : g = IF s THEN Synced(q) ELSE q
  OBVIOUS
<1>11. /\ logs'[n] = g
       /\ \A x \in DOMAIN logs : x # n => logs'[x] = logs[x]
  <2>1. logs' = [logs EXCEPT ![n] = g]
    BY <1>5, <1>8, <1>10
  <2> QED BY <1>3, <1>4, <2>1
<1>12. log.records \in LogRecords /\ Len(log.records) \in Nat /\ log.synced \in Nat
       /\ log.synced <= Len(log.records)
  BY <1>3, <1>4 DEF LogType, LogRecords
<1>13. /\ Len(g.records) = Len(log.records) + 1
       /\ \A i \in 1 .. Len(log.records) : g.records[i] = log.records[i]
       /\ g.records[Len(log.records) + 1] = r
  BY <1>9, <1>10, <1>12 DEF LogRecords
<1>14. /\ g.synced \in Nat /\ g.synced >= log.synced
       /\ s => g.synced = Len(log.records) + 1
  <2>1. CASE s
    BY <1>9, <1>10, <1>12, <2>1
  <2>2. CASE ~s
    BY <1>9, <1>10, <1>12, <2>2
  <2> QED BY <2>1, <2>2
<1>15. ASSUME NEW e, SyncedIn(e, n) PROVE SyncedIn(e, n)'
  <2>1. PICK i \in 1 .. log.synced : e \in log.records[i].entries
    BY <1>4, <1>15 DEF SyncedIn
  <2>2. i \in 1 .. g.synced /\ g.records[i] = log.records[i]
    BY <1>12, <1>13, <1>14
  <2> QED BY <1>11, <2>1, <2>2 DEF SyncedIn
<1>16. ASSUME s, NEW e \in E PROVE SyncedIn(e, n)'
  <2>1. Len(log.records) + 1 \in 1 .. g.synced /\ r.entries = E
    BY <1>6, <1>12, <1>14, <1>16
  <2> QED BY <1>11, <1>13, <1>16, <2>1 DEF SyncedIn
<1>17. \A e : \A x \in DOMAIN logs : SyncedIn(e, x) => SyncedIn(e, x)'
  <2>1. \A e : \A x \in DOMAIN logs : x # n => (SyncedIn(e, x) => SyncedIn(e, x)')
    BY <1>11 DEF SyncedIn
  <2> QED BY <1>15, <2>1
<1>18. UNCHANGED <<call, writers_, promised, logfile_number_>>
  BY DEF LogGroup
<1>19. writing'.size = writing.size
  <2>1. PICK x \in {"ok", "failed", "sync error"} : writing' = [writing EXCEPT !.result = x]
    BY DEF LogGroup
  <2> QED BY <1>2, <2>1 DEF WritingType
<1>20. writing'.result = "ok" => /\ mem_' = mem_ \cup writing.entries
                                 /\ call[FrontWriter].kind = "sync" =>
                                      \A e \in writing.entries : SyncedIn(e, logfile_number_)'
  <2>1. \A e : SyncedIn(e, n)' <=> SyncedIn(e, logfile_number_)'
    BY <1>4, <1>18
  <2> QED BY <1>4, <1>5, <1>16, <2>1
<1>21. ASSUME flaws' = {}, LogsWhole PROVE LogsWhole'
  <2>1. r.ok
    BY <1>5, <1>6, <1>21
  <2>2. \A i \in 1 .. Len(g.records) : g.records[i].ok
    BY <1>3, <1>4, <1>12, <1>13, <1>21, <2>1, SMTT(30) DEF LogsWhole
  <2>3. DOMAIN logs' = DOMAIN logs
    BY <1>5
  <2> QED BY <1>11, <1>21, <2>2, <2>3 DEF LogsWhole
<1> QED BY <1>5, <1>17, <1>18, <1>19, <1>20, <1>21

LEMMA QueueLog ==
    ASSUME Inv1, Inv1', SeqInv, QueueInv, LogGroup
    PROVE  QueueInv'
<1>1. /\ status = "open" /\ writing # None /\ status' = "open" /\ logfile_number_ \in DOMAIN logs
      /\ writing'.entries = writing.entries /\ writing' # None
  BY LogGroupEffect
<1>2. /\ writing'.result = "ok" => /\ mem_' = mem_ \cup writing.entries
                                   /\ call[FrontWriter].kind = "sync" =>
                                        \A e \in writing.entries : SyncedIn(e, logfile_number_)'
      /\ writing'.size = writing.size
      /\ UNCHANGED <<call, writers_, promised>>
  BY LogGroupSyncs
<1>3. Solid'
  BY <1>1, OpenIsSolidNext
<1> QED BY <1>1, <1>2, <1>3 DEF QueueInv, FrontWriter

LEMMA FinishGroupEffect ==
    ASSUME Inv1, QueueInv, FinishGroup
    PROVE  /\ status = "open" /\ status' = "open" /\ writing # None /\ writing' = None
           /\ UNCHANGED <<current, manifests, logs, tables, mem_, imm_, logfile_number_, log_number_,
                          files_, bg, flaws, rec, compact>>
           /\ promised' \subseteq Entries \X BOOLEAN
           /\ \A p \in promised' : \/ p \in promised
                                   \/ /\ writing.result = "ok" /\ p[1] \in writing.entries
                                      /\ p[1] \in mem_
                                      /\ p[2] => SyncedIn(p[1], logfile_number_)
<1>1. /\ status = "open" /\ status' = "open" /\ writing # None /\ writing' = None
      /\ UNCHANGED <<current, manifests, logs, tables, mem_, imm_, logfile_number_, log_number_,
                     files_, bg, flaws, rec, compact>>
      /\ promised' = promised \cup
          IF writing.result = "ok"
          THEN {<<e, call[e[2]].kind = "sync">> : e \in writing.entries} ELSE {}
  BY OnlyWhenOpen DEF FinishGroup, disk, mems
<1>2. writing.entries \in SUBSET Entries
  BY <1>1 DEF Inv1, TypeInv, QueueType, WritingType
<1>3. ASSUME NEW p \in promised', p \notin promised
      PROVE  /\ p \in Entries \X BOOLEAN
             /\ writing.result = "ok" /\ p[1] \in writing.entries
             /\ p[1] \in mem_
             /\ p[2] => SyncedIn(p[1], logfile_number_)
  <2>1. PICK e \in writing.entries : p = <<e, call[e[2]].kind = "sync">>
    BY <1>1, <1>3
  <2>2. writing.result = "ok"
    BY <1>1, <1>3
  <2>3. PICK b \in BOOLEAN : b = (call[e[2]].kind = "sync")
    OBVIOUS
  <2>4. p = <<e, b>> /\ p[1] = e /\ p[2] = b
    BY <2>1, <2>3
  <2>5. e \in mem_ /\ (call[e[2]].kind = "sync" => SyncedIn(e, logfile_number_))
    BY <1>1, <2>2 DEF QueueInv
  <2>6. p \in Entries \X BOOLEAN
    BY <1>2, <2>3, <2>4
  <2> QED BY <2>2, <2>3, <2>4, <2>5, <2>6
<1>4. promised' \subseteq Entries \X BOOLEAN
  BY <1>3 DEF QueueInv
<1> QED BY <1>1, <1>3, <1>4

LEMMA QueueFinish ==
    ASSUME Inv1, Inv1', SeqInv, QueueInv, FinishGroup
    PROVE  QueueInv'
<1>1. /\ status' = "open" /\ writing # None /\ writing' = None
      /\ promised' \subseteq Entries \X BOOLEAN
  BY FinishGroupEffect
<1>2. PICK st : Return(writing.size, st)
  BY DEF FinishGroup
<1>3. QueueType /\ writing.size \in 1 .. Len(writers_)
  BY <1>1 DEF Inv1, TypeInv, QueueInv
<1>4. /\ \A i \in 1 .. Len(writers_') : call'[writers_'[i]].state = "queued"
      /\ \A i, j \in 1 .. Len(writers_') : writers_'[i] = writers_'[j] => i = j
  BY <1>2, <1>3, ReturnEffect
<1>5. Solid'
  BY <1>1, OpenIsSolidNext
<1> QED BY <1>1, <1>4, <1>5 DEF QueueInv

LEMMA QueueCrash ==
    ASSUME Inv1, Inv1', SeqInv, QueueInv, Crash \/ Destroyed \/ OpenFails, Solid => Solid'
    PROVE  QueueInv'
<1>1. writers_' = <<>> /\ writing' = None
  BY GoneEffect DEF Crash, Gone
<1>2. promised' \subseteq promised
  BY GoneEffect DEF Crash
<1>3. \A w \in Writers : call'[w].state = "ok" => call[w].state = "ok"
  <2>1. CASE Crash
    <3>1. call \in [Writers -> CallType]
      BY DEF Inv1, TypeInv, QueueType
    <3>2. ASSUME NEW w \in Writers PROVE call'[w].state = "ok" => call[w].state = "ok"
      BY <2>1, <3>1 DEF Crash, CallType
    <3> QED BY <3>2
  <2>2. CASE Destroyed \/ OpenFails
    BY <2>2, GoneEffect
  <2> QED BY <2>1, <2>2
<1>4. Len(writers_') = 0
  BY <1>1
<1> QED BY <1>1, <1>2, <1>3, <1>4 DEF QueueInv

LEMMA QueueStep == Inv1 /\ Inv1' /\ SeqInv /\ QueueInv /\ [Next]_vars => QueueInv'
<1> SUFFICES ASSUME Inv1, Inv1', SeqInv, QueueInv, [Next]_vars PROVE QueueInv'
  OBVIOUS
<1>1. Solid => Solid'
  BY SolidKept
<1>2. CASE NothingToDo \/ Flushing \/ ManifestRecord \/ Compacting \/ Ref \/ Unref \/ ShutDown
  <2>1. UNCHANGED <<call, writers_, writing, promised, mem_, logfile_number_>>
    BY <1>2 DEF NothingToDo, Flushing, Compacting, StartFlush, FlushBuilt, FlushFails, FlushInstalled,
       FlushNotInstalled, ManifestRecord, StartCompaction, OpenCompactionOutputFile, MergeDone,
       CompactionInstalled, CompactionFails, Ref, Unref, ShutDown, queue, mems
  <2>2. CASE logs' = logs
    BY <1>1, <2>1, <2>2, QueueFrame
  <2>3. CASE FlushInstalled \/ CompactionInstalled
    <3>1. /\ status' = "open" /\ \A n \in DOMAIN logs' : logs'[n] = logs[n]
      BY <2>3, InstalledEffect
    <3>2. logfile_number_ \in DOMAIN logs'
      BY <2>1, <3>1 DEF Inv1, Struct, OpenOK
    <3> QED BY <1>1, <2>1, <3>1, <3>2, QueueFrame
  <2> QED BY <1>2, <2>2, <2>3 DEF NothingToDo, Flushing, Compacting, StartFlush, FlushBuilt, FlushFails,
             FlushNotInstalled, ManifestRecord, StartCompaction, OpenCompactionOutputFile, MergeDone,
             CompactionFails, Ref, Unref, ShutDown, disk
<1>3. CASE NewDB \/ Recover \/ NewLogAndManifest \/ SetCurrentFile \/ OpenDone
  <2>1. UNCHANGED <<call, writers_, writing, promised>> /\ status # "open"
    BY <1>3 DEF NewDB, Recover, NewLogAndManifest, SetCurrentFile, OpenDone, queue
  <2>2. writing = None
    BY <2>1, OnlyWhenOpen
  <2> QED BY <1>1, <2>1, <2>2, QueueFrame
<1>4. CASE UNCHANGED vars
  BY <1>1, <1>4, QueueFrame DEF vars, disk, queue, mems
<1>5. CASE Recovery
  <2>1. UNCHANGED <<call, writers_, writing>> /\ status # "open"
    BY <1>5 DEF Recovery, RecoverTable, RecoverLogFile, Recovering, queue
  <2>2. writing = None
    BY <2>1, OnlyWhenOpen
  <2>3. promised' \subseteq promised
    BY <1>5, RecoveredRec
  <2> QED BY <1>1, <2>1, <2>2, <2>3 DEF QueueInv
<1> QED BY <1>1, <1>2, <1>3, <1>4, <1>5, QueueEnqueue, QueueReturns, QueueForced, QueueSwitch, QueueBegin,
           QueueLog, QueueFinish, QueueCrash
    DEF Next, Writing, Background, Opening, Recovery

LEMMA QueueInit == Init => QueueInv
<1> SUFFICES ASSUME Init PROVE QueueInv
  OBVIOUS
<1>1. promised = {} /\ writers_ = <<>> /\ writing = None
      /\ call = [w \in Writers |-> [kind |-> "put", state |-> "new", forced |-> FALSE]]
  BY DEF Init
<1>2. Len(writers_) = 0 /\ \A w \in Writers : call[w].state = "new"
  BY <1>1
<1> QED BY <1>1, <1>2 DEF QueueInv

-----------------------------------------------------------------------------
(* The tables that the background thread installs                          *)

LEMMA NoEditTables ==
    ASSUME Inv1', status' # "open" \/ bg'.edit = None
    PROVE  TablesInv'
<1>1. status' = "open" /\ bg'.edit = None => bg'.pc \notin {"flushed", "applied"}
  BY DEF Inv1, Struct, BackgroundOK
<1> QED BY <1>1 DEF TablesInv

LEMMA TablesFrame ==
    ASSUME TablesInv, UNCHANGED <<status, current, manifests, tables, bg, compact>>,
           UNCHANGED <<imm_, logfile_number_>> \/ bg.pc \notin {"flush", "flushed"}
    PROVE  TablesInv'
<1>1. CurrentKs' = CurrentKs /\ \A k \in CurrentKs : View(k)' = View(k)
  BY DEF CurrentKs, View
<1>2. /\ \A e : (Held(e, bg.edit.add))' <=> Held(e, bg.edit.add)
      /\ \A e : (Held(e, compact.inputs))' <=> Held(e, compact.inputs)
  BY DEF Held
<1>3. bg.pc \in {"flush", "flushed"} => logfile_number_' = logfile_number_ /\ \A e : InImm(e)' <=> InImm(e)
  BY DEF InImm
<1> QED BY <1>1, <1>2, <1>3 DEF TablesInv

LEMMA TablesWriters ==
    ASSUME Inv1, Inv1', TablesInv,
           \/ Writing \/ Ref \/ Unref \/ ShutDown
           \/ \E w \in Writers : \E k \in Kinds[w] : Enqueue(w, k)
    PROVE  TablesInv'
<1>1. UNCHANGED <<status, current, manifests, tables, bg, compact>>
  BY DEF Writing, WriteFails, SwitchMemTable, ForceReturns, ForceDone, BeginGroup, LogGroup, FinishGroup, Ref,
     Unref, ShutDown, Enqueue, disk, work
<1>2. CASE SwitchMemTable
  <2>1. status = "open" /\ imm_ = None
    BY <1>2, SwitchEffect
  <2>2. bg.pc \notin {"flush", "flushed"}
    BY <2>1, OpenFacts DEF BackgroundOK
  <2> QED BY <1>1, <2>2, TablesFrame
<1>3. CASE ~SwitchMemTable
  <2>1. UNCHANGED <<imm_, logfile_number_>>
    BY <1>3 DEF Writing, WriteFails, ForceReturns, ForceDone, BeginGroup, LogGroup, FinishGroup, Ref,
       Unref, ShutDown, Enqueue, mems
  <2> QED BY <1>1, <2>1, TablesFrame
<1> QED BY <1>2, <1>3

LEMMA TablesBuilt ==
    ASSUME Inv1, Inv1', TablesInv, FlushBuilt \/ MergeDone
    PROVE  TablesInv'
<1>1. CASE FlushBuilt
  <2>1. /\ UNCHANGED <<imm_, logfile_number_>> /\ bg'.pc = "flush"
        /\ bg'.edit.log = logfile_number_
        /\ \A e : (Held(e, bg.edit.add))' <=> InImm(e)
    BY <1>1, FlushBuiltEffect
  <2>2. \A e : InImm(e)' <=> InImm(e)
    BY <2>1 DEF InImm
  <2> QED BY <2>1, <2>2 DEF TablesInv
<1>2. CASE MergeDone
  <2>1. /\ status = "open" /\ compact # None /\ compact.inputs \subseteq files_ /\ compact' = compact
        /\ \A n \in KnownTables : tables'[n] = tables[n] /\ bg'.pc = "apply"
        /\ \A e : (Held(e, bg.edit.add))' <=> Held(e, compact.inputs)
    <3>1. bg'.pc = "apply"
      BY <1>2, MergeDoneEffect
    <3> QED BY <1>2, <3>1, MergeDoneEffect
  <2>2. \A n \in Numbers(compact.inputs) : tables'[n] = tables[n]
    BY <2>1 DEF KnownTables, Numbers
  <2>3. \A e : (Held(e, compact.inputs))' <=> Held(e, compact.inputs)
    BY <2>1, <2>2 DEF Held, Numbers
  <2>4. bg'.pc = "apply"
    BY <1>2, MergeDoneEffect
  <2> QED BY <2>1, <2>3, <2>4 DEF TablesInv
<1> QED BY <1>1, <1>2

LEMMA TablesRecord ==
    ASSUME Inv1, Inv1', TablesInv, ManifestRecord
    PROVE  TablesInv'
<1>1. status = "open" /\ bg.pc \in {"flush", "apply"} /\ bg.edit # None
  BY RecordEffect
<1>2. UNCHANGED <<status, tables, imm_, logfile_number_, compact>>
  BY DEF ManifestRecord, mems
<1>3. CASE bg'.edit = None
  BY <1>3, NoEditTables
<1>4. CASE bg'.edit # None
  <2>1. PICK n \in Nat :
           /\ bg'.edit = bg.edit /\ CurrentKs' = {n + 1}
           /\ bg'.pc = (IF bg.pc = "flush" THEN "flushed" ELSE "applied")
           /\ Applied(View(n + 1)', View(n), bg.edit)
    BY <1>4, RecordEffect
  <2>2. \A k \in CurrentKs' : View(k)'.log = bg'.edit.log
    BY <2>1 DEF Applied
  <2>3. /\ \A e : (Held(e, bg.edit.add))' <=> Held(e, bg.edit.add)
        /\ \A e : (Held(e, compact.inputs))' <=> Held(e, compact.inputs)
        /\ \A e : InImm(e)' <=> InImm(e)
    BY <1>2, <2>1 DEF Held, InImm
  <2>4. CASE bg.pc = "flush"
    <3>1. bg.edit.log = logfile_number_ /\ \A e : InImm(e) => Held(e, bg.edit.add)
      BY <1>1, <2>4 DEF TablesInv
    <3>2. bg'.pc = "flushed" /\ bg'.edit.log = logfile_number_'
      BY <1>2, <2>1, <2>4, <3>1
    <3> QED BY <2>2, <2>3, <3>1, <3>2 DEF TablesInv
  <2>5. CASE bg.pc = "apply"
    <3>1. \A e : Held(e, compact.inputs) => Held(e, bg.edit.add)
      BY <1>1, <2>5 DEF TablesInv
    <3>2. bg'.pc = "applied"
      BY <2>1, <2>5
    <3> QED BY <2>2, <2>3, <3>1, <3>2 DEF TablesInv
  <2> QED BY <1>1, <2>4, <2>5
<1> QED BY <1>3, <1>4

LEMMA TablesStep == Inv1 /\ Inv1' /\ TablesInv /\ [Next]_vars => TablesInv'
<1> SUFFICES ASSUME Inv1, Inv1', TablesInv, [Next]_vars PROVE TablesInv'
  OBVIOUS
<1>1. ASSUME \/ NothingToDo \/ StartFlush \/ FlushFails \/ FlushNotInstalled
             \/ FlushInstalled \/ StartCompaction \/ CompactionInstalled \/ CompactionFails
      PROVE  bg'.edit = None
  <2>1. ASSUME bg' = Idle \/ bg' = [pc |-> "merge", number |-> 0, edit |-> None]
        PROVE  bg'.edit = None
    BY <2>1 DEF Idle
  <2>2. CASE FlushNotInstalled \/ FlushFails \/ FlushInstalled
    BY <2>1, <2>2 DEF FlushNotInstalled, FlushFails, FlushInstalled, AfterFlush, EndCall
  <2>3. CASE StartFlush
    BY <2>3 DEF StartFlush
  <2>4. CASE NothingToDo \/ StartCompaction \/ CompactionFails \/ CompactionInstalled
    BY <2>1, <2>4 DEF NothingToDo, StartCompaction, CompactionFails, CompactionInstalled, EndCall
  <2> QED BY <1>1, <2>2, <2>3, <2>4
<1>2. ASSUME OpenCompactionOutputFile PROVE bg'.edit = None
  <2>1. bg.pc = "merge" /\ bg' = bg /\ status = "open"
    BY <1>2, OnlyWhenOpen DEF OpenCompactionOutputFile
  <2>2. bg.edit = None
    BY <2>1, OpenFacts DEF BackgroundOK
  <2> QED BY <2>1, <2>2
<1>3. ASSUME Crash \/ Destroyed PROVE bg'.edit = None
  BY <1>3 DEF Crash, Destroyed, Gone, Idle
<1>4. ASSUME Opening PROVE bg'.edit = None \/ status' # "open"
  <2>1. CASE OpenDone
    <3>1. bg' = bg /\ bg.edit = None
      BY <2>1, OpenDoneEffect
    <3> QED BY <3>1
  <2>2. CASE OpenFails
    BY <2>2 DEF OpenFails, Gone
  <2> QED BY <1>4, <2>1, <2>2 DEF Opening, NewDB, Recover, RecoverTable, RecoverLogFile,
             Recovering, NewLogAndManifest, SetCurrentFile
<1>5. CASE UNCHANGED vars
  BY <1>5, TablesFrame DEF vars, disk, mems, work
<1>6. CASE Background
  BY <1>1, <1>2, <1>6, NoEditTables, TablesBuilt, TablesRecord DEF Background, Flushing, Compacting
<1>7. CASE Crash \/ Destroyed \/ Opening
  BY <1>3, <1>4, <1>7, NoEditTables
<1> QED BY <1>5, <1>6, <1>7, TablesWriters DEF Next

LEMMA TablesInit == Init => TablesInv
BY DEF Init, TablesInv

-----------------------------------------------------------------------------
(* Acknowledged writes: what a step must leave alone                       *)

(* Log n stays, with what it had and what of it was safe. *)
LogKept(n) ==
    /\ n \in DOMAIN logs'
    /\ \A e : (SyncedIn(e, n) => SyncedIn(e, n)') /\ (InLog(e, n) => InLog(e, n)')

LEMMA SameLogKept ==
    ASSUME NEW n, n \in DOMAIN logs', logs'[n] = logs[n]
    PROVE  LogKept(n)
BY DEF LogKept, SyncedIn, InLog

LEMMA SameLogs ==
    ASSUME logs' = logs
    PROVE  /\ \A n \in DOMAIN logs : LogKept(n)
           /\ LogsWhole => LogsWhole'
BY SameLogKept DEF LogsWhole

LEMMA SameManifest ==
    ASSUME current' = current, current # 0 => manifests'[current] = manifests[current], ManifestWhole
    PROVE  ManifestWhole'
BY DEF ManifestWhole

LEMMA PromisedTyped ==
    ASSUME QueueInv, NEW p \in promised
    PROVE  p[1] \in Entries /\ p[2] \in BOOLEAN
BY DEF QueueInv

LEMMA DiskKept ==
    ASSUME NEW p, KeptOnDisk(p), current' = current, manifests'[current] = manifests[current],
           \A k \in CurrentKs : Held(p[1], View(k).files) => (Held(p[1], View(k).files))',
           \A k \in CurrentKs : \A n \in DOMAIN logs : n >= View(k).log => LogKept(n)
    PROVE  KeptOnDisk(p)'
<1>1. CurrentKs' = CurrentKs /\ \A k \in CurrentKs : View(k)' = View(k)
  BY DEF CurrentKs, View
<1>2. ASSUME NEW k \in CurrentKs
      PROVE  /\ SyncedFrom(p[1], View(k).log) => (SyncedFrom(p[1], View(k).log))'
             /\ Logged(p[1], View(k).log) => (Logged(p[1], View(k).log))'
  BY <1>1 DEF SyncedFrom, Logged, LogKept
<1>3. current' # 0 /\ manifests'[current'] = manifests[current]
  BY DEF KeptOnDisk
<1> QED BY <1>1, <1>2, <1>3 DEF KeptOnDisk

(* Steps of an open database that add to the tables only. *)
LEMMA KeptFrame ==
    ASSUME Inv1, QueueInv, Kept, status = "open", status' = "open",
           UNCHANGED <<current, manifests, logs, mem_, imm_, logfile_number_, log_number_, files_,
                       promised>>,
           \A n \in KnownTables : tables'[n] = tables[n]
    PROVE  Kept'
<1>1. /\ \A k \in CurrentKs : \A e \in Entries :
            (Held(e, View(k).files))' <=> Held(e, View(k).files)
  BY KnownHeld
<1>2. \A e : Held(e, files_)' <=> Held(e, files_)
  BY DEF Held, KnownTables, Numbers
<1>3. LogsWhole' /\ ManifestWhole' /\ \A n \in DOMAIN logs : LogKept(n)
  BY SameLogs, SameManifest DEF Kept
<1>4. ASSUME NEW p \in promised PROVE KeptOnDisk(p)' /\ KeptOpen(p)'
  <2>1. p[1] \in Entries /\ KeptOnDisk(p) /\ KeptOpen(p)
    BY PromisedTyped DEF Kept
  <2>2. KeptOnDisk(p)'
    BY <1>1, <1>3, <2>1, DiskKept
  <2>3. KeptOpen(p)'
    BY <1>2, <2>1 DEF KeptOpen, InImm, SyncedIn, SyncedFrom
  <2> QED BY <2>2, <2>3
<1> QED BY <1>3, <1>4 DEF Kept, KeptOpening

LEMMA KeptLight ==
    ASSUME Inv1, QueueInv, Kept,
           \/ WriteFails \/ ForceReturns \/ ForceDone \/ BeginGroup \/ Ref \/ Unref \/ ShutDown \/ NothingToDo
           \/ StartFlush \/ FlushNotInstalled \/ StartCompaction \/ CompactionFails
           \/ FlushFails \/ OpenCompactionOutputFile \/ FlushBuilt \/ MergeDone
           \/ \E w \in Writers : \E k \in Kinds[w] : Enqueue(w, k)
    PROVE  Kept'
<1>1. status = "open"
  BY OnlyWhenOpen DEF WriteFails, ForceReturns, ForceDone, BeginGroup, AtFront, Ref, Unref, ShutDown, NothingToDo,
     Running, StartFlush, FlushNotInstalled, StartCompaction, CompactionFails, FlushFails,
     OpenCompactionOutputFile, FlushBuilt, MergeDone, Enqueue
<1>2. UNCHANGED <<status, current, manifests, logs, mem_, imm_, logfile_number_,
                  log_number_, files_, promised>>
  BY DEF WriteFails, ForceReturns, ForceDone, BeginGroup, Ref, Unref, ShutDown, NothingToDo,
     StartFlush, FlushNotInstalled, StartCompaction, CompactionFails, FlushFails,
     OpenCompactionOutputFile, FlushBuilt, MergeDone, Enqueue, disk, mems, vset
<1>3. \A n \in KnownTables : tables'[n] = tables[n]
  <2>1. CASE FlushFails
    <3>1. bg.pc = "build" /\ Fresh(bg.number)
      BY <1>1, <2>1, OpenFacts DEF FlushFails, BackgroundOK
    <3>2. bg.number \notin KnownTables /\ KnownTables \subseteq DOMAIN tables
      BY <1>1, <3>1, FreshIsUnknown, KnownOnDisk
    <3>3. tables' = tables \/ tables' = With(tables, bg.number, imm_.entries)
      BY <2>1 DEF FlushFails
    <3> QED BY <3>2, <3>3 DEF With
  <2>2. CASE OpenCompactionOutputFile
    BY <1>1, <2>2, NextIsUnknown, KnownOnDisk DEF With, OpenCompactionOutputFile
  <2>3. CASE FlushBuilt \/ MergeDone
    BY <2>3, FlushBuiltEffect, MergeDoneEffect
  <2>4. CASE tables' = tables
    BY <2>4
  <2> QED BY <2>1, <2>2, <2>3, <2>4 DEF WriteFails, ForceReturns, ForceDone, BeginGroup, Ref, Unref, ShutDown,
             NothingToDo, StartFlush, FlushNotInstalled, StartCompaction, CompactionFails, Enqueue, disk
<1> QED BY <1>1, <1>2, <1>3, KeptFrame

-----------------------------------------------------------------------------
(* Acknowledged writes: the writers                                        *)

LEMMA KeptLog ==
    ASSUME Inv1, SeqInv, QueueInv, Kept, flaws' = {}, LogGroup
    PROVE  Kept'
<1>1. /\ status = "open" /\ writing # None /\ logfile_number_ \in DOMAIN logs
      /\ writing.entries \in SUBSET Entries
      /\ DOMAIN logs' = DOMAIN logs
      /\ \A n \in DOMAIN logs : n # logfile_number_ => logs'[n] = logs[n]
      /\ \A e : InLog(e, logfile_number_)' <=> InLog(e, logfile_number_) \/ e \in writing.entries
      /\ mem_' = mem_ \/ mem_' = mem_ \cup writing.entries
      /\ UNCHANGED <<status, current, manifests, tables, imm_, logfile_number_,
                     log_number_, last_sequence_, files_>>
  BY LogGroupEffect
<1>2. /\ \A e : \A n \in DOMAIN logs : SyncedIn(e, n) => SyncedIn(e, n)'
      /\ promised' = promised /\ (LogsWhole => LogsWhole')
  BY LogGroupSyncs
<1>3. ASSUME NEW n \in DOMAIN logs PROVE LogKept(n)
  <2>1. CASE n = logfile_number_
    <3>1. \A e : InLog(e, n)' <=> InLog(e, logfile_number_)'
      BY <1>1, <2>1
    <3> QED BY <1>1, <1>2, <2>1, <3>1 DEF LogKept
  <2>2. CASE n # logfile_number_
    BY <1>1, <2>2, SameLogKept
  <2> QED BY <2>1, <2>2
<1>4. LogsWhole' /\ ManifestWhole'
  BY <1>1, <1>2, SameManifest DEF Kept
<1>5. ASSUME NEW p \in promised PROVE KeptOnDisk(p)' /\ KeptOpen(p)'
  <2>1. p[1] \in Entries /\ KeptOnDisk(p) /\ KeptOpen(p)
    BY PromisedTyped DEF Kept
  <2>2. \A k \in CurrentKs : Held(p[1], View(k).files) => (Held(p[1], View(k).files))'
    BY <1>1 DEF Held, View
  <2>3. KeptOnDisk(p)'
    BY <1>1, <1>3, <2>1, <2>2, DiskKept
  <2>4. p[1] \in mem_ \/ p[1] \notin writing.entries
    <3>1. SUFFICES ASSUME p[1] \notin mem_, p[1] \in writing.entries PROVE FALSE
      OBVIOUS
    <3>2. InImm(p[1]) \/ Held(p[1], files_)
      BY <1>1, <2>1, <3>1 DEF KeptOpen
    <3>3. p[1][1] <= last_sequence_ /\ last_sequence_ < p[1][1]
      BY <1>1, <2>1, <3>1, <3>2 DEF SeqInv, SeqOpen
    <3>4. p[1][1] \in Nat /\ last_sequence_ \in Nat
      BY <1>1, <2>1, OpenFacts DEF Entries
    <3> QED BY <3>3, <3>4
  <2>5. p[1] \in mem_' <=> p[1] \in mem_
    BY <1>1, <2>4
  <2>6. p[2] /\ p[1] \in mem_' => SyncedIn(p[1], logfile_number_)'
    <3>1. p[2] /\ p[1] \in mem_ => SyncedIn(p[1], logfile_number_)
      BY <1>1, <2>1 DEF KeptOpen
    <3>2. PICK n : n = logfile_number_
      OBVIOUS
    <3>3. SyncedIn(p[1], n) => SyncedIn(p[1], n)'
      BY <1>1, <1>2, <3>2
    <3>4. SyncedIn(p[1], n)' <=> SyncedIn(p[1], logfile_number_)'
      BY <1>1, <3>2
    <3> QED BY <2>5, <3>1, <3>2, <3>3, <3>4
  <2>7. p[2] /\ InImm(p[1])' => SyncedFrom(p[1], log_number_)'
    <3>1. p[2] /\ InImm(p[1]) => SyncedFrom(p[1], log_number_)
      BY <1>1, <2>1 DEF KeptOpen
    <3>2. InImm(p[1])' <=> InImm(p[1])
      BY <1>1 DEF InImm
    <3>3. SyncedFrom(p[1], log_number_) => SyncedFrom(p[1], log_number_)'
      BY <1>1, <1>3 DEF SyncedFrom, LogKept
    <3> QED BY <3>1, <3>2, <3>3
  <2>8. p[1] \in mem_' \/ InImm(p[1])' \/ Held(p[1], files_)'
    BY <1>1, <2>1, <2>5 DEF KeptOpen, InImm, Held
  <2> QED BY <2>3, <2>6, <2>7, <2>8 DEF KeptOpen
<1> QED BY <1>1, <1>2, <1>4, <1>5 DEF Kept, KeptOpening

(* A write is acknowledged: it is in the memtable and in its log. *)
LEMMA KeptFinish ==
    ASSUME Inv1, SeqInv, QueueInv, Kept, FinishGroup
    PROVE  Kept'
<1>1. /\ status = "open" /\ status' = "open" /\ writing # None /\ writing' = None
      /\ UNCHANGED <<current, manifests, logs, tables, mem_, imm_, logfile_number_, log_number_, files_>>
      /\ \A p \in promised' : \/ p \in promised
                              \/ /\ writing.result = "ok" /\ p[1] \in writing.entries
                                 /\ p[1] \in mem_
                                 /\ p[2] => SyncedIn(p[1], logfile_number_)
  BY FinishGroupEffect
<1>2. /\ logfile_number_ \in DOMAIN logs /\ log_number_ <= logfile_number_ /\ current # 0
      /\ log_number_ \in Nat /\ logfile_number_ \in Nat
      /\ \A k \in CurrentKs : View(k).log <= logfile_number_ /\ View(k).log \in Nat
  BY <1>1, OpenFacts DEF OpenOK, CurrentKs, View
<1>3. ASSUME NEW p \in promised' PROVE KeptOnDisk(p) /\ KeptOpen(p)
  <2>1. CASE p \in promised
    BY <2>1 DEF Kept
  <2>2. CASE p[1] \in mem_ /\ (p[2] => SyncedIn(p[1], logfile_number_))
    <3>1. InLog(p[1], logfile_number_)
      BY <1>1, <2>2 DEF SeqInv, SeqOpen
    <3>2. KeptOnDisk(p)
      BY <1>2, <2>2, <3>1 DEF KeptOnDisk, SyncedFrom, Logged
    <3>3. KeptOpen(p)
      BY <1>2, <2>2 DEF KeptOpen, SyncedFrom
    <3> QED BY <3>2, <3>3
  <2> QED BY <1>1, <2>1, <2>2
<1>4. ASSUME NEW p \in promised' PROVE KeptOnDisk(p)' /\ KeptOpen(p)'
  <2>1. KeptOnDisk(p) /\ KeptOpen(p)
    BY <1>3
  <2>2. \A k \in CurrentKs : Held(p[1], View(k).files) => (Held(p[1], View(k).files))'
    BY <1>1 DEF Held, View
  <2>3. KeptOnDisk(p)'
    BY <1>1, <2>1, <2>2, DiskKept, SameLogs
  <2>4. KeptOpen(p)'
    BY <1>1, <2>1 DEF KeptOpen, InImm, SyncedIn, SyncedFrom, Held
  <2> QED BY <2>3, <2>4
<1>5. LogsWhole' /\ ManifestWhole'
  BY <1>1, SameLogs, SameManifest DEF Kept
<1> QED BY <1>1, <1>4, <1>5 DEF Kept, KeptOpening

LEMMA EmptyLogAdded ==
    ASSUME NEW n, DOMAIN logs' = DOMAIN logs \cup {n}, \A m \in DOMAIN logs : logs'[m] = logs[m],
           logs'[n] = [records |-> <<>>, synced |-> 0]
    PROVE  /\ \A m \in DOMAIN logs : LogKept(m)
           /\ LogsWhole => LogsWhole'
<1>1. \A m \in DOMAIN logs : LogKept(m)
  BY SameLogKept
<1>2. logs'[n].records = <<>> /\ Len(<<>>) = 0
  OBVIOUS
<1>3. LogsWhole => LogsWhole'
  BY <1>2 DEF LogsWhole
<1> QED BY <1>1, <1>3

LEMMA KeptSwitch ==
    ASSUME Inv1, SeqInv, QueueInv, Kept, SwitchMemTable
    PROVE  Kept'
<1>1. /\ status = "open" /\ imm_ = None /\ imm_' = [entries |-> mem_] /\ mem_' = {}
      /\ DOMAIN logs' = DOMAIN logs \cup {next_file_number_}
      /\ \A n \in DOMAIN logs : logs'[n] = logs[n]
      /\ logs'[next_file_number_] = [records |-> <<>>, synced |-> 0]
      /\ UNCHANGED <<status, current, manifests, tables, log_number_, files_>>
  BY SwitchEffect
<1>2. promised' = promised
  BY DEF SwitchMemTable
<1>3. LogsWhole' /\ ManifestWhole' /\ \A n \in DOMAIN logs : LogKept(n)
  BY <1>1, EmptyLogAdded, SameManifest DEF Kept
<1>4. logfile_number_ \in DOMAIN logs /\ log_number_ <= logfile_number_
      /\ log_number_ \in Nat /\ logfile_number_ \in Nat
  BY <1>1, OpenFacts DEF OpenOK
<1>5. \A e : InImm(e)' <=> e \in mem_
  BY <1>1 DEF InImm, None
<1>6. ASSUME NEW p \in promised PROVE KeptOnDisk(p)' /\ KeptOpen(p)'
  <2>1. KeptOnDisk(p) /\ KeptOpen(p)
    BY DEF Kept
  <2>2. \A k \in CurrentKs : Held(p[1], View(k).files) => (Held(p[1], View(k).files))'
    BY <1>1 DEF Held, View
  <2>3. KeptOnDisk(p)'
    BY <1>1, <1>3, <2>1, <2>2, DiskKept
  <2>4. p[1] \in mem_ \/ Held(p[1], files_)
    BY <1>1, <2>1 DEF KeptOpen, InImm
  <2>5. p[2] /\ p[1] \in mem_ => SyncedFrom(p[1], log_number_)'
    <3>1. p[2] /\ p[1] \in mem_ => SyncedIn(p[1], logfile_number_)
      BY <1>1, <2>1 DEF KeptOpen
    <3>2. PICK n : n = logfile_number_
      OBVIOUS
    <3>3. n \in DOMAIN logs' /\ (SyncedIn(p[1], n) => SyncedIn(p[1], n)')
      BY <1>3, <1>4, <3>2 DEF LogKept
    <3>4. n >= log_number_'
      BY <1>1, <1>4, <3>2
    <3> QED BY <3>1, <3>2, <3>3, <3>4 DEF SyncedFrom
  <2>6. Held(p[1], files_)' <=> Held(p[1], files_)
    BY <1>1 DEF Held
  <2> QED BY <1>1, <1>5, <2>3, <2>4, <2>5, <2>6 DEF KeptOpen
<1> QED BY <1>1, <1>2, <1>3, <1>6 DEF Kept, KeptOpening

-----------------------------------------------------------------------------
(* Acknowledged writes: the MANIFEST and the new version                   *)

LEMMA KeptByEdit ==
    ASSUME Inv1, SeqInv, TablesInv, NEW p, p[1] \in Entries, KeptOnDisk(p), KeptOpen(p),
           status = "open", bg.pc \in {"flush", "apply"}, bg.edit # None,
           NEW n \in CurrentKs, n = Len(manifests[current].records),
           NEW v, Applied(v, View(n), bg.edit)
    PROVE  /\ Held(p[1], v.files) \/ Logged(p[1], v.log)
           /\ p[2] => Held(p[1], v.files) \/ SyncedFrom(p[1], v.log)
<1>1. v.files = (View(n).files \ bg.edit.del) \cup bg.edit.add /\ v.log = bg.edit.log
  BY DEF Applied, Apply
<1>2. /\ logfile_number_ \in DOMAIN logs /\ logfile_number_ \in Nat /\ bg.edit.log \in Nat
      /\ bg.edit.log <= logfile_number_
      /\ bg.pc = "flush" => bg.edit.del = {}
      /\ bg.pc = "apply" => bg.edit.del = compact.inputs /\ bg.edit.log = log_number_
  BY OpenFacts DEF OpenOK, BackgroundOK
<1>3. /\ bg.pc = "flush" => (InImm(p[1]) => Held(p[1], bg.edit.add))
      /\ bg.pc = "apply" => (Held(p[1], compact.inputs) => Held(p[1], bg.edit.add))
  BY DEF TablesInv
<1>4. Held(p[1], bg.edit.add) => Held(p[1], v.files)
  BY <1>1 DEF Held
<1>5. CASE p[1] \in mem_
  <2>1. InLog(p[1], logfile_number_) /\ (p[2] => SyncedIn(p[1], logfile_number_))
    BY <1>5 DEF SeqInv, SeqOpen, KeptOpen
  <2> QED BY <1>1, <1>2, <2>1 DEF Logged, SyncedFrom
<1>6. CASE InImm(p[1])
  <2>1. CASE bg.pc = "flush"
    BY <1>3, <1>4, <1>6, <2>1
  <2>2. CASE bg.pc = "apply"
    <3>1. Logged(p[1], log_number_) /\ (p[2] => SyncedFrom(p[1], log_number_))
      BY <1>6 DEF SeqInv, SeqOpen, KeptOpen
    <3> QED BY <1>1, <1>2, <2>2, <3>1
  <2> QED BY <2>1, <2>2
<1>7. CASE Held(p[1], files_)
  <2>1. files_ \subseteq View(n).files
    <3>1. Version = files_ /\ Version \subseteq LastView(current).files
      BY OpenFacts DEF OpenOK, Version
    <3> QED BY <3>1 DEF LastView, View
  <2>2. PICK f \in files_ : p[1] \in tables[f.number]
    BY <1>7 DEF Held
  <2>3. CASE f \notin bg.edit.del
    BY <1>1, <2>1, <2>2, <2>3 DEF Held
  <2>4. CASE f \in bg.edit.del
    <3>1. bg.pc = "apply" /\ Held(p[1], compact.inputs)
      BY <1>2, <2>2, <2>4 DEF Held
    <3> QED BY <1>3, <1>4, <3>1
  <2> QED BY <2>3, <2>4
<1> QED BY <1>5, <1>6, <1>7 DEF KeptOpen

LEMMA KeptRecord ==
    ASSUME Inv1, SeqInv, QueueInv, TablesInv, Kept, flaws' = {}, ManifestRecord
    PROVE  Kept'
<1>1. status = "open" /\ bg.pc \in {"flush", "apply"} /\ bg.edit # None
  BY RecordEffect
<1>2. UNCHANGED <<status, current, logs, tables, mem_, imm_, logfile_number_, log_number_,
                  files_, promised>>
  BY DEF ManifestRecord, mems, vset
<1>3. PICK n \in Nat :
         /\ n = Len(manifests[current].records) /\ n \in CurrentKs
         /\ Len(manifests'[current].records) = n + 1
         /\ CurrentKs' \subseteq CurrentKs \cup {n + 1}
         /\ \A k \in CurrentKs : View(k)' = View(k)
         /\ View(n + 1)' = View(n) \/ Applied(View(n + 1)', View(n), bg.edit)
  BY RecordEffect
<1>4. current \in DOMAIN manifests /\ manifests[current] \in ManifestType
      /\ current = manifest_file_number_ /\ manifests[current].records \in Records
      /\ manifests[current].synced \in Nat
  BY <1>1, OpenFacts DEF Inv1, TypeInv, DiskType, FilesTyped, ManifestType
<1>5. ManifestWhole'
  <2>1. None \notin Range(manifests[current].records)
    BY <1>4 DEF ManifestRecord
  <2>2. \A i \in 1 .. n : manifests[current].records[i] # None
    BY <1>3, <1>4, <2>1 DEF Records, Range
  <2>3. PICK r : manifests'[current].records = Append(manifests[current].records, r)
    <3>1. PICK m : m = manifests[current]
      OBVIOUS
    <3>2. PICK q : q = [m EXCEPT !.records = Append(@, bg.edit)]
      OBVIOUS
    <3>3. CASE manifests' = [manifests EXCEPT ![current] = Synced(q)]
      <4>1. manifests'[current] = Synced(q) /\ m \in [records : Records, synced : Nat]
        BY <1>4, <3>1, <3>3 DEF ManifestType
      <4>2. q.records = Append(m.records, bg.edit) /\ q = [records |-> q.records, synced |-> q.synced]
        BY <3>2, <4>1
      <4>3. Synced(q).records = q.records
        BY <4>2 DEF Synced
      <4> QED BY <3>1, <4>1, <4>2, <4>3
    <3>4. CASE \E r \in {None, bg.edit} :
                  manifests' = [manifests EXCEPT ![current].records = Append(@, r)]
      <4>1. PICK r \in {None, bg.edit} :
               manifests' = [manifests EXCEPT ![current].records = Append(@, r)]
        BY <3>4
      <4>2. manifests'[current] = [m EXCEPT !.records = Append(@, r)]
        BY <1>4, <3>1, <4>1
      <4>3. m \in [records : Records, synced : Nat]
        BY <1>4, <3>1 DEF ManifestType
      <4>4. manifests'[current].records = Append(m.records, r)
        BY <4>2, <4>3
      <4> QED BY <3>1, <4>4
    <3> QED BY <1>4, <3>1, <3>2, <3>3, <3>4 DEF ManifestRecord
  <2>4. \A i \in 1 .. n : manifests'[current].records[i] = manifests[current].records[i]
    BY <1>3, <1>4, <2>3 DEF Records
  <2>5. current' = current /\ Len(manifests'[current].records) - 1 = n
    BY <1>2, <1>3
  <2> QED BY <2>2, <2>4, <2>5 DEF ManifestWhole
<1>6. ASSUME NEW p \in promised PROVE KeptOnDisk(p)' /\ KeptOpen(p)'
  <2>1. p[1] \in Entries /\ KeptOnDisk(p) /\ KeptOpen(p)
    BY PromisedTyped DEF Kept
  <2>2. PICK v : v = View(n + 1)'
    OBVIOUS
  <2>3. /\ Held(p[1], v.files) \/ Logged(p[1], v.log)
        /\ p[2] => Held(p[1], v.files) \/ SyncedFrom(p[1], v.log)
    <3>1. CASE v = View(n)
      BY <1>3, <2>1, <3>1 DEF KeptOnDisk
    <3>2. CASE Applied(v, View(n), bg.edit)
      BY <1>1, <1>3, <2>1, <3>2, KeptByEdit
    <3> QED BY <1>3, <2>2, <3>1, <3>2
  <2>4. /\ (Held(p[1], View(n + 1).files))' <=> Held(p[1], v.files)
        /\ (Logged(p[1], View(n + 1).log))' <=> Logged(p[1], v.log)
        /\ (SyncedFrom(p[1], View(n + 1).log))' <=> SyncedFrom(p[1], v.log)
    BY <1>2, <2>2 DEF Held, Logged, InLog, SyncedFrom, SyncedIn
  <2>5. ASSUME NEW k \in CurrentKs
        PROVE  /\ (Held(p[1], View(k).files))' <=> Held(p[1], View(k).files)
               /\ (SyncedFrom(p[1], View(k).log))' <=> SyncedFrom(p[1], View(k).log)
               /\ k # n + 1
    <3>1. View(k)' = View(k)
      BY <1>3
    <3>2. k # n + 1
      <4>1. k \in manifests[current].synced .. n
        BY <1>3 DEF CurrentKs, Ks
      <4> QED BY <1>4, <4>1
    <3> QED BY <1>2, <3>1, <3>2 DEF Held, SyncedFrom, SyncedIn
  <2>6. p[2] => \A k \in CurrentKs' :
                   (Held(p[1], View(k).files))' \/ (SyncedFrom(p[1], View(k).log))'
    BY <1>3, <2>1, <2>3, <2>4, <2>5 DEF KeptOnDisk
  <2>7. \A k \in CurrentKs' : k = Len(manifests'[current'].records) =>
                   (Held(p[1], View(k).files))' \/ (Logged(p[1], View(k).log))'
    BY <1>2, <1>3, <2>3, <2>4
  <2>8. KeptOnDisk(p)'
    BY <1>2, <2>1, <2>6, <2>7 DEF KeptOnDisk
  <2>9. KeptOpen(p)'
    BY <1>2, <2>1 DEF KeptOpen, InImm, SyncedIn, SyncedFrom, Held
  <2> QED BY <2>8, <2>9
<1>7. LogsWhole'
  BY <1>2, SameLogs DEF Kept
<1> QED BY <1>1, <1>2, <1>5, <1>6, <1>7 DEF Kept, KeptOpening

LEMMA KeptInstalled ==
    ASSUME Inv1, Inv1', SeqInv, QueueInv, TablesInv, Kept, FlushInstalled \/ CompactionInstalled
    PROVE  Kept'
<1>1. /\ status = "open" /\ bg.edit # None
      /\ bg.pc = (IF FlushInstalled THEN "flushed" ELSE "applied")
      /\ log_number_' = bg.edit.log
      /\ UNCHANGED <<status, current, mem_, logfile_number_>>
      /\ manifests'[current] = manifests[current]
      /\ (imm_' = None \/ (imm_' = imm_ /\ log_number_' = log_number_))
      /\ \A k \in CurrentKs : \A e : (Held(e, View(k).files))' <=> Held(e, View(k).files)
      /\ \A e : Held(e, files_)' <=> Held(e, Apply(files_, bg.edit))
      /\ \A n \in DOMAIN logs' : n \in DOMAIN logs /\ logs'[n] = logs[n]
      /\ \A n \in DOMAIN logs : n >= log_number_' => n \in DOMAIN logs'
  BY InstalledEffect
<1>2. promised' = promised
  BY DEF FlushInstalled, CompactionInstalled
<1>3. \A n \in DOMAIN logs : n >= log_number_' => LogKept(n)
  BY <1>1, SameLogKept
<1>4. \A k \in CurrentKs : View(k).log = log_number_'
  BY <1>1 DEF TablesInv
<1>5. LogsWhole' /\ ManifestWhole'
  <2>1. LogsWhole'
    BY <1>1 DEF Kept, LogsWhole
  <2> QED BY <1>1, <2>1, SameManifest DEF Kept
<1>6. logfile_number_ \in DOMAIN logs' /\ logs'[logfile_number_] = logs[logfile_number_]
  BY <1>1 DEF Inv1, Struct, OpenOK
<1>7. \A e : Held(e, bg.edit.add) => Held(e, files_)'
  BY <1>1 DEF Held, Apply
<1>8. ASSUME NEW e, Held(e, files_) PROVE Held(e, files_)'
  <2>1. PICK f \in files_ : e \in tables[f.number]
    BY <1>8 DEF Held
  <2>2. CASE f \notin bg.edit.del
    BY <1>1, <2>1, <2>2 DEF Held, Apply
  <2>3. CASE f \in bg.edit.del
    <3>1. bg.pc = "applied" /\ bg.edit.del = compact.inputs
      BY <1>1, <2>3, OpenFacts DEF BackgroundOK
    <3>2. Held(e, compact.inputs)
      BY <2>1, <2>3, <3>1 DEF Held
    <3> QED BY <1>1, <1>7, <3>1, <3>2 DEF TablesInv
  <2> QED BY <2>2, <2>3
<1>9. ASSUME NEW p \in promised PROVE KeptOnDisk(p)' /\ KeptOpen(p)'
  <2>1. KeptOnDisk(p) /\ KeptOpen(p)
    BY DEF Kept
  <2>2. KeptOnDisk(p)'
    BY <1>1, <1>3, <1>4, <2>1, DiskKept
  <2>3. p[2] /\ p[1] \in mem_' => SyncedIn(p[1], logfile_number_)'
    BY <1>1, <1>6, <2>1 DEF KeptOpen, SyncedIn
  <2>4. CASE FlushInstalled
    <3>1. imm_' = None /\ bg.pc = "flushed"
      BY <2>4 DEF FlushInstalled
    <3>2. InImm(p[1]) => Held(p[1], bg.edit.add)
      BY <1>1, <3>1 DEF TablesInv
    <3>3. p[1] \in mem_' \/ Held(p[1], files_)'
      BY <1>1, <1>7, <1>8, <2>1, <3>2 DEF KeptOpen
    <3> QED BY <2>2, <2>3, <3>1, <3>3 DEF KeptOpen, InImm
  <2>5. CASE CompactionInstalled
    <3>1. imm_' = imm_ /\ bg.pc = "applied"
      BY <2>5 DEF CompactionInstalled, mems
    <3>2. log_number_' = log_number_ /\ \A e : InImm(e)' <=> InImm(e)
      BY <1>1, <3>1, OpenFacts DEF InImm, BackgroundOK
    <3>3. p[1] \in mem_' \/ InImm(p[1])' \/ Held(p[1], files_)'
      BY <1>1, <1>8, <2>1, <3>2 DEF KeptOpen
    <3>4. SyncedFrom(p[1], log_number_) => SyncedFrom(p[1], log_number_)'
      BY <1>3, <3>2 DEF SyncedFrom, LogKept
    <3>5. p[2] /\ InImm(p[1])' => SyncedFrom(p[1], log_number_)'
      BY <1>1, <2>1, <3>2, <3>4 DEF KeptOpen
    <3> QED BY <2>2, <2>3, <3>3, <3>5 DEF KeptOpen
  <2> QED BY <2>4, <2>5
<1> QED BY <1>1, <1>2, <1>5, <1>9 DEF Kept, KeptOpening

-----------------------------------------------------------------------------
(* Acknowledged writes: the end of the process, and recovery               *)

(* The machine stops: what was synced is left, and only that was promised. *)
LEMMA KeptCrash ==
    ASSUME Inv1, Inv1', QueueInv, Kept, Crash
    PROVE  Kept'
<1>1. /\ status' = "down" /\ UNCHANGED <<current, tables>>
      /\ promised' = {p \in promised : p[2]}
      /\ logs' \in Survivors(logs) /\ manifests' \in Survivors(manifests)
  BY DEF Crash, Gone
<1>2. FilesTyped(logs, LogType) /\ FilesTyped(manifests, ManifestType) /\ current \in Nat
  BY DEF Inv1, TypeInv, DiskType
<1>3. PICK L : L = logs'
  OBVIOUS
<1>4. PICK M : M = manifests'
  OBVIOUS
<1>5. Cut(logs, L) /\ Cut(manifests, M)
  BY <1>1, <1>2, <1>3, <1>4, LogsSurvive, ManifestsSurvive
<1>6. ASSUME NEW n \in DOMAIN logs
      PROVE  /\ n \in DOMAIN L /\ Len(L[n].records) = L[n].synced /\ logs[n].synced \in Nat
             /\ Len(logs[n].records) \in Nat /\ L[n].synced \in Nat
             /\ logs[n].synced <= L[n].synced /\ L[n].synced <= Len(logs[n].records)
             /\ \A i \in 1 .. L[n].synced : L[n].records[i] = logs[n].records[i]
  <2>1. logs[n].synced \in Nat /\ Len(logs[n].records) \in Nat
    BY <1>2 DEF FilesTyped, LogType, LogRecords
  <2>2. /\ n \in DOMAIN L /\ Len(L[n].records) = L[n].synced
        /\ L[n].synced \in logs[n].synced .. Len(logs[n].records)
        /\ \A i \in 1 .. L[n].synced : L[n].records[i] = logs[n].records[i]
    BY <1>5 DEF Cut
  <2> QED BY <2>1, <2>2
<1>7. LogsWhole'
  <2>1. DOMAIN L = DOMAIN logs
    BY <1>5 DEF Cut
  <2>2. ASSUME NEW n \in DOMAIN L, NEW i \in 1 .. Len(L[n].records) PROVE L[n].records[i].ok
    <3>1. i \in 1 .. L[n].synced /\ i \in 1 .. Len(logs[n].records) /\ n \in DOMAIN logs
      BY <1>6, <2>1
    <3> QED BY <1>6, <3>1 DEF Kept, LogsWhole
  <2> QED BY <1>3, <2>2 DEF LogsWhole
<1>8. ManifestWhole'
  <2>1. SUFFICES ASSUME current # 0, NEW i \in 1 .. Len(M[current].records) - 1
                 PROVE  M[current].records[i] # None
    BY <1>1, <1>4 DEF ManifestWhole
  <2>2. current \in DOMAIN manifests
    BY <2>1, CrashKeeps
  <2>3. /\ Len(M[current].records) = M[current].synced
        /\ M[current].synced \in manifests[current].synced .. Len(manifests[current].records)
        /\ \A j \in 1 .. M[current].synced : M[current].records[j] = manifests[current].records[j]
    BY <1>5, <2>2 DEF Cut
  <2>4. manifests[current].synced \in Nat /\ Len(manifests[current].records) \in Nat
    BY <1>2, <2>2 DEF FilesTyped, ManifestType, Records
  <2>5. i \in 1 .. M[current].synced /\ i \in 1 .. Len(manifests[current].records) - 1
    BY <2>3, <2>4
  <2> QED BY <2>1, <2>3, <2>5 DEF Kept, ManifestWhole
<1>9. ASSUME NEW e, NEW b, SyncedFrom(e, b) PROVE SyncedFrom(e, b)' /\ Logged(e, b)'
  <2>1. PICK n \in DOMAIN logs : n >= b /\ SyncedIn(e, n)
    BY <1>9 DEF SyncedFrom
  <2>2. PICK i \in 1 .. logs[n].synced : e \in logs[n].records[i].entries
    BY <2>1 DEF SyncedIn
  <2>3. i \in 1 .. L[n].synced /\ i \in 1 .. Len(L[n].records) /\ L[n].records[i] = logs[n].records[i]
        /\ n \in DOMAIN L
    BY <1>6
  <2>4. SyncedIn(e, n)' /\ InLog(e, n)'
    BY <1>3, <2>2, <2>3 DEF SyncedIn, InLog
  <2> QED BY <1>3, <2>1, <2>3, <2>4 DEF SyncedFrom, Logged
<1>10. ASSUME NEW p \in promised, p[2] PROVE KeptOnDisk(p)'
  <2>1. KeptOnDisk(p)
    BY DEF Kept
  <2>2. /\ current # 0 /\ CurrentKs' \subseteq CurrentKs
        /\ \A k \in CurrentKs' : View(k)' = View(k)
    BY <2>1, CrashKeeps DEF KeptOnDisk
  <2>3. ASSUME NEW k \in CurrentKs'
        PROVE  /\ (Held(p[1], View(k).files))' \/ (SyncedFrom(p[1], View(k).log))'
               /\ (Held(p[1], View(k).files))' \/ (Logged(p[1], View(k).log))'
    <3>1. PICK v : v = View(k)
      OBVIOUS
    <3>2. v = View(k)'
      BY <2>2, <3>1
    <3>3. Held(p[1], v.files) \/ SyncedFrom(p[1], v.log)
      BY <1>10, <2>1, <2>2, <3>1 DEF KeptOnDisk
    <3>4. \/ Held(p[1], v.files)'
          \/ SyncedFrom(p[1], v.log)' /\ Logged(p[1], v.log)'
      BY <1>1, <1>9, <3>3 DEF Held
    <3> QED BY <3>2, <3>4
  <2> QED BY <1>1, <2>2, <2>3 DEF KeptOnDisk
<1> QED BY <1>1, <1>7, <1>8, <1>10 DEF Kept, KeptOpening, KeptOpen

LEMMA KeptGone ==
    ASSUME Inv1, Kept, Destroyed \/ OpenFails
    PROVE  Kept'
<1>1. /\ status' = "down" /\ UNCHANGED <<current, logs, tables, promised>>
      /\ current # 0 => manifests'[current] = manifests[current]
  BY GoneEffect
<1>2. LogsWhole' /\ ManifestWhole'
  BY <1>1, SameLogs, SameManifest DEF Kept
<1>3. ASSUME NEW p \in promised PROVE KeptOnDisk(p)'
  <2>1. KeptOnDisk(p) /\ current # 0
    BY DEF Kept, KeptOnDisk
  <2>2. \A k \in CurrentKs : Held(p[1], View(k).files) => (Held(p[1], View(k).files))'
    BY <1>1, <2>1 DEF Held, View
  <2> QED BY <1>1, <2>1, <2>2, DiskKept, SameLogs
<1> QED BY <1>1, <1>2, <1>3 DEF Kept, KeptOpening, KeptOpen

LEMMA KeptNewDB ==
    ASSUME Inv1, Kept, NewDB
    PROVE  Kept'
<1>1. status' = "down" /\ UNCHANGED <<logs, promised>> /\ current = 0
  BY DEF NewDB
<1>2. promised' = {}
  BY <1>1 DEF Kept, KeptOnDisk
<1>3. ManifestWhole'
  <2>1. CASE current' = 1
    <3>1. PICK m : m = [records |-> <<Edit({}, {}, 0, 2, 0)>>, synced |-> 0]
      OBVIOUS
    <3>2. manifests' = With(manifests, 1, m)
      BY <1>1, <2>1, <3>1 DEF NewDB
    <3>3. manifests'[1] = m
      BY <3>2 DEF With
    <3>4. Len(m.records) - 1 = 0
      BY <3>1
    <3>5. Len(manifests'[current'].records) - 1 = 0
      BY <2>1, <3>3, <3>4
    <3>6. \A i \in 1 .. 0 : FALSE
      OBVIOUS
    <3> QED BY <3>5, <3>6 DEF ManifestWhole
  <2>2. CASE current' = 0
    BY <2>2 DEF ManifestWhole
  <2> QED BY <1>1, <2>1, <2>2 DEF NewDB
<1>4. LogsWhole'
  BY <1>1, SameLogs DEF Kept
<1> QED BY <1>1, <1>2, <1>3, <1>4 DEF Kept

(* A database in which a write was acknowledged is never found corrupt.    *)
LEMMA RecoverIsSound ==
    ASSUME Inv1, Solid, ManifestWhole, Recover
    PROVE  status' # "corrupt"
<1>1. status = "down" /\ current # 0
  BY RecoverEffect
<1>2. PICK r : r = manifests[current].records
  OBVIOUS
<1>3. PICK n \in CurrentKs : n = Len(r)
  BY <1>2, RecoverEffect
<1>4. PICK v : v = Replay(r, Len(r))
  OBVIOUS
<1>5. v = View(n)
  BY <1>2, <1>3, <1>4 DEF View
<1>6. v.next # 0 /\ Numbers(v.files) \subseteq DOMAIN tables
  BY <1>1, <1>3, <1>5 DEF Solid, Inv1, Struct, CurrentOK, ManifestOK, CurrentKs, View
<1>7. ~Unreadable(r)
  BY <1>1, <1>2, <1>4, <1>6 DEF Unreadable, ManifestWhole
<1> QED BY <1>2, <1>4, <1>6, <1>7 DEF Recover

LEMMA KeptRecover ==
    ASSUME Inv1, QueueInv, Kept, Recover
    PROVE  Kept'
<1>1. status = "down" /\ current # 0 /\ UNCHANGED <<current, manifests, logs, tables>>
  BY RecoverEffect
<1>2. UNCHANGED <<promised, call>>
  BY DEF Recover, queue
<1>3. LogsWhole' /\ ManifestWhole'
  BY <1>1, SameLogs, SameManifest DEF Kept
<1>4. status' = "corrupt" => \A w \in Writers : call'[w].state # "ok"
  BY <1>2, RecoverIsSound DEF QueueInv, Kept
<1>5. status' \in {"corrupt", "recovering"}
  BY DEF Recover
<1>6. ASSUME NEW p \in promised PROVE KeptOnDisk(p)' /\ KeptOpening(p)'
  <2>1. KeptOnDisk(p)
    BY DEF Kept
  <2>2. \A k \in CurrentKs : Held(p[1], View(k).files) => (Held(p[1], View(k).files))'
    BY <1>1 DEF Held, View
  <2>3. KeptOnDisk(p)'
    BY <1>1, <2>1, <2>2, DiskKept, SameLogs
  <2>4. ASSUME status' = "recovering"
        PROVE  Held(p[1], files_)' \/ \E m \in rec'.logs : UnreadIn(p[1], m)'
    <3>1. PICK n \in CurrentKs :
             /\ n = Len(manifests[current].records)
             /\ files_' = View(n).files
             /\ rec' = [logs |-> {i \in DOMAIN logs : i >= View(n).log}, read |-> 0, add |-> {},
                        max_sequence |-> 0, ok |-> TRUE]
      BY <2>4, RecoverEffect
    <3>2. Held(p[1], View(n).files) \/ Logged(p[1], View(n).log)
      BY <2>1, <3>1 DEF KeptOnDisk
    <3>3. rec'.logs = {i \in DOMAIN logs : i >= View(n).log} /\ rec'.read = 0
      BY <3>1
    <3>4. \A m \in DOMAIN logs : InLog(p[1], m) => UnreadIn(p[1], m)'
      <4>1. \A m \in DOMAIN logs : \A i \in 1 .. Len(logs[m].records) : 0 < i
        OBVIOUS
      <4> QED BY <1>1, <3>3, <4>1 DEF InLog, UnreadIn
    <3>5. Held(p[1], files_)' <=> Held(p[1], View(n).files)
      BY <1>1, <3>1 DEF Held
    <3> QED BY <3>2, <3>3, <3>4, <3>5 DEF Logged
  <2> QED BY <1>5, <2>3, <2>4 DEF KeptOpening
<1> QED BY <1>2, <1>3, <1>4, <1>5, <1>6 DEF Kept, KeptOpen

(* A whole log is read without a gap. *)
LEMMA WholeLogRead ==
    ASSUME Inv1, LogsWhole, NEW n \in DOMAIN logs, NEW k, NEW is \in ReadableIn(logs[n], k),
           NEW i \in 1 .. Len(logs[n].records), k < i
    PROVE  i \in is
<1>1. logs[n].records \in LogRecords
  BY DEF Inv1, TypeInv, DiskType, FilesTyped, LogType
<1>2. DOMAIN logs[n].records = 1 .. Len(logs[n].records)
  BY <1>1 DEF LogRecords
<1>3. \A j \in DOMAIN logs[n].records : logs[n].records[j].ok
  BY <1>2 DEF LogsWhole
<1> QED BY <1>2, <1>3 DEF ReadableIn

(***************************************************************************)
(* What was promised and not yet read is now in a table, still to be read, *)
(* or behind an error that was ignored: then it is promised no more.       *)
(***************************************************************************)
LEMMA UnreadGoesOn ==
    ASSUME Inv1, SeqInv, LogsWhole, Recovery, rec'.ok,
           NEW p \in promised', NEW m \in rec.logs, UnreadIn(p[1], m)
    PROVE  (Held(p[1], rec.add))' \/ \E n \in rec'.logs : UnreadIn(p[1], n)'
<1>1. logs' = logs
  BY RecoverLogEffect
<1>0. PICK n, is, k, found : LogHeld(n, is, k, found)
  BY RecoverLogEffect
<1>2. /\ n = ThisLog /\ n \in rec.logs /\ n \in DOMAIN logs
      /\ is \in ReadableIn(logs[n], rec.read) /\ found = Found(n, UpTo(is, k))
      /\ \/ k \in is /\ GoesOn(n, k) /\ \A e \in found : (Held(e, rec.add))'
         \/ HasDone(n) /\ (rec'.ok =>
               /\ \A e \in found : (Held(e, rec.add))'
               /\ promised' = {q \in promised : q[1] \notin Found(n, is \ UpTo(is, k))})
  BY <1>0, Zenon DEF LogHeld
<1>3. PICK i \in 1 .. Len(logs[m].records) :
         p[1] \in logs[m].records[i].entries /\ (m = n => rec.read < i)
  BY <1>2 DEF UnreadIn
<1>4. CASE HasDone(n)
  <2>1. rec'.logs = rec.logs \ {n} /\ rec'.read = 0
    BY <1>4 DEF HasDone
  <2>4. 0 < i
    BY <1>3
  <2>2. CASE m # n
    BY <1>1, <1>3, <2>1, <2>2, <2>4 DEF UnreadIn
  <2>3. CASE m = n
    <3>1. i \in is
      BY <1>2, <1>3, <2>3, WholeLogRead
    <3>2. CASE i \in UpTo(is, k)
      <4>1. p[1] \in found
        BY <1>2, <1>3, <2>3, <3>2 DEF Found
      <4>2. GoesOn(n, k) \/ rec'.ok
        OBVIOUS
      <4> QED BY <1>2, <4>1
    <3>3. CASE i \notin UpTo(is, k)
      <4>1. p[1] \in Found(n, is \ UpTo(is, k))
        BY <1>3, <2>3, <3>1, <3>3 DEF Found
      <4>2. ~GoesOn(n, k)
        BY <1>2, <2>1 DEF GoesOn
      <4> QED BY <1>2, <4>1, <4>2
    <3> QED BY <3>2, <3>3
  <2> QED BY <2>2, <2>3
<1>5. CASE k \in is /\ GoesOn(n, k) /\ \A e \in found : (Held(e, rec.add))'
  <2>1. rec'.logs = rec.logs /\ rec'.read = k
    BY <1>5 DEF GoesOn
  <2>2. ThisLog' = n
    BY <1>2, <2>1 DEF ThisLog
  <2>3. CASE m # n
    BY <1>1, <1>3, <2>1, <2>2, <2>3 DEF UnreadIn
  <2>4. CASE m = n
    <3>1. i \in is
      BY <1>2, <1>3, <2>4, WholeLogRead
    <3>2. CASE i \in UpTo(is, k)
      <4>1. p[1] \in found
        BY <1>2, <1>3, <2>4, <3>2 DEF Found
      <4> QED BY <1>5, <4>1
    <3>3. CASE i \notin UpTo(is, k)
      <4>1. logs[n].records \in LogRecords
        BY <1>2 DEF Inv1, TypeInv, DiskType, FilesTyped, LogType
      <4>2. is \subseteq 1 .. Len(logs[n].records)
        BY <1>2, <4>1, ReadableWithin DEF LogRecords
      <4>3. k \in Nat
        BY <1>5, <4>2
      <4>4. k < i
        BY <3>1, <3>3, <4>3 DEF UpTo
      <4> QED BY <1>1, <1>3, <2>1, <2>4, <4>4 DEF UnreadIn
    <3> QED BY <3>2, <3>3
  <2> QED BY <2>3, <2>4
<1> QED BY <1>2, <1>4, <1>5

LEMMA KeptRecoverLog ==
    ASSUME Inv1, SeqInv, QueueInv, Kept, flaws' = {}, Recovery
    PROVE  Kept'
<1>1. /\ status = "recovering" /\ UNCHANGED <<status, current, manifests, logs, files_>>
      /\ \A k \in CurrentKs : \A m \in Numbers(View(k).files) : tables'[m] = tables[m]
      /\ \A e : Held(e, files_)' <=> Held(e, files_)
  BY RecoverLogEffect
<1>2. /\ \A e : Held(e, rec.add) => (Held(e, rec.add))'
      /\ rec'.ok => rec.ok
      /\ promised' \subseteq promised
  <2>1. PICK n, is, k, found : LogHeld(n, is, k, found)
    BY RecoverLogEffect
  <2>2. \A e : Held(e, rec.add) => (Held(e, rec.add))'
    BY <2>1, Zenon DEF LogHeld
  <2> QED BY <2>2, RecoveredRec
<1>3. LogsWhole' /\ ManifestWhole'
  BY <1>1, SameLogs, SameManifest DEF Kept
<1>4. ASSUME NEW p \in promised' PROVE KeptOnDisk(p)' /\ KeptOpening(p)'
  <2>1. KeptOnDisk(p) /\ KeptOpening(p)
    BY <1>2 DEF Kept
  <2>2. \A k \in CurrentKs : Held(p[1], View(k).files) => (Held(p[1], View(k).files))'
    BY <1>1 DEF Held, View, Numbers
  <2>3. KeptOnDisk(p)'
    BY <1>1, <2>1, <2>2, DiskKept, SameLogs
  <2>4. ASSUME rec'.ok
        PROVE  \/ Held(p[1], files_)' \/ (Held(p[1], rec.add))'
               \/ \E m \in rec'.logs : UnreadIn(p[1], m)'
    <3>1. \/ Held(p[1], files_) \/ Held(p[1], rec.add) \/ \E m \in rec.logs : UnreadIn(p[1], m)
      BY <1>1, <1>2, <2>1, <2>4 DEF KeptOpening
    <3>2. ASSUME NEW m \in rec.logs, UnreadIn(p[1], m)
          PROVE  (Held(p[1], rec.add))' \/ \E n \in rec'.logs : UnreadIn(p[1], n)'
      BY <2>4, <3>2, UnreadGoesOn DEF Kept
    <3> QED BY <1>1, <1>2, <3>1, <3>2
  <2> QED BY <1>1, <2>3, <2>4 DEF KeptOpening
<1> QED BY <1>1, <1>3, <1>4 DEF Kept, KeptOpen

LEMMA KeptNewManifest ==
    ASSUME Inv1, SeqInv, QueueInv, Kept, NewLogAndManifest
    PROVE  Kept'
<1>1. /\ status = "recovering" /\ rec.logs = {} /\ rec.ok /\ status' = "manifest"
      /\ UNCHANGED <<current, tables, files_, rec>> /\ current # 0
      /\ manifests'[current] = manifests[current]
      /\ DOMAIN logs' = DOMAIN logs \cup {next_file_number_}
      /\ \A n \in DOMAIN logs : logs'[n] = logs[n]
      /\ logs'[next_file_number_] = [records |-> <<>>, synced |-> 0]
  BY NewManifestEffect
<1>2. promised' = promised
  BY DEF NewLogAndManifest
<1>3. LogsWhole' /\ ManifestWhole' /\ \A n \in DOMAIN logs : LogKept(n)
  BY <1>1, EmptyLogAdded, SameManifest DEF Kept
<1>4. ASSUME NEW p \in promised PROVE KeptOnDisk(p)' /\ KeptOpening(p)'
  <2>1. KeptOnDisk(p) /\ KeptOpening(p)
    BY DEF Kept
  <2>2. \A k \in CurrentKs : Held(p[1], View(k).files) => (Held(p[1], View(k).files))'
    BY <1>1 DEF Held, View
  <2>3. KeptOnDisk(p)'
    BY <1>1, <1>3, <2>1, <2>2, DiskKept
  <2>4. Held(p[1], files_) \/ Held(p[1], rec.add)
    BY <1>1, <2>1 DEF KeptOpening
  <2>5. (Held(p[1], files_ \cup rec.add))'
    BY <1>1, <2>4 DEF Held
  <2> QED BY <1>1, <2>3, <2>5 DEF KeptOpening
<1> QED BY <1>1, <1>2, <1>3, <1>4 DEF Kept, KeptOpen

LEMMA KeptSetCurrent ==
    ASSUME Inv1, QueueInv, Kept, SetCurrentFile
    PROVE  Kept'
<1>1. /\ status = "manifest" /\ status' = "current"
      /\ UNCHANGED <<logs, manifests, tables, files_, rec>>
      /\ current' # 0 /\ CurrentKs' = {2} /\ View(2)'.files = files_ \cup rec.add
      /\ Len(manifests'[current'].records) = 2
  BY SetCurrentEffect
<1>2. promised' = promised /\ current' = manifest_file_number_
  BY DEF SetCurrentFile
<1>3. LogsWhole'
  BY <1>1, SameLogs DEF Kept
<1>4. ManifestWhole'
  <2>1. PICK s, e : s = Snapshot(files_) /\ manifests[manifest_file_number_] =
                       [records |-> <<s, e>>, synced |-> 2]
    BY <1>1 DEF Inv1, Struct, OpeningOK, Opening_
  <2>2. s # None
    BY <2>1 DEF Snapshot, Edit, None
  <2>3. manifests'[current'].records = <<s, e>> /\ <<s, e>>[1] = s
    BY <1>1, <1>2, <2>1
  <2>4. \A i \in 1 .. 2 - 1 : manifests'[current'].records[i] # None
    BY <2>2, <2>3
  <2> QED BY <1>1, <2>4 DEF ManifestWhole
<1>5. ASSUME NEW p \in promised PROVE KeptOnDisk(p)' /\ KeptOpening(p)'
  <2>1. Held(p[1], files_ \cup rec.add)
    BY <1>1 DEF Kept, KeptOpening
  <2>2. (Held(p[1], View(2).files))' /\ (Held(p[1], files_ \cup rec.add))'
    BY <1>1, <2>1 DEF Held
  <2> QED BY <1>1, <2>2 DEF KeptOnDisk, KeptOpening
<1> QED BY <1>1, <1>2, <1>3, <1>4, <1>5 DEF Kept, KeptOpen

LEMMA KeptOpenDone ==
    ASSUME Inv1, Inv1', QueueInv, Kept, OpenDone
    PROVE  Kept'
<1>1. /\ status = "current" /\ status' = "open" /\ current' = current /\ current # 0
      /\ mem_' = {} /\ imm_' = None /\ CurrentKs' = {2}
      /\ manifests'[current] = manifests[current]
      /\ \A e : Held(e, files_)' <=> Held(e, files_ \cup rec.add)
      /\ \A e : (Held(e, View(2).files))' <=> Held(e, files_ \cup rec.add)
      /\ \A n \in DOMAIN logs' : n \in DOMAIN logs /\ logs'[n] = logs[n]
  BY OpenDoneEffect
<1>2. promised' = promised
  BY DEF OpenDone
<1>3. LogsWhole' /\ ManifestWhole'
  <2>1. LogsWhole'
    BY <1>1 DEF Kept, LogsWhole
  <2> QED BY <1>1, <2>1, SameManifest DEF Kept
<1>4. ASSUME NEW p \in promised PROVE KeptOnDisk(p)' /\ KeptOpen(p)'
  <2>1. Held(p[1], files_ \cup rec.add)
    BY <1>1 DEF Kept, KeptOpening
  <2>2. KeptOnDisk(p)'
    BY <1>1, <2>1 DEF KeptOnDisk
  <2> QED BY <1>1, <2>1, <2>2 DEF KeptOpen, InImm
<1> QED BY <1>1, <1>2, <1>3, <1>4 DEF Kept, KeptOpening

-----------------------------------------------------------------------------
(* Acknowledged writes survive                                             *)

LEMMA FlawsGrow ==
    ASSUME Inv1, SeqInv, [Next]_vars
    PROVE  flaws \subseteq flaws'
<1>1. CASE Recovery
  BY <1>1, RecoverLogEffect
<1>2. CASE LogGroup
  BY <1>2, LogGroupSyncs
<1>3. CASE ManifestRecord
  BY <1>3 DEF ManifestRecord
<1>4. CASE Writing /\ ~LogGroup
  BY <1>4 DEF Writing, WriteFails, SwitchMemTable, ForceReturns, ForceDone, BeginGroup,
     FinishGroup
<1>5. CASE Background /\ ~ManifestRecord
  BY <1>5 DEF Background, Flushing, Compacting, NothingToDo, StartFlush, FlushBuilt, FlushFails,
     FlushInstalled, FlushNotInstalled, StartCompaction, OpenCompactionOutputFile, MergeDone,
     CompactionInstalled, CompactionFails
<1>6. CASE Opening /\ ~Recovery
  BY <1>6 DEF Opening, Recovery, NewDB, Recover, NewLogAndManifest, SetCurrentFile, OpenDone, OpenFails
<1>7. CASE UNCHANGED vars
  BY <1>7 DEF vars
<1> QED BY <1>1, <1>2, <1>3, <1>4, <1>5, <1>6, <1>7 DEF Next, Ref, Unref, ShutDown, Destroyed, Crash, Enqueue

LEMMA KeptStutter ==
    ASSUME Kept, UNCHANGED vars
    PROVE  Kept'
<1>1. UNCHANGED <<current, manifests, logs, tables, status, call, mem_, imm_, logfile_number_,
                  log_number_, files_, rec, promised>>
  BY DEF vars, disk, queue, mems, vset
<1>2. ASSUME NEW p \in promised PROVE KeptOnDisk(p)' /\ KeptOpening(p)' /\ KeptOpen(p)'
  <2>1. KeptOnDisk(p)'
    BY <1>1 DEF Kept, KeptOnDisk, Held, SyncedFrom, SyncedIn, Logged, InLog, View, CurrentKs
  <2>2. KeptOpen(p)'
    BY <1>1 DEF Kept, KeptOpen, Held, InImm, SyncedFrom, SyncedIn
  <2>3. \A n : UnreadIn(p[1], n)' <=> UnreadIn(p[1], n)
    BY <1>1 DEF UnreadIn, ThisLog
  <2>4. KeptOpening(p)'
    BY <1>1, <2>3 DEF Kept, KeptOpening, Held
  <2> QED BY <2>1, <2>2, <2>4
<1> QED BY <1>1, <1>2 DEF Kept, LogsWhole, ManifestWhole

LEMMA KeptStep ==
    Inv1 /\ Inv1' /\ SeqInv /\ QueueInv /\ TablesInv /\ KeptInv /\ [Next]_vars => KeptInv'
<1> SUFFICES ASSUME Inv1, Inv1', SeqInv, QueueInv, TablesInv, KeptInv, [Next]_vars, flaws' = {}
             PROVE  Kept'
  BY DEF KeptInv
<1>1. Kept
  BY FlawsGrow DEF KeptInv
<1> QED BY <1>1, KeptLight, KeptLog, KeptFinish, KeptSwitch, KeptRecord, KeptInstalled, KeptCrash, KeptGone,
           KeptNewDB, KeptRecover, KeptRecoverLog, KeptNewManifest, KeptSetCurrent, KeptOpenDone,
           KeptStutter
    DEF Next, Writing, Opening, Recovery, Background, Flushing, Compacting

LEMMA KeptInit == Init => KeptInv
<1> SUFFICES ASSUME Init PROVE Kept
  BY DEF KeptInv
<1>1. DOMAIN logs = {} /\ current \in {0, 1} /\ status = "down" /\ promised = {}
      /\ (current = 1 => Len(manifests[current].records) = 1)
  BY InitialDisk DEF Init
<1>2. LogsWhole
  BY <1>1 DEF LogsWhole
<1>3. ManifestWhole
  <2>1. current # 0 => Len(manifests[current].records) - 1 = 0
    BY <1>1
  <2>2. \A i \in 1 .. 0 : FALSE
    OBVIOUS
  <2> QED BY <2>1, <2>2 DEF ManifestWhole
<1> QED BY <1>1, <1>2, <1>3 DEF Kept

(***************************************************************************)
(* An acknowledged write is in what a reader of the open database sees as  *)
(* long as the process lives, and one that asked for a sync after any      *)
(* number of crashes, at whatever step of a write, a flush, a compaction   *)
(* or an earlier recovery they come; and a database that acknowledged a    *)
(* write is never refused as corrupt.  Of the I/O errors, one that         *)
(* RecoverLogFile ignores takes the writes behind it, and no others; what  *)
(* LogGroup, LogAndApply and a masked error of RecoverLogFile may lose is  *)
(* excused by the flaws they record.                                       *)
(***************************************************************************)
THEOREM AcknowledgedSurvive == Spec => []AcknowledgedWritesSurvive
<1>1. Init => QueueInv /\ TablesInv /\ KeptInv
  BY QueueInit, TablesInit, KeptInit
<1>2. Inv1 /\ Inv1' /\ SeqInv /\ QueueInv /\ TablesInv /\ KeptInv /\ [Next]_vars
         => QueueInv' /\ TablesInv' /\ KeptInv'
  BY QueueStep, TablesStep, KeptStep
<1>3. Inv1 /\ KeptInv => AcknowledgedWritesSurvive
  <2> SUFFICES ASSUME Inv1, Kept
               PROVE  /\ status = "open" => \A p \in promised : p[1] \in Contents
                      /\ status = "corrupt" => \A w \in Writers : call[w].state # "ok"
    BY DEF KeptInv, AcknowledgedWritesSurvive
  <2>1. ASSUME status = "open", NEW p \in promised PROVE p[1] \in Contents
    <3>1. p[1] \in mem_ \/ InImm(p[1]) \/ Held(p[1], files_)
      BY <2>1 DEF Kept, KeptOpen
    <3>2. CASE Held(p[1], files_)
      <4>1. PICK f \in files_ : p[1] \in tables[f.number]
        BY <3>2 DEF Held
      <4>2. f.number \in Numbers(files_) \cap DOMAIN tables
        BY <2>1, OpenFacts DEF OpenOK, Numbers
      <4> QED BY <4>1, <4>2 DEF Contents
    <3> QED BY <3>1, <3>2 DEF Contents, InImm
  <2> QED BY <2>1 DEF Kept
<1> QED BY <1>1, <1>2, <1>3, FilesAreInOrder, SeqAlways, PTL DEF Spec
=============================================================================
