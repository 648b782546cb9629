# BabylonHealthDemo: a TLA+ model of the app

BabylonHealthDemo is an iOS app that lists posts and shows the details of one
(author, body, number of comments).  Every retrieval asks a web service first
and, when that fails, a Firebase database with local persistence, to which every
successful download is written.  Everything that matters happens in callbacks:
URLSession handlers, main-queue blocks, Firebase observers, timeouts, dispatch
groups, HUD animations.  Below the Firebase API the repository carries the C and
C++ sources that its store is built on: leveldb, in which a local database is kept,
and nanopb, a protocol-buffer codec.  This directory models the app's callbacks and
these two libraries, checks them with TLC and proves part of it with TLAPS.

Paths below are relative to `src/BabylonHealthDemo/BabylonHealthDemo/` for the app,
to `src/BabylonHealthDemo/Pods/leveldb-library/` for leveldb and to
`src/BabylonHealthDemo/Pods/nanopb/` for nanopb.

## The system

| Part | State it keeps | Operations | Talks to |
|---|---|---|---|
| `Networking/VanillaNetworkingService` | one URLSession task per request; the status bar's activity flag, shared | `performRequest` | URLSession; main queue |
| `Database/FirebaseDatabaseService` | `didTimeout`, `didComplete`, two closures per `read` | `create`, `read` | Firebase client; main queue |
| Firebase client (external) | cache, queued writes, connection; persisted | | Firebase servers |
| `API/BabylonHealthNetworkingAPI` | a `DispatchGroup` and three captured variables per `loadPostDetails` | `loadPosts`, `loadPostDetails` | networking service |
| `API/BabylonHealthDatabaseAPI` | the same per `readPostDetails` | `readPosts`, `readPostDetails`, `writePosts`, `writePostDetails` | database service |
| `Data Retrieval/DataProvider` | none: nested completions | `retrieveAllPosts`, `retrievePostDetails` | both APIs |
| `UI/Posts View` | table rows, navigation stack, alert | `displayPosts`, `didSelectPostCell` | DataProvider, SVProgressHUD |
| SVProgressHUD (vendored) | alpha of one shared view, queued operations, pending fade-outs | `show`, `dismissWithDelay:completion:` | main queue, UIKit |
| leveldb `db/db_impl` | memtables, queue of writers, background error, files in use | `Write`, `Get`, flush, compaction, `Open`, destructor | everything below |
| leveldb `db/version_set` | the levels, compaction pointers, MANIFEST, numbers | `LogAndApply`, `Recover`, `PickCompaction`, `CompactRange` | log, tables |
| leveldb `db/log_*` | block offset; the reader's buffer and fragments | `AddRecord`, `ReadRecord` | files |
| leveldb `table/*` | a table file: blocks, index, filters | build, lookup, iterate | files |
| leveldb `db/db_iter`, `table/merger` | direction, saved key, children | `Seek`, `Next`, `Prev` | memtables, tables |
| leveldb `db/table_cache`, `util/cache` | open tables, reference counts, mmap slots | `FindTable`, `Evict`, `Release` | `DBImpl`, `PosixEnv` |
| leveldb `db/skiplist` | links of a memtable, read without a lock | `Insert`, searches | `DBImpl` |
| leveldb `util/env_posix` | LOCK files held, queue of the background thread | `LockFile`, `UnlockFile`, `Schedule` | kernel |
| nanopb | streams over buffers, descriptors, structs | `pb_encode`, `pb_decode` | |

What is hard here: the race of a Firebase snapshot with the timeout block of
`read`; two legs joined by a dispatch group, each ending in one of several ways,
possibly before the second has entered; force-unwrapped optionals whose safety
depends on all of that; writes that are acknowledged long after the app has
moved on, in another launch or never; one HUD shared by overlapping retrievals,
with a delay and an animation between a dismissal and its effect.
In leveldb: a crash between any two steps of a flush, a compaction, a MANIFEST
record and a deletion; I/O errors in the middle of any of them; work done with the
mutex released; readers that take no lock; formats that are read back after having
been cut short or damaged.  In nanopb: two encoding passes that must agree, nested
lengths, integer ranges, arbitrary bytes.  `PROJECT.json` lists the hazards at their
lines.

What makes each part correct: a request, a read and a retrieval each call their
completion exactly once; a read is answered with data of its node; what was
downloaded stays readable offline, under the post it was filed under; the HUD goes away and
the responses reach the screen.  An acknowledged write survives; a read returns the
last write its snapshot covers; nothing in use is deleted, closed or overrun; every
write returns; what is decoded is what was encoded, or an error, but for one kind of
message (see Nanopb below).

## Modules

| Module | Models |
|---|---|
| `ResponseType` | `ResponseType<T>` and the errors |
| `VanillaNetworkingService` | `performRequest` |
| `FirebaseDatabaseService` | `create`, `read`, over the Firebase client |
| `Retrieval` | abstract: what DataProvider promises |
| `DataProvider` | both APIs and DataProvider, composing instances of the two services (`N`, `F`) |
| `SVProgressHUD` | the HUD |
| `PostsView` | the posts screen, composing `SVProgressHUD` (`H`) and `Retrieval` (`P`) |
| `DBImpl` | the write queue, memtable switch, background work, MANIFEST, file deletion, shutdown, crash and recovery |
| `VersionSet` | the levels: reads, flush levels, picking, merging and installing compactions |
| `Log` | the log writer and reader |
| `Table` | table builder, block builder, filters, table reader and its two-level iterator |
| `DBIter` | merging iterator and database iterator |
| `TableCache` | table cache on the LRU cache |
| `SkipList` | the lock-free skip list |
| `PosixEnv` | LOCK file and background thread |
| `PbCommon`, `PbEncode`, `PbDecode`, `Nanopb` | descriptors and structs, the encoder, the decoder, and a message's way from one to the other |
| `MC*` | instances for TLC |
| `Induction` | lemmas: induction over numbers and finite sets, results of loops, totals, sorting |
| `MCApp_proofs` | theorems of `FirebaseDatabaseService`, `VanillaNetworkingService` and `PostsView` |
| `DataProvider_proofs` | theorems of `DataProvider` |
| `DBImpl_proofs` | theorems of `DBImpl`: its files, then its writes |
| `VersionSet_proofs` | theorems of `VersionSet` |
| `Log_proofs` | theorems of `Log` |
| `DBIter_proofs` | theorems of `DBIter` |
| `Runtime_proofs` | theorems of `SkipList`, `PosixEnv` and `TableCache` |

An action is one main-queue block with every closure it calls synchronously;
completions are called directly, so a network answer that fails and starts the
database reads is a single step.  The URLSession handler runs on its own queue
and is a step of its own.

* **VanillaNetworkingService.** `task[q]` is idle, running, queued (handler ran,
  main block waits) or done.  `RefuseRequest` is the URL guard; none of the
  routes in `Constants.swift` makes it fail, but the callers' code for it is kept.
* **FirebaseDatabaseService.** `reads[r]` holds the two flags and which of the
  two closures is still to run; `completions` counts calls of the completion.
  The client is external: `View(n)` is the last queued write to n, else the
  cached value; an observer is answered from there, else by the server when there
  is a connection, else never (the case the comment in `read` names).  Writing an
  empty collection removes the node.  A refused write is rolled back.  Persistence
  keeps cache and queued writes over a relaunch.
* **DataProvider.** `call[c]` is idle, in its network phase, in its database phase
  or done, with the dispatch group of the phase (`count`, `notify`, and the
  captured `user`, `comments`, `responseError`).  A user is its id; a list of
  comments is one of `CommentLists`, and `PostsOf` says which posts its comments
  belong to.  The comments query uses the key `postid` while a comment's key is
  `postId`, so a server need not filter: a list may begin with any post's comment and
  go on with another's.  `writePostDetails` files the whole list under the post of its
  first comment, and a reader gets it back whole; the properties about details are
  stated for such lists.  `trap` names what the process died of: a force-unwrap, or the
  exception that `JSONSerialization.data` raises, past any `try?`, on a database value
  that is neither array nor object.  `ForeignData` is what other clients may have left
  in the database (data that does not decode, and such a scalar).  `downloaded`,
  `rejected` and `inherited` (what was on the server at first) are history variables.
* **Retrieval** is the promise to the screens: pending, then succeeded or failed,
  once, unless the process dies.
* **SVProgressHUD.** `alpha` takes the end values of the animations, which UIKit
  assigns at once.  A dismissal is queued, then delayed, then fading; its
  completion runs only when `alpha` is 0 at the end.  dispatch_after blocks may be
  coalesced and animations cancelled, so `delayed` and `fading` are sets.
* **PostsView.** A row can be tapped when the list has rows, is on top and has no
  alert on it; the HUD does not prevent it (default mask type).  UIKit's part (a
  second alert is refused, the back button) is external.

* **DBImpl.** A step is what a thread does between two points at which it releases
  `mutex_`.  A write carries one entry `<<seq, w>>`; files are numbers; of a level
  only "0 or deeper" is kept, because levels are the subject of `VersionSet`.
  `Crash` keeps a prefix of every log and MANIFEST, at least what was synced.
  Recovery takes one log after the other; a memtable that gets too large in the middle
  of a log goes to a table of its own (`RecoverTable`), the rest to a last one
  (`RecoverLogFile`), and any of these writes may fail.  A log that cannot be opened,
  or whose reading fails at some record, ends there with no error: `MaybeIgnoreError`
  and a reporter without a status swallow it, and the log is deleted when the database
  is open.  A NULL batch (`TEST_CompactMemTable`) waits for the memtable it switched
  to be flushed (`ForceDone`).
  `promised` is the history of acknowledged writes that neither a crash nor an ignored
  error of recovery may have taken: a crash takes those that were not synced, an
  ignored error exactly those in the records it kept recovery from reading.  `flaws`
  records three situations in which the code gives up the whole promise: a log record
  or a MANIFEST record that failed half way and was written behind (only a failed
  *sync* of the log sets a background error), and an error in recovery that a later log
  masked.
* **VersionSet.** An entry is `[key, seq, type]`, its value its sequence number; the
  size of a table is its number of entries.  A merge is one step at its end
  (`InstallCompactionResults`), with writes, snapshots and flushes between its start
  and its end.  `exposed` records the two situations in which the levels are not what
  the comments say: a user key split over two tables, and a memtable flushed into
  the output range of a manual compaction.  The sorting that the code leaves to
  `std::sort`, `std::set` or a merging iterator is by rank (`InOrder`); its loops over
  levels and tables are recursive functions of their rounds.  The databases to start
  from are a constant, `Stored`; `StoredIsSound` says which ones the code could have
  left.
* **Log.** A file is a sequence of cells, a header three of them; a checksum is the
  type and payload it was computed from.  Cells that are not what the writer put
  there read as one of a few arbitrary lengths.
* **Table.** Keys are byte sequences with a tag; blocks, restarts, shared prefixes,
  shortened index keys and Bloom filters are computed as the code does, from sizes
  counted in cells.
* **DBIter.** Children are sets of entries with a position; user keys are numbers.
  `position` is where a cursor over the user's view would be.  A loop of the code is a
  recursive function of its rounds, with as many rounds as there are entries.
* **TableCache, SkipList, PosixEnv.** A step is one operation under the lock that the
  code takes, or one load or store where it takes none.  A chain of the hash table is
  the set of its entries (keys are unique in it), the LRU list a sequence.
* **Nanopb.** Bytes have 4 bits and the integer widths are 8 and 16 so that TLC can
  enumerate.  `Transmitted` is the reference for what must arrive; it uses nothing of
  the encoder's, and says that every member arrives as it was sent, with one exception:
  a singular proto3 submessage that stores only zeros (`Lost`) arrives as the default,
  even when a has_ in it is set or its array begins with zero, because
  `pb_check_proto3_default_value` looks neither at has_, counts and which_ nor behind
  the first item.  The run has such messages.  The shift by the
  width of a word in `pb_decode_noinit` is undefined and is a choice of its two
  outcomes.

`DBImpl`, `VersionSet`, `Log`, `Table` and `DBIter` meet at these facts: `DBImpl`
takes from `Log` that a cut log reads as a prefix and that records behind a torn one
may or may not be read; from `VersionSet` that a compaction's output has the contents
of its inputs; `VersionSet` takes from `Table` that a table answers with its newest
entry; `DBIter` that tables and memtables iterate in order.

Definitions commented "Variant" are not part of the model: each is a definition
with a plausible bug, used to confirm that a property notices it.

## Runs

Parts that share no state are checked in one run: a variable `subject`, chosen in the
initial state, says which part the behaviour is one of, and the others stay in one
initial state.  The reachable states are the union of those of the parts, and a
property of a part is checked on all of its behaviours.

| Run | Instance | Shows |
|---|---|---|
| `app_parts` | 2 nodes, 2 reads, 2 queued writes per node; or 3 concurrent requests; or the list and 3 taps | each read is answered exactly once and with data of its own node, and a node is forgotten only through a refused write; each request completes and the indicator is never left on; the HUD goes away, the posts always reach the screen, a tap's response is lost only if a show ran during its fade-out |
| `data_provider` | 1 retrieval per launch, 2 launches, 2 posts of one author, 3 lists of comments, one of them mixed | details answered by the database are the post's author and a whole list that was filed under the post; details downloaded with a list that begins with the post's comment stay readable, offline and after a relaunch, unless the server refused a write |
| `retrieval_refinement` | 1 retrieval, 1 post, 2 launches, undecodable or unconvertible data possible in the database | DataProvider implements Retrieval with its liveness; dispatch groups balanced; no closure of a phase that is over; `responseError!` never nil; one completion |
| `db` | 3 writers (one syncs, one may, one may force a compaction), memtables that hold one entry and are full with two, at most 3 of crashes, I/O errors, shutdowns and pinned versions | acknowledged writes survive, but for those behind an error that recovery ignores; nothing in use is deleted; sequence numbers are unique; every write returns (liveness) |
| `stored` | levels: 3 keys, 4 levels, from an empty database (3 writes, a snapshot, a seek), from one with two full levels and from one with overlapping tables and a snapshot; or a log: 2 records over blocks of 8 cells, a cut, one damaged cell, one I/O error, 2 starting offsets | tables below level 0 stay disjoint; every reader sees the last write of its snapshot; the log reader fabricates nothing, loses no more than the damage explains and does not call a crash a corruption |
| `tables` | a table of up to 7 keys with 1 unreadable block; or an iterator over 2 children, 3 keys, 3 writes, 1 more meanwhile, 1 unparsable entry | lookups find exactly what is there; the two-level iterator is exact and keeps errors; the database iterator shows its snapshot in whatever direction it is moved |
| `runtime` | nanopb: 12 message types, buffers of every size, damage, truncation, repetition; or the table cache with 2 threads and 3 files; or the skip list with 4 keys and height 3; or LOCK with 2 processes of 2 threads; or 3 scheduled items | messages round-trip but for proto3 submessages of zeros, sizes agree, decoding stays inside; tables outlive readers, resources are accounted for; searches miss nothing; one lock holder; work is run |
| `empty_users` (violation) | as `data_provider` | an empty array of users traps at `.first!` |
| `details_offline` (violation) | as `data_provider` | downloaded details without comments, or with a list that begins with another post's comment, are not readable offline |
| `hud_overlap` (violation) | the list and 2 taps | one tap's dismissal hides the HUD while another is loading |
| `recovery_error` (violation) | as `db`, at most 2 events | an error that recovery meets in one log is masked by the next, and Open succeeds |
| `levels_split` (violation) | as `stored` | a user key split over two tables ends with its newer version below its older one |

Bounds.  Two reads give every pairwise race; more only add copies, because calls
share nothing but the nodes and the indicator.  The safety properties of `app_parts`,
`data_provider`, `retrieval_refinement` and `db`, those of the database iterator, the
table cache, the skip list, the LOCK file and the background thread, and
`TablesDisjoint`, `CrashIsNotCorruption` and `DamageIsContained` do not rest on their
bounds: they are theorems.  Two launches are what a write before and a read after a
relaunch need.  Two posts whose ids overlap with the author's tell a post's comments from
another's and catch swapped ids.  Three taps let a dismissal be overtaken by a show
that is itself dismissed.  `MaxPending` and `MaxLaunches` are bounds of the model
only.  In `db`, a memtable is full with two entries, so the third write, or one that
forces a compaction, switches memtables, and two level-0 tables start a compaction: three
writes over a stored table reach every step of flush and compaction, and a log with two
entries makes recovery write a table in the middle of it.  Three events give a crash
after an error that recovery ignored, a crash after a crash, a crash after an error and
a crash while a version is pinned.  In `stored`, kTargetFileSize 2 and
MaxBytesForLevel1 2 make every kind of compaction start within three writes, and four
levels leave room below the deepest level a flush may pick; a record of 11 cells takes
three blocks of 8, so that FIRST, MIDDLE and LAST occur, and after records of 2 or 3
cells a block is left with room for a header only (an empty FIRST fragment) or for
less (a trailer).  In `tables`, a block of 9
cells and filters of 12 put several blocks on one filter and several filters in one
block.  In `runtime`, a capacity of 2 with one file of charge 2 makes eviction happen
with handles in use; a word of `fields_seen` has two bits, so that three required
fields need two words.  Constants are scaled down and keep their order
(kHeaderSize < kBlockSize, compaction trigger < stop trigger).

Fairness.  In the app, weak fairness for what the platform guarantees: URLSession ends
every task (`timeoutInterval` is 3 s), the main queue runs its blocks, asyncAfter and
dispatch_after blocks become due, a group's notify block runs, animations end.  None
for Firebase's observers, the connection, the servers, relaunches or the user.  In
`PostsView` the data provider answers, which `retrieval_refinement` establishes.  In
`DBImpl`, weak fairness for the writer at the front of the queue, for the background
thread and for the destructor: threads that have been created and signalled get to
run.  None for new calls, crashes, errors or opening.

Deadlock checking is off where everything may be over: all requests, taps or writes
done, a database corrupt, a log read to its end, a message decoded.

## Proofs

Proved with TLAPS, for every value of the constants that satisfies the named
assumptions.  "Proved" is always about the specification of the module: the theorem is
the property that a run checks, with the same definition.

| Proof module | Theorem | Property, or what it says |
|---|---|---|
| `MCApp_proofs` | `TypeCorrect` | `TypeOK` |
| | `NoSecondCompletion` | `AtMostOneCompletion` |
| | `FlagsTellTheAnswer` | `FlagsConsistent` |
| | `AnswersAreTheNodes` | `AnswersComeFromTheNode` |
| | `LocalDatabaseKeepsNodes` | `OnlyRejectionForgets`, an action property |
| | `PartsTyped` | `PartsTypeOK` |
| | `IndicatorIsTruthful` | `IndicatorMeansBusy` |
| | `OnlyOvertakenIsLost` | `LostOnlyIfOvertaken` |
| | `PostsAreNeverLost` | the answer to `displayPosts` is never lost |
| `DataProvider_proofs` | `ErrorIsNeverNil` | `NoNilUnwrap` |
| | `RetrievalCompletesOnce` | `CompletionOnce` |
| | `NoStrayClosure` | `ClosuresMatchPhase` |
| | `GroupsBalanced` | `GroupCountsOutstandingLegs` |
| | `ProviderTyped` | `TypeOK` |
| | `DatabaseAnswersTheSelectedPost` | `DatabaseDetailsMatchPost` |
| | `DownloadsAreKept` | `DownloadedStaysReadable` |
| | `RetrievalIsRefined` | the safety half of `ImplementsRetrieval` |
| `Runtime_proofs` | `ReadersMissNothing` | `SearchesMissNothing` |
| | `LockKeepsOneUser` | `OneLockHolder` |
| | `NoWakeupLost` | `BackgroundWorkIsRun` |
| | `CacheInvariant` | the invariant of the two caches, `CacheInv` |
| | `CacheTablesOutliveReaders` | `TablesOutliveReaders` |
| | `CacheResourcesAccounted` | `ResourcesAccounted` |
| `VersionSet_proofs` | `LevelsInvariant` | the invariant of the levels, `LevelsInv` |
| | `LevelsTablesDisjoint` | `TablesDisjoint` |
| `Log_proofs` | `CrashReportsNothing` | `CrashIsNotCorruption` |
| | `DamageStaysContained` | `DamageIsContained` |
| `DBIter_proofs` | `IteratorInvariant` | the invariant of the iterator, `DBIterInv` |
| | `IteratorSnapshot` | `IteratorShowsSnapshot` |
| `DBImpl_proofs` | `FilesAreInOrder` | the invariant of the directory, `Inv1` |
| | `DeletionIsSafe` | `NothingInUseIsDeleted` |
| | `SequenceNumbersAreUnique` | `SequenceNumbersUnique` |
| | `AcknowledgedSurvive` | `AcknowledgedWritesSurvive` |

**FirebaseDatabaseService**, from `StoreAssumption` (the markers `Null`, `Unknown` and
`NoResponse` are not values).  `AtMostOneCompletion` is not inductive: a state with
one completion, both flags unset and the timer armed satisfies it and its successor
does not.  The inductive invariant `Inv` adds that the flags tell whether the
completion has been called and that a closure that is still to run finds its own flag
unset (`FlagsConsistent`), the types, and that answers are the node's own.  It splits
into the client's store (`GoodStore`) and one predicate per read (`GoodRead`); one
lemma per closure shows that it keeps `GoodRead`, whichever closure ran before.
`OnlyRejectionForgets` is proved from type correctness by cases over the actions.

**DataProvider**, from `DataAssumption` (the markers are no posts or users, every post
has an author, the app is launched at least once) and `MarkersAssumption` (the
assumption of the database service for the instance in use).  That `responseError!` is
never nil needs to know that no leg waits when notify runs, hence that `count` is the
number of waiting legs (`WaitingLegs`); that a leave happens once per leg needs the
flags of the read (`ReadShape`) and that no closure of the network phase survives into
the database phase.  `CallConsistent(c)` collects these for one retrieval.
`StepOfOneCall` reduces a step of the closures of c to `CallConsistent(c)'`, since
retrievals share no closures; `LegCompletionKeepsInv` is the end of a leg in either
phase, and `AfterReadKeepsInv` the race of a snapshot with the timeout.  A process
that has trapped runs no closure, so the invariant asks nothing of its retrievals.
The data properties need what the closures carry as well (`DataInv`): what a leg has
captured is a user, or a list that is known (downloaded, or on the server at first) and
filed under the post it was asked for, and every node of the
database, cached, queued or on the server, holds something that could have been
written to that node.  `RetrievalIsRefined` maps every step to the step of `Retrieval`
it implements, or to a stutter; nothing but `Inv` is needed for it.

**VanillaNetworkingService and PostsView**, from `ScreenAssumption` (the list is not a
post).  The indicator needs no more than the
types.  For the screen, `PostsAnswered` says in which order the posts are shown and
the first tap can happen: before the first tap nothing but the list's own dismissal
can be under way, so nothing overtakes it.

**PosixEnv**, from `NoProcessAssumption`.  Inside a process the lock table admits one
thread at a time, from `locks_.Insert` to `locks_.Remove`, failures included
(`ListersAreListed`, `OneLister`); across processes the kernel does, for who has not
lost the lock is its owner (`HoldersOwn`).  `BackgroundWorkIsRun` is inductive with
the types.

**SkipList**, from `SizesAssumption` (at least one level).  `ListInv` says that every
level is a chain in key order through exactly the nodes linked at that level, that a
node linked at a level is linked at all lower ones, and what the insertion under way
has done and holds in `prev`; `SearchOK` that a search has passed only keys before the
one it looks for and stands on a node of its level.  Each store of the writer is shown
to keep both for a reader that may be anywhere.

**DBImpl**, from `DBAssumption` (which kinds of write there are, and that a group takes
at least one).  A crash may leave any prefix of the MANIFEST from what was synced on, so
every statement about the disk is made for every k in that range, with `View(k)` what
the first k records say.  `Inv1` is the types (`TypeInv`) and five parts: the current
MANIFEST (`CurrentOK`: its tables exist, its numbers are below the next one and grow),
nothing runs while the database is closed (`Quiet`), the stages of `Open`
(`OpeningOK`), the open database (`OpenOK`: memory and MANIFEST agree unless an edit
failed) and the background thread (`BackgroundOK`: an output's number is in no version
until it is installed).  `NothingInUseIsDeleted` follows because files are deleted only
when memory and MANIFEST agree.

**DBImpl, what it keeps**, goes on from `Inv1` with four invariants, each using those before it.
`SeqInv`: sequence numbers on disk, in recovery and in memory are unique and not above
the last one that the same view knows.  `QueueInv`: a group's entries are in the
memtable, and synced if a member asked for it; after an acknowledgement every view of
the MANIFEST can be recovered from (`Solid`).  `TablesInv`: a table about to be
installed holds what it replaces.  `KeptInv`: without a recorded flaw, logs and
MANIFEST are whole, and each promised entry is in the tables or in a log from the
view's log number on, for every view a crash may leave; in what recovery has collected
or has yet to read; and in the memtables or tables of an open database.  An entry behind
an ignored error leaves `promised` in the step in which recovery gives the log up; for
the others the argument needs where in the log recovery is (`rec.read`) and that all
before it is in the tables recovery has made.

The attempt changed the model where it was wrong or could not be reasoned about.  An
append that failed behind a torn MANIFEST record did not count as a flaw; the
inductive argument needed it, and the code gives the same outcome as for a successful
one.  `Replay` (what a MANIFEST says) is in closed form instead of a fold, and the
skip list's `Prev` a choice of the greatest node instead of a recursion.

**TableCache**, from `CacheAssumption` (finitely many readers; hashes, charges and
limits are unsigned, the table has at least one bucket).  `CacheInv` relates the
structures that the code keeps in step by hand: an entry's references are the readers
that hold it, and one more while it is in the list (`EntriesOK`); the list has each
entry once (`IsList`); the hash table has the entries of the list, each in the bucket
of its key, and no two with the same key (`ChainsOK`), so that a lookup finds what is
there and nothing else; `usage_` is the total charge of all entries, those that are only
held included, and the mmap slots left are the limit less the files that are mapped,
by an entry or by a thread between `open` and `Insert` (`Accounts`); `usage_` is above
the capacity only with an empty list (`Trimmed`).  One lemma per step of the code
(`Free`, `Unref`, `TableRemove`, `Resize`, `Insert`, `Release`, `Erase`, a round of the
eviction loop) shows what it keeps; the loop ends because each round takes an entry off
the list.

**VersionSet**, from `LevelsAssumption` (keys are numbers, there are at least two levels
and a memtable passes none that does not exist, `kL0_CompactionTrigger` and
`MaxBytesForLevel1` are positive, and every database to start from is `StoredIsSound`).
Nothing is assumed of the other limits, of the number of tables or of their sizes.  `TablesDisjoint` is not inductive: what a compaction
puts on a level was chosen before writes and flushes went on.  `LevelsInv` therefore
says, as long as no memtable was flushed into the gap of a manual compaction, that

* the tables hold what was written, under numbers below `next_file_number_`, those of
  level 0 under different ones (`FilesOK`; the sorting of level 0 by number needs it);
* the inputs of the compaction in progress are still tables of their levels, and each
  table of the output level that is no input lies to one side of all inputs
  (`CompactionOK`).  When the inputs are picked it does, because it does not meet the
  range of the inputs, and a table beside a range is beside everything in it
  (`BesideInputs`);
* unless the compaction is manual, the inputs leave no gap: what meets none of them lies
  to one side of all of them (`Gapless`).  So a table flushed meanwhile to the output
  level, which meets nothing on the levels it passes, is beside the inputs as well
  (`FlushBeside`).  The inputs of a manual compaction may leave a gap, and a flush into
  it is what `exposed` records.  Inputs from level 0 are gapless because every table
  that widened their range is one of them (`GrownRangeCovers`), and those from a deeper
  level start from a single table;
* the charged table is a table of its level, and a manual request is for a level that
  has a next one.

The outputs hold entries of the inputs only and come one after the other
(`OutputsOf`, an induction over the rounds of the merge), so the version that replaces
the inputs by the outputs keeps the output level apart (`ResultsSound`); a trivial move
does because it has nothing to meet on the next level (`TrivialMoveSound`).  Level by
level, a new version is what is kept with what is added (`Applied`).  The
argument uses neither where outputs are cut nor which entries are dropped: those
matter for `ReadsAreCurrent`.

The proof changed the form of the model, not what it says: filters, sorts and folds of
the library became sets of indices put in order and functions of the rounds of a loop.

**Log**, from `LogAssumption` (a block holds more than two headers; lengths and offsets
are natural numbers).  A file that nothing has gone wrong with is a `Chain`: a fragment
starts at cell 0 and at every block boundary, none crosses one, and where a fragment
ends the next one follows, at once or at the boundary if no header fits; it continues
the record exactly if the one before did not end it.  Every prefix of a chain is a
chain, which is all that a crash needs to know (`IntactInvariant`).  Reading it, the
reader's position is always that of a fragment of the kind its `in_fragmented_record`
calls for, or the end of the file (`AtFragment`), so neither a checksum nor a length
nor a type gives it reason to report.  Writing an empty FIRST fragment, for a block with
room for a header only, was once modelled with the flag `begin` still set afterwards;
the proof did not go through for such a block, the model was wrong (`begin` is cleared
by the first fragment, however long), and the lengths of the run now make it happen.

`DamageIsContained` looks at three things at once, the file as it was written (`d`), the
fragments in it (`F`: where each starts, of which record and from which of its cells
on) and the file as crash and damage have left it (`Left`), and `ContainedInvariant`
says that for every state some `d` and `F` exist.  Every fragment that does not end its
record is followed by the next one of that record (`Written`); while the reader is
before the cut, its position is that of a fragment of `d` (`Scanning`).
Of every record that the property promises, one of three holds
(`Progress`): it is delivered, the reader has not passed its start, or the reader is
inside it and has in `scratch` the cells before the fragment it is at.  The proof is
that of each outcome of `ReadPhysicalRecord` (`Outcomes`): a fragment taken or skipped
leads to the next one; a block given up, for a checksum, a length or a type, ends at
the next boundary, and no promised record starts or goes on between the damage and that
boundary, because it would share the block with a damaged cell before it; `Refill` only
moves on when no header fits.  The invariant of `CrashReportsNothing` is a part of the
argument: while it is written, the file is a chain.

**DBIter**, from `DBIterAssumption` (user keys, children and bounds are numbers).
`DBIterInv` says where the merging iterator is when the iterator is valid: forwards on
the shown entry itself, backwards before every entry of its key, and in both cases no
child has passed an entry of the view that is still to come (`MergerOK`).  Forwards
and backwards are one proof, with the direction as a parameter (`Prior`).  Each loop
(`FindNextUserEntry`, `FindPrevUserEntry`, the skipping in `Prev` and in the merging
iterator) comes to an end since every round leaves fewer entries to come.  A write
meanwhile goes to the memtable with a number beyond the view (`WriteShows`), so it
moves nothing the iterator has yet to show.

**Induction** stands under TableCache, VersionSet and DBIter.  The library states induction for operators, which the
provers cannot instantiate; these lemmas state it for sets (`T` holds 0 and is closed
under successor up to n; a set of subsets that holds the empty one and is closed under
adding an element) and derive them from well-foundedness, and with them loops written as
recursive functions and totals over finite sets can be reasoned about.  A finite set
with a strict total order is put in order by the rank of its elements (`SortedByRank`).

Only model-checked:

* Liveness (`EveryWriteReturns`, `EveryReadAnswered` and the others, and with them the
  liveness half of `ImplementsRetrieval`), which is out of the prover's reach.
* `ReadsAreCurrent`.  It needs, of every state, which entries each level may hold for
  each reader, and of every merge, that what it drops no reader needs; `LevelsInv` is a
  first part of that.
* `NothingFabricated` of `Log`.  Unlike `DamageIsContained` it also speaks of files
  written on after a failed append, whose fragments no longer lie where the writer
  believes, and there `Chain` does not hold.
* `Table`.  It computes with nested folds and filters over sequences; the lemmas of
  `Induction` reach such definitions in principle, and nobody has yet carried it out.
* nanopb: `PbEncode` and `PbDecode` recurse over nested messages with RECURSIVE
  operators.

## Left out

Layout, cells, labels, the details screen's contents, HUD features the app does
not call, logging.  Other clients writing to the Firebase database while the app
runs, and Firebase's cache eviction.  The Firebase frameworks are closed binaries.

Of leveldb: the C bindings, the benchmark and dump tools, `RepairDB` and `DestroyDB`,
which nothing here calls; compression and the block cache; the encodings of version
edits and batches (records in the model); checksums, hashes, varints and the arena,
of which the models use what they promise; memory ordering finer than the
release/acquire pairs of the skip list; blocks whose damage the caller chose not to
look for (`verify_checksums` off); a read of the log from an offset in the middle of
a record beyond the two offsets checked.  Of nanopb: allocation of pointer fields (not
compiled), stream callbacks other than the buffer ones, messages of exactly 64
required fields.  GoogleToolboxForMac wraps zlib.
`FirebaseDatabaseService.temp_caseinsensitive_rename.swift` is not built.  The
tests are empty templates.

That the activity indicator is on whenever a request runs is not claimed: it is
not, because the first of two requests to end turns the shared flag off.  That
every failure is seen is not claimed either: an alert is refused while another is up.

The exceptions that `AcknowledgedWritesSurvive` (`flaws`, and what leaves `promised`),
`RoundTrip` (`Lost`), `TablesDisjoint` and
`ReadsAreCurrent` (`exposed`) and `OneLockHolder` (`lost`) make are situations of the
code: without the exception TLC finds the property violated.

## Plan

1. Done: the services, DataProvider with its refinement, the HUD and the posts
   screen; leveldb's database, levels, log, tables, iterators, cache, skip list and
   environment; nanopb.  Proofs about the app's services, provider and screen, and
   about leveldb's database, levels, log, iterator, cache, skip list and environment.
2. Next proofs: `ReadsAreCurrent` in `VersionSet`, on top of `LevelsInv`; then
   `NothingFabricated` in `Log`.
3. Not planned: the conversions (`asArray`, `asDictionary`, Codable keys), whose
   failures are modelled as "does not decode"; the whole app with `PostsView` over
   `DataProvider`, which the refinement of `Retrieval` makes unnecessary.
