----------------------------- MODULE TableCache -----------------------------
(***************************************************************************)
(* The table cache (db/table_cache.cc) on one shard of the LRU cache       *)
(* (util/cache.cc; shards share nothing), and the files it keeps open      *)
(* through the mmap limiter of util/env_posix.cc.                          *)
(*                                                                         *)
(* LRUCache runs each operation under mutex_, so an operation is one step; *)
(* between them FindTable opens the file without any lock, and two threads *)
(* may open the same one.                                                  *)
(***************************************************************************)
EXTENDS Integers, Sequences, FiniteSets, SequencesExt

CONSTANTS
    Readers,    \* threads in TableCache::Get or holding an iterator
    Files,      \* file numbers, the keys of the cache
    Hash,       \* Hash[f]: the hash of a key
    Charge,     \* Charge[f] (1 for a table, its size for a block)
    Capacity,   \* of the shard: (capacity + kNumShards - 1) / kNumShards
    MinBuckets, \* the smallest hash table (4)
    MmapLimit   \* mmap slots (1000)

(* A hash, a charge and the limits are unsigned. *)
ASSUME CacheAssumption ==
    /\ IsFiniteSet(Readers)
    /\ Hash \in [Files -> Nat] /\ Charge \in [Files -> Nat]
    /\ Capacity \in Nat /\ MmapLimit \in Nat /\ MinBuckets \in Nat \ {0}

VARIABLES
    lruCache,   \* the shard, and the slots left in the limiter
    reader      \* where each thread is

cacheVars == <<lruCache, reader>>

(* LRUHandle: entries[h] is [key, refs, mmap] until it is freed.  table    *)
(* has one chain per bucket (a set: a key is once in the table, so the     *)
(* order of a chain shows nowhere), lru the handles from the oldest on.    *)
EmptyCache ==
    [entries |-> <<>>, table |-> [b \in 1 .. MinBuckets |-> {}], elems |-> 0,
     lru |-> <<>>, usage |-> 0, allowed |-> MmapLimit]

----------------------------------------------------------------------------
(* HandleTable                                                             *)

Bucket(table, f) == 1 + (Hash[f] % Len(table))

(* FindPointer: the handle with key f, or none. *)
TableLookup(c, f) == {h \in c.table[Bucket(c.table, f)] : c.entries[h].key = f}

TableRemove(c, f) ==
    IF TableLookup(c, f) = {} THEN c
    ELSE [c EXCEPT !.table[Bucket(c.table, f)] = @ \ TableLookup(c, f), !.elems = @ - 1]

(* Resize: the smallest power of two times MinBuckets that is enough, by   *)
(* doubling; each handle moves to the chain its hash now selects.          *)
NewLength(elems) ==
    LET length[n \in 0 .. elems] ==
            IF n = 0 THEN MinBuckets
            ELSE IF length[n - 1] < elems THEN 2 * length[n - 1] ELSE length[n - 1]
    IN  length[elems]
Resize(c) ==
    LET handles == UNION Range(c.table)
        n       == NewLength(c.elems)
    IN  [c EXCEPT !.table = [b \in 1 .. n |->
            {h \in handles : 1 + (Hash[c.entries[h].key] % n) = b}]]

(* Insert: in the place of a handle with the same key, or at the end. *)
TableInsert(c, h) ==
    LET f   == c.entries[h].key
        old == TableLookup(c, f)
        put == [c EXCEPT !.table[Bucket(c.table, f)] = (@ \ old) \cup {h},
                         !.elems = IF old = {} THEN @ + 1 ELSE @]
    IN  IF put.elems > Len(put.table) THEN Resize(put) ELSE put

----------------------------------------------------------------------------
(* LRUCache                                                                *)

LRURemove(c, h) == [c EXCEPT !.lru = RemoveAt(@, CHOOSE i \in DOMAIN @ : @[i] = h)]
LRUAppend(c, h) == [c EXCEPT !.lru = Append(@, h)]

(* DeleteEntry, ~PosixMmapReadableFile: a mapped file returns its slot. *)
CloseFile(c, mmap) == IF mmap THEN [c EXCEPT !.allowed = @ + 1] ELSE c

KeepsUsage(c, h) ==                                         \* variant of Free
    CloseFile([c EXCEPT !.entries = [x \in DOMAIN @ \ {h} |-> @[x]]], c.entries[h].mmap)
Free(c, h) ==
    CloseFile([c EXCEPT !.usage   = @ - Charge[c.entries[h].key],
                        !.entries = [x \in DOMAIN @ \ {h} |-> @[x]]],
              c.entries[h].mmap)
Unref(c, h) ==
    IF c.entries[h].refs = 1 THEN Free(c, h) ELSE [c EXCEPT !.entries[h].refs = @ - 1]

(* Lookup, when the key is there. *)
LookupHit(c, h) == LRUAppend(LRURemove([c EXCEPT !.entries[h].refs = @ + 1], h), h)

(* The loop at the end of Insert: the oldest goes while usage_ is above    *)
(* capacity_, the new handle itself in the end; no more rounds than        *)
(* handles.                                                                *)
EvictOne(c) ==
    IF c.usage <= Capacity \/ c.lru = <<>> THEN c
    ELSE LET h == Head(c.lru)
         IN  Unref(TableRemove(LRURemove(c, h), c.entries[h].key), h)
EvictOldest(c) ==
    LET after[n \in 0 .. Len(c.lru)] == IF n = 0 THEN c ELSE EvictOne(after[n - 1])
    IN  after[Len(c.lru)]

NewHandle(c) == CHOOSE h \in 1 .. Cardinality(DOMAIN c.entries) + 1 : h \notin DOMAIN c.entries

ReplacedStaysListed(c, old) ==                              \* variant of Replaced
    IF old = {} THEN c ELSE LET h == CHOOSE h \in old : TRUE IN Unref(c, h)
(* Insert and Erase: a handle taken out of the table leaves the list and   *)
(* loses the cache's reference.                                            *)
Replaced(c, old) ==
    IF old = {} THEN c
    ELSE LET h == CHOOSE h \in old : TRUE IN Unref(LRURemove(c, h), h)

(* malloc of the LRUHandle; one reference for the cache, one returned. *)
NewEntry(c, f, mmap) ==
    LET h == NewHandle(c)
    IN  [c EXCEPT !.usage   = @ + Charge[f],
                  !.entries = [x \in DOMAIN @ \cup {h} |->
                      IF x = h THEN [key |-> f, refs |-> 2, mmap |-> mmap] ELSE @[x]]]

Insert(c, f, mmap) ==
    LET h == NewHandle(c)
    IN  EvictOldest(Replaced(TableInsert(LRUAppend(NewEntry(c, f, mmap), h), h),
                             TableLookup(c, f)))

Erase(c, f) == Replaced(TableRemove(c, f), TableLookup(c, f))

----------------------------------------------------------------------------
(* TableCache                                                              *)

Idle == [at |-> "idle"]
At(r, where) == reader[r].at = where

CacheInit ==
    /\ lruCache = EmptyCache
    /\ reader = [r \in Readers |-> Idle]

(* FindTable, cache_->Lookup. *)
FindTable(r, f) ==
    /\ At(r, "idle")
    /\ \/ /\ TableLookup(lruCache, f) = {}
          /\ reader' = [reader EXCEPT ![r] = [at |-> "open", file |-> f, name |-> "ldb"]]
          /\ UNCHANGED lruCache
       \/ \E h \in TableLookup(lruCache, f) :
          /\ reader' = [reader EXCEPT ![r] = [at |-> "using", file |-> f, handle |-> h]]
          /\ lruCache' = LookupHit(lruCache, h)

(* NewRandomAccessFile failed: FindTable tries the old name once. *)
OpenFailed(r) ==
    reader' = [reader EXCEPT ![r] = IF @.name = "ldb"
                                    THEN [at |-> "open", file |-> @.file, name |-> "sst"]
                                    ELSE Idle]
Opened(r, how) ==
    reader' = [reader EXCEPT ![r] = [at |-> "table", file |-> @.file, mmap |-> how]]

(* NewRandomAccessFile: open(), then Acquire's look without the lock. *)
OpenFile(r) ==
    /\ At(r, "open")
    /\ \/ OpenFailed(r)
       \/ lruCache.allowed <= 0 /\ Opened(r, FALSE)
       \/ /\ lruCache.allowed > 0
          /\ reader' = [reader EXCEPT ![r].at = "slot"]
    /\ UNCHANGED lruCache

(* MmapLimiter::Acquire under mu_. *)
AcquireSlot(r) ==
    /\ At(r, "slot")
    /\ IF lruCache.allowed <= 0
       THEN Opened(r, FALSE) /\ UNCHANGED lruCache
       ELSE /\ reader' = [reader EXCEPT ![r].at = "map"]
            /\ lruCache' = [lruCache EXCEPT !.allowed = @ - 1]

(* GetFileSize and mmap; a failure gives the slot back. *)
MapFile(r) ==
    /\ At(r, "map")
    /\ \/ Opened(r, TRUE) /\ UNCHANGED lruCache
       \/ OpenFailed(r) /\ lruCache' = CloseFile(lruCache, TRUE)

(* Table::Open; "We do not cache error results": a failure closes the file.*)
OpenTable(r) ==
    /\ At(r, "table")
    /\ \/ /\ reader' = [reader EXCEPT ![r].at = "insert"]
          /\ UNCHANGED lruCache
       \/ /\ reader' = [reader EXCEPT ![r] = Idle]
          /\ lruCache' = CloseFile(lruCache, reader[r].mmap)

InsertTable(r) ==
    /\ At(r, "insert")
    /\ lruCache' = Insert(lruCache, reader[r].file, reader[r].mmap)
    /\ reader' = [reader EXCEPT ![r] = [at |-> "using", file |-> @.file,
                                        handle |-> NewHandle(lruCache)]]

(* The end of Get, or UnrefEntry when an iterator is deleted. *)
ReleaseTable(r) ==
    /\ At(r, "using")
    /\ lruCache' = Unref(lruCache, reader[r].handle)
    /\ reader' = [reader EXCEPT ![r] = Idle]

(* Evict, from DeleteObsoleteFiles. *)
Evict(f) == lruCache' = Erase(lruCache, f) /\ UNCHANGED reader

CacheNext ==
    \/ \E r \in Readers :
          \/ \E f \in Files : FindTable(r, f)
          \/ OpenFile(r) \/ AcquireSlot(r) \/ MapFile(r) \/ OpenTable(r)
          \/ InsertTable(r) \/ ReleaseTable(r)
    \/ \E f \in Files : Evict(f)

CacheSpec == CacheInit /\ [][CacheNext]_cacheVars

----------------------------------------------------------------------------
(* Properties                                                              *)

Holders(h) == {r \in Readers : At(r, "using") /\ reader[r].handle = h}
Listed == Range(lruCache.lru)

(* A table is closed exactly when the cache and every reader have dropped  *)
(* it: the reference count of LRUHandle counts the readers that hold it    *)
(* and the hash table, the hash table finds what the list holds (also      *)
(* after Resize), and a reader's handle is still the table it asked for,   *)
(* even when it was evicted, or replaced by a second reader that opened    *)
(* the same file.                                                          *)
TablesOutliveReaders ==
    /\ \A h \in DOMAIN lruCache.entries :
          /\ lruCache.entries[h].refs = Cardinality(Holders(h)) + (IF h \in Listed THEN 1 ELSE 0)
          /\ h \in Listed <=> TableLookup(lruCache, lruCache.entries[h].key) = {h}
    /\ \A r \in Readers : At(r, "using") =>
          /\ reader[r].handle \in DOMAIN lruCache.entries
          /\ lruCache.entries[reader[r].handle].key = reader[r].file
    /\ Listed \subseteq DOMAIN lruCache.entries /\ IsInjective(lruCache.lru)
    /\ lruCache.elems = Cardinality(Listed)

(* usage_ is the charge of the tables not yet closed, above capacity_ only *)
(* when nothing is left to evict; and every mmap slot is in the limiter or *)
(* with one file, whichever way an open fails.                             *)
Usage(c) == MapThenSumSet(LAMBDA h : Charge[c.entries[h].key], DOMAIN c.entries)
Mapped(c) == {h \in DOMAIN c.entries : c.entries[h].mmap}
Opening == {r \in Readers : \/ At(r, "map")
                            \/ reader[r].at \in {"table", "insert"} /\ reader[r].mmap}
ResourcesAccounted ==
    /\ lruCache.usage = Usage(lruCache)
    /\ lruCache.usage > Capacity => lruCache.lru = <<>>
    /\ lruCache.allowed + Cardinality(Mapped(lruCache)) + Cardinality(Opening) = MmapLimit
    /\ lruCache.allowed >= 0
=============================================================================
