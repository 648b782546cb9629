------------------------------- MODULE Table -------------------------------
(***************************************************************************)
(* The sorted table files of leveldb: TableBuilder and BlockBuilder write  *)
(* one (prefix compression, restart points, shortened index keys, a Bloom  *)
(* filter for every kFilterBase cells of the file), and Table, Block::Iter *)
(* and TwoLevelIterator read it back, some of its blocks unreadable.       *)
(*                                                                         *)
(* An internal key is a user key, a sequence of bytes, followed by one     *)
(* cell for its tag (8 bytes in the code: sequence number and type).  The  *)
(* offset of an entry in its block is its number, counted from 0, and a    *)
(* block handle is the block's offset in the file, in cells.  A block that *)
(* is read is as it was written: what ReadBlock cannot read or finds       *)
(* damaged is an error, so the branches of Block::Iter for malformed       *)
(* entries are not taken.                                                  *)
(***************************************************************************)
EXTENDS Integers, Sequences, FiniteSets

CONSTANTS
    InternalKeys,            \* the keys that may be added
    Targets,                 \* the keys that are looked up
    MaxByte,                 \* the largest byte (0xff in the code)
    MaxTag,                  \* kMaxSequenceNumber and kValueTypeForSeek
    ValueSize,               \* the cells of the value stored with each key
    block_restart_interval, block_size, kFilterBase,
    BloomHash,               \* the hash of each user key, below 2^HashBits
    HashBits, bits_per_key, MinFilterBits,
    MaxBadBlocks             \* bound: data blocks that cannot be read

ASSUME TableAssumption ==
    /\ block_restart_interval \in Nat \ {0} /\ block_size \in Nat
    /\ kFilterBase \in Nat \ {0} /\ bits_per_key \in Nat
    /\ MaxByte \in Nat /\ MaxTag \in Nat /\ HashBits \in {2, 4}
    /\ ValueSize \in [InternalKeys -> Nat] /\ MaxBadBlocks \in Nat

VARIABLES
    table_pc,                \* "build", "open" or "abandoned"
    added,                   \* history: [key, block] of every entry added
    data_block, index_block, \* BlockBuilder
    table_offset, last_key, pending_index_entry, pending_handle,
    filter_keys, filters,    \* FilterBlockBuilder: pending keys, filters made
    table_file,              \* the data blocks written, by offset
    bad_blocks, filter_read, \* blocks that cannot be read; filter is loaded
    table_iter,              \* the TwoLevelIterator
    cursor,                  \* the entry a reader in order would be at, or 0
    skipped                  \* history: an entry was passed over

builderVars == <<added, data_block, index_block, table_offset, last_key,
                 pending_index_entry, pending_handle, filter_keys, filters,
                 table_file>>
readerVars  == <<bad_blocks, filter_read, table_iter, cursor, skipped>>
tableVars   == <<table_pc, builderVars, readerVars>>

Highest(S) == CHOOSE x \in S : \A y \in S : y <= x
Lowest(S)  == CHOOSE x \in S : \A y \in S : x <= y

----------------------------------------------------------------------------
(* Comparators                                                             *)

UserKey(k) == SubSeq(k, 1, Len(k) - 1)
Tag(k)     == k[Len(k)]

CommonPrefix(a, b) ==
    Highest({n \in 0 .. Len(a) : n <= Len(b) /\ SubSeq(a, 1, n) = SubSeq(b, 1, n)})

BytewiseLess(a, b) ==
    LET n == CommonPrefix(a, b)
    IN n < Len(b) /\ (n < Len(a) => a[n + 1] < b[n + 1])

InternalLess(a, b) == \/ BytewiseLess(UserKey(a), UserKey(b))
                      \/ UserKey(a) = UserKey(b) /\ Tag(a) > Tag(b)

(* A user key cut after its n-th byte, that byte incremented.              *)
CutAfter(k, n) == SubSeq(k, 1, n - 1) \o << k[n] + 1 >>

ShortestSeparator(start, limit) ==
    LET n == CommonPrefix(start, limit) + 1
    IN IF n <= Len(start) /\ n <= Len(limit) /\ start[n] < MaxByte
          /\ start[n] + 1 < limit[n]
       THEN CutAfter(start, n) ELSE start

ShortSuccessor(k) ==
    LET free == {n \in DOMAIN k : k[n] /= MaxByte}
    IN IF free = {} THEN k ELSE CutAfter(k, Lowest(free))

(* The internal comparator replaces a key only by a shorter, larger one,   *)
(* with the tag that sorts before all others of its user key.              *)
Shortened(k, tmp) ==
    IF Len(tmp) < Len(UserKey(k)) /\ BytewiseLess(UserKey(k), tmp)
    THEN Append(tmp, MaxTag) ELSE k

FindShortestSeparator(start, limit) ==
    Shortened(start, ShortestSeparator(UserKey(start), UserKey(limit)))
FindShortSuccessor(k) == Shortened(k, ShortSuccessor(UserKey(k)))

----------------------------------------------------------------------------
(* Bloom filters and the filter block                                      *)

HashRange == 2^HashBits
Probes    == LET k == (bits_per_key * 69) \div 100
             IN IF k < 1 THEN 1 ELSE IF k > 30 THEN 30 ELSE k

(* The bits probed for a user key in a filter of the given size.           *)
BitsOf(user, bits, k) ==
    LET h     == BloomHash[user]
        half  == 2^(HashBits \div 2)
        delta == (h \div half) + ((h * half) % HashRange)
    IN {((h + j * delta) % HashRange) % bits : j \in 0 .. k - 1}

NoFilter == [bits |-> 0, k |-> 0, set |-> {}]

CreateFilter(keys) ==
    LET wanted == Len(keys) * bits_per_key
        bits == ((Highest({wanted, MinFilterBits}) + 7) \div 8) * 8
    IN [bits |-> bits, k |-> Probes,
        set  |-> UNION {BitsOf(UserKey(keys[i]), bits, Probes) : i \in DOMAIN keys}]

BloomMayMatch(key, f) ==
    f.bits > 0 /\ BitsOf(UserKey(key), f.bits, f.k) \subseteq f.set

(* GenerateFilter: an empty filter when no key was added since the last.   *)
Generated(keys) == IF keys = <<>> THEN NoFilter ELSE CreateFilter(keys)

(* StartBlock: filters are generated up to the one of the new block; the   *)
(* first of them takes all pending keys.                                   *)
StartBlockOneFilter(fs, keys, offset) ==                \* variant of StartBlock
    IF offset \div kFilterBase > Len(fs) THEN Append(fs, Generated(keys)) ELSE fs
StartBlock(fs, keys, offset) ==
    LET missing == offset \div kFilterBase - Len(fs)
    IN IF missing > 0
       THEN fs \o [i \in 1 .. missing |->
                      IF i = 1 THEN Generated(keys) ELSE NoFilter]
       ELSE fs

FilterMayMatch(offset, key) ==
    LET index == offset \div kFilterBase + 1
    IN index <= Len(filters) => BloomMayMatch(key, filters[index])

----------------------------------------------------------------------------
(* BlockBuilder                                                            *)

EmptyBlock == [entries |-> <<>>, restarts |-> <<0>>, counter |-> 0,
               last |-> <<>>, size |-> 0]

SharedLength(b, key, interval) ==
    IF b.counter < interval THEN CommonPrefix(b.last, key) ELSE 0

BlockAdd(b, key, value, cells, interval) ==
    LET restart == b.counter >= interval
        shared  == SharedLength(b, key, interval)
        delta   == SubSeq(key, shared + 1, Len(key))
    IN [entries  |-> Append(b.entries, [shared |-> shared, delta |-> delta,
                                        value |-> value]),
        restarts |-> IF restart THEN Append(b.restarts, Len(b.entries))
                     ELSE b.restarts,
        counter  |-> (IF restart THEN 0 ELSE b.counter) + 1,
        last     |-> key,
        size     |-> b.size + 1 + Len(delta) + cells]

CurrentSizeEstimate(b) == b.size + Len(b.restarts) + 1

----------------------------------------------------------------------------
(* TableBuilder                                                            *)

NoIter == [open |-> FALSE]

TableInit ==
    /\ table_pc = "build" /\ added = <<>>
    /\ data_block = EmptyBlock /\ index_block = EmptyBlock
    /\ table_offset = 0 /\ last_key = <<>>
    /\ pending_index_entry = FALSE /\ pending_handle = 0
    /\ filter_keys = <<>> /\ filters = <<>> /\ table_file = <<>>
    /\ bad_blocks = {} /\ filter_read = FALSE
    /\ table_iter = NoIter /\ cursor = 0 /\ skipped = FALSE

(* Flush of data block b: it is written at the current offset and its      *)
(* index entry stays pending until the next key is known.                  *)
Flushed(b) ==
    /\ table_file' = [o \in DOMAIN table_file \cup {table_offset} |->
                         IF o = table_offset THEN b ELSE table_file[o]]
    /\ table_offset' = table_offset + CurrentSizeEstimate(b) + 1
    /\ pending_handle' = table_offset /\ pending_index_entry' = TRUE
    /\ data_block' = EmptyBlock

(* The index entry of the block before, under a key that separates it from *)
(* the next one.                                                           *)
IndexKey(key) == FindShortestSeparator(last_key, key)
IndexedAt(k) ==
    index_block' = IF pending_index_entry
                   THEN BlockAdd(index_block, k, pending_handle, 1, 1)
                   ELSE index_block

AddEntry(key) ==
    LET b == BlockAdd(data_block, key, Len(added) + 1, ValueSize[key],
                      block_restart_interval)
        keys == Append(filter_keys, key)
    IN /\ table_pc = "build"
       /\ last_key /= <<>> => InternalLess(last_key, key)
       /\ added' = Append(added, [key |-> key, block |-> table_offset])
       /\ IndexedAt(IndexKey(key)) /\ last_key' = key
       /\ IF CurrentSizeEstimate(b) >= block_size
          THEN /\ Flushed(b)
               /\ filters' = StartBlock(filters, keys, table_offset')
               /\ filter_keys' = IF filters' = filters THEN keys ELSE <<>>
          ELSE /\ data_block' = b /\ pending_index_entry' = FALSE
               /\ filter_keys' = keys
               /\ UNCHANGED <<table_file, table_offset, pending_handle, filters>>
    /\ UNCHANGED <<table_pc, readerVars>>

(* Finish: the last data block, the filter block, the metaindex block, the *)
(* index block with the entry still pending, and the footer.               *)
FinishTable ==
    /\ table_pc = "build" /\ table_pc' = "built"
    /\ LET flush == data_block.entries /= <<>>
           end   == table_offset + CurrentSizeEstimate(data_block) + 1
           fs    == IF flush THEN StartBlock(filters, filter_keys, end) ELSE filters
           keys  == IF fs = filters THEN filter_keys ELSE <<>>
       IN /\ IF flush THEN Flushed(data_block)
             ELSE UNCHANGED <<table_file, table_offset, pending_handle,
                              pending_index_entry, data_block>>
          /\ filters' = IF keys = <<>> THEN fs ELSE Append(fs, Generated(keys))
          /\ filter_keys' = <<>>
          /\ index_block' =
                IF pending_index_entry'
                THEN BlockAdd(index_block, FindShortSuccessor(last_key),
                              pending_handle', 1, 1)
                ELSE index_block
    /\ UNCHANGED <<added, last_key, readerVars>>

(* Abandon: after an append that failed (status is then set for good, and  *)
(* Add and Finish do nothing more) or an error in the caller's input.      *)
AbandonTable ==
    /\ table_pc = "build" /\ table_pc' = "abandoned"
    /\ UNCHANGED <<builderVars, readerVars>>

----------------------------------------------------------------------------
(* Block::Iter: [block, current, next, restart, key]; next is where the    *)
(* following entry starts (NextEntryOffset), current the number of entries *)
(* when the iterator is not valid.                                         *)

Size(b)         == Len(b.entries)
NumRestarts(b)  == Len(b.restarts)
RestartPoint(b, i) == b.restarts[i + 1]
BlockIter(b) == [block |-> b, current |-> Size(b), next |-> 0,
                 restart |-> NumRestarts(b), key |-> <<>>]
BlockValid(it) == it.current < Size(it.block)
Invalidated(it) == [it EXCEPT !.current = Size(it.block),
                              !.restart = NumRestarts(it.block)]
SeekToRestartPoint(it, i) ==
    [it EXCEPT !.key = <<>>, !.restart = i, !.next = RestartPoint(it.block, i)]

ParseNextKey(it) ==
    LET b == it.block
        e == b.entries[it.next + 1]
        passed == {i \in it.restart + 1 .. NumRestarts(b) - 1 :
                      RestartPoint(b, i) < it.next}
    IN IF it.next >= Size(b) THEN Invalidated(it)
       ELSE [it EXCEPT !.current = it.next, !.next = it.next + 1,
                       !.key = SubSeq(it.key, 1, e.shared) \o e.delta,
                       !.restart = Highest({it.restart} \cup passed)]

(* ParseNextKey again and again, until it fails or Stop holds.             *)
ParseUntil(it, Stop(_)) ==
    LET parsed[n \in 0 .. Size(it.block)] ==
            IF n = 0 THEN ParseNextKey(it)
            ELSE LET p == parsed[n - 1]
                 IN IF ~BlockValid(p) \/ Stop(p) THEN p ELSE ParseNextKey(p)
    IN parsed[Size(it.block)]

BlockSeek(it, target) ==
    LET b == it.block
        last == NumRestarts(b) - 1
        MidKey(i) == b.entries[RestartPoint(b, i) + 1].delta
        search[r \in (0 .. last) \X (0 .. last)] ==
            IF r[1] >= r[2] THEN r[1]
            ELSE LET mid == (r[1] + r[2] + 1) \div 2
                 IN IF InternalLess(MidKey(mid), target)
                    THEN search[<<mid, r[2]>>] ELSE search[<<r[1], mid - 1>>]
        Reached(p) == ~InternalLess(p.key, target)
    IN ParseUntil(SeekToRestartPoint(it, search[<<0, last>>]), Reached)

BlockSeekToFirst(it) == ParseNextKey(SeekToRestartPoint(it, 0))
BlockSeekToLast(it) ==
    LET AtLast(p) == p.next >= Size(p.block)
    IN ParseUntil(SeekToRestartPoint(it, NumRestarts(it.block) - 1), AtLast)
BlockPrev(it) ==
    LET before == {i \in 0 .. it.restart :
                      RestartPoint(it.block, i) < it.current}
        AtOriginal(p) == p.next >= it.current
    IN IF before = {} THEN Invalidated(it)
       ELSE ParseUntil(SeekToRestartPoint(it, Highest(before)), AtOriginal)

----------------------------------------------------------------------------
(* Table                                                                   *)

(* Table::Open with a footer and an index block that can be read: some     *)
(* data blocks cannot, and without a readable metaindex or filter block    *)
(* the filter is not used (ReadMeta drops the error).                      *)
OpenTable ==
    /\ table_pc = "built" /\ table_pc' = "open"
    /\ bad_blocks' \in {B \in SUBSET DOMAIN table_file :
                            Cardinality(B) <= MaxBadBlocks}
    /\ filter_read' \in BOOLEAN
    /\ UNCHANGED <<builderVars, table_iter, cursor, skipped>>

(* BlockReader: an iterator over the block, or one that only has an error. *)
Readable(handle)    == handle \notin bad_blocks
BlockReader(handle) == BlockIter(IF Readable(handle) THEN table_file[handle]
                                 ELSE EmptyBlock)
BlockValue(it)      == it.block.entries[it.current + 1].value

InternalGet(k) ==
    LET index  == BlockSeek(BlockIter(index_block), k)
        handle == BlockValue(index)
        data   == BlockSeek(BlockReader(handle), k)
        Result(entry, err) == [entry |-> entry, err |-> err]
    IN IF ~BlockValid(index) \/ (filter_read /\ ~FilterMayMatch(handle, k))
       THEN Result(0, FALSE)
       ELSE Result(IF BlockValid(data) THEN BlockValue(data) ELSE 0,
                   ~Readable(handle))

----------------------------------------------------------------------------
(* TwoLevelIterator: the index iterator, the data iterator if there is one *)
(* and its status, the handle of its block, and status_.                   *)

DataValid(t) == t.has_data /\ BlockValid(t.data)
IterStatusOk(t) == ~t.saved_error /\ ~(t.has_data /\ t.data_error)

ErrorForgotten(t, has, it, error) ==          \* variant of SetDataIterator
    [t EXCEPT !.has_data = has, !.data = it, !.data_error = error]
SetDataIterator(t, has, it, error) ==
    [t EXCEPT !.saved_error = ~IterStatusOk(t),
              !.has_data = has, !.data = it, !.data_error = error]

InitDataBlock(t) ==
    LET handle == BlockValue(t.index)
    IN IF ~BlockValid(t.index)
       THEN SetDataIterator(t, FALSE, BlockIter(EmptyBlock), FALSE)
       ELSE IF t.has_data /\ t.handle = handle THEN t
       ELSE [SetDataIterator(t, TRUE, BlockReader(handle), ~Readable(handle))
             EXCEPT !.handle = handle]

(* SkipEmptyDataBlocks: Move the index iterator and Enter the next block   *)
(* until there is an entry or the index is exhausted.                      *)
SkipEmptyDataBlocks(t, Move(_), Enter(_)) ==
    LET Round(p) ==
            LET q == InitDataBlock([p EXCEPT !.index = Move(p.index)])
            IN IF q.has_data THEN [q EXCEPT !.data = Enter(q.data)] ELSE q
        skip[n \in 0 .. Size(index_block) + 1] ==
            IF n = 0 THEN t
            ELSE LET p == skip[n - 1]
                 IN IF DataValid(p) THEN p
                    ELSE IF ~BlockValid(p.index)
                    THEN SetDataIterator(p, FALSE, BlockIter(EmptyBlock), FALSE)
                    ELSE Round(p)
    IN skip[Size(index_block) + 1]

SkipForward(t)  == SkipEmptyDataBlocks(t, ParseNextKey, BlockSeekToFirst)
SkipBackward(t) == SkipEmptyDataBlocks(t, BlockPrev, BlockSeekToLast)

(* The index iterator is placed and its block entered.                     *)
Entered(t, index, Enter(_)) ==
    LET p == InitDataBlock([t EXCEPT !.index = index])
    IN IF p.has_data THEN [p EXCEPT !.data = Enter(p.data)] ELSE p

----------------------------------------------------------------------------
(* The reader's steps.  Beside the iterator goes a cursor over the entries *)
(* that can be read.                                                       *)

CanRead == {i \in DOMAIN added : Readable(added[i].block)}

CursorAtFirst(C) ==
    /\ cursor' = IF C \cap CanRead = {} THEN 0 ELSE Lowest(C \cap CanRead)
    /\ skipped' = (skipped \/ \E i \in C \ CanRead : cursor' = 0 \/ i < cursor')
CursorAtLast(C) ==
    /\ cursor' = IF C \cap CanRead = {} THEN 0 ELSE Highest(C \cap CanRead)
    /\ skipped' = (skipped \/ \E i \in C \ CanRead : i > cursor')

Reading == table_pc = "open" /\ table_iter.open
ReadStep == UNCHANGED <<table_pc, builderVars, bad_blocks, filter_read>>

NewTableIterator ==
    /\ table_pc = "open" /\ ~table_iter.open
    /\ table_iter' = [open |-> TRUE, index |-> BlockIter(index_block),
                      has_data |-> FALSE, data |-> BlockIter(EmptyBlock),
                      data_error |-> FALSE, handle |-> 0, saved_error |-> FALSE]
    /\ ReadStep /\ UNCHANGED <<cursor, skipped>>

TableSeek(target) ==
    /\ Reading
    /\ LET SeekIn(it) == BlockSeek(it, target)
       IN table_iter' = SkipForward(Entered(table_iter, SeekIn(table_iter.index),
                                            SeekIn))
    /\ CursorAtFirst({i \in DOMAIN added : ~InternalLess(added[i].key, target)})
    /\ ReadStep

TableSeekToFirst ==
    /\ Reading
    /\ table_iter' = SkipForward(Entered(table_iter,
                          BlockSeekToFirst(table_iter.index), BlockSeekToFirst))
    /\ CursorAtFirst(DOMAIN added)
    /\ ReadStep

TableSeekToLast ==
    /\ Reading
    /\ table_iter' = SkipBackward(Entered(table_iter,
                          BlockSeekToLast(table_iter.index), BlockSeekToLast))
    /\ CursorAtLast(DOMAIN added)
    /\ ReadStep

TableNext ==
    /\ Reading /\ DataValid(table_iter)
    /\ table_iter' = SkipForward([table_iter EXCEPT !.data = ParseNextKey(@)])
    /\ CursorAtFirst({i \in DOMAIN added : i > cursor})
    /\ ReadStep

TablePrev ==
    /\ Reading /\ DataValid(table_iter)
    /\ table_iter' = SkipBackward([table_iter EXCEPT !.data = BlockPrev(@)])
    /\ CursorAtLast({i \in DOMAIN added : i < cursor})
    /\ ReadStep

TableStep ==
    \/ \E k \in InternalKeys : AddEntry(k)
    \/ FinishTable \/ AbandonTable \/ OpenTable \/ NewTableIterator
    \/ \E k \in Targets : TableSeek(k)
    \/ TableSeekToFirst \/ TableSeekToLast \/ TableNext \/ TablePrev

----------------------------------------------------------------------------
(* The entry a lookup of k is after: the newest of its user key that is    *)
(* not newer than k.                                                       *)
Sought(k) ==
    LET match == {i \in DOMAIN added : /\ UserKey(added[i].key) = UserKey(k)
                                       /\ Tag(added[i].key) <= Tag(k)}
    IN IF match = {} THEN 0 ELSE Lowest(match)

(* Table::InternalGet searches one block only, and may be told by the      *)
(* filter not to search it.  Whatever the index keys were shortened to and *)
(* whichever blocks share a filter, it finds the entry sought if the       *)
(* table has it, never another one of the same user key, and fails only    *)
(* when that block cannot be read.                                         *)
LookupsFind ==
    (table_pc = "open" /\ ~table_iter.open) =>
       \A k \in Targets :
          LET r == InternalGet(k)
              w == Sought(k)
          IN /\ (w /= 0 /\ w \in CanRead) => (r.entry = w /\ ~r.err)
             /\ (w /= 0 /\ w \notin CanRead) => r.err
             /\ (w = 0 /\ r.entry /= 0) =>
                    UserKey(added[r.entry].key) /= UserKey(k)
             /\ bad_blocks = {} => ~r.err

(* However Seek, Next, Prev and the jumps to the ends are mixed, the       *)
(* TwoLevelIterator is at the entry that a cursor over the readable        *)
(* entries would be at, with the key put together from the prefixes the    *)
(* block stores; and once a block was passed over because it could not be  *)
(* read, status() says so.                                                 *)
TableIteratorExact ==
    Reading => LET t == table_iter
               IN /\ DataValid(t) <=> cursor /= 0
                  /\ cursor /= 0 => /\ t.data.key = added[cursor].key
                                    /\ BlockValue(t.data) = cursor
                  /\ skipped => ~IterStatusOk(t)
                  /\ bad_blocks = {} => IterStatusOk(t)
============================================================================
