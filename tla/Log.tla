-------------------------------- MODULE Log --------------------------------
(***************************************************************************)
(* The log format of leveldb (db/log_writer.cc, db/log_reader.cc), in      *)
(* which the write-ahead log and the MANIFEST are kept: the writer cuts a  *)
(* record into fragments that fit fixed-size blocks, the machine may crash *)
(* or damage the file, and the reader of the next incarnation resyncs at   *)
(* block boundaries.                                                       *)
(*                                                                         *)
(* The file is a sequence of cells.  A header is three cells, one for each *)
(* of its fields (in the code 4, 2 and 1 bytes); the checksum cell stands  *)
(* for the type and the payload it was computed from, so a checksum        *)
(* matches exactly when both are intact.  Cells that are not what the      *)
(* writer put there read as arbitrary numbers.                             *)
(***************************************************************************)
EXTENDS Integers, Sequences, FiniteSets

CONSTANTS
    kBlockSize,      \* cells per block
    Lengths,         \* the lengths a record may have
    MaxRecords,      \* bound: records written
    MaxDamage,       \* bound: cells damaged while the file is at rest
    MaxLogFailures,  \* bound: appends and reads that return an error
    InitialOffsets   \* the offsets a reader may be asked to start from

kHeaderSize == 3

ASSUME LogAssumption ==
    /\ kBlockSize \in Nat /\ kBlockSize > 2 * kHeaderSize
    /\ Lengths \subseteq Nat /\ InitialOffsets \subseteq Nat
    /\ MaxRecords \in Nat /\ MaxDamage \in Nat /\ MaxLogFailures \in Nat

kZeroType   == 0
kFullType   == 1
kFirstType  == 2
kMiddleType == 3
kLastType   == 4
kEof        == 5     \* returned at the end of the file
kBadRecord  == 6     \* returned for an invalid physical record
Garbage     == {0, 1, kBlockSize}   \* lengths that damaged cells may read as:
                                    \* none, one that fits and one that does not

VARIABLES
    dest,            \* the file: a sequence of cells
    block_offset,    \* Writer::block_offset_
    remaining,       \* cells of the current record still to emit; -1: no call
    records,         \* history: [len, start, end, ok] of every AddRecord, the
                     \* extent in cells; start is NoCall before a fragment is out
    kept,            \* cells of the file the crash left untouched
    padded,          \* the crash left zeros after them
    damage,          \* positions of damaged cells
    log_failures,    \* errors returned so far
    log_pc,          \* "write", then "call", "loop" and "done" of the reader
    file_pos,        \* position in the file being read
    buffer_,         \* <<from, to>>: buffer_ is dest[from+1 .. to]
    eof, last_record_offset, end_of_buffer_offset, initial_offset,
    in_fragmented_record, scratch, prospective_record_offset,
    physical_record_offset,   \* where the loop of ReadRecord found buffer_
    delivered,       \* history: [payload, offset] of the records returned
    reports          \* bytes passed to Reporter::Corruption, one per call

writer == <<dest, block_offset, remaining, records>>
media  == <<kept, padded, damage>>
reader == <<file_pos, buffer_, eof, last_record_offset, end_of_buffer_offset,
            initial_offset, in_fragmented_record, scratch,
            prospective_record_offset, physical_record_offset, delivered,
            reports>>
logVars == <<writer, media, log_failures, log_pc, reader>>

NoCall == -1

LogInit ==
    /\ dest = <<>> /\ block_offset = 0 /\ remaining = NoCall /\ records = <<>>
    /\ kept = 0 /\ padded = FALSE /\ damage = {}
    /\ log_failures = 0 /\ log_pc = "write"
    /\ file_pos = 0 /\ buffer_ = <<0, 0>> /\ eof = FALSE
    /\ last_record_offset = 0 /\ end_of_buffer_offset = 0
    /\ initial_offset = 0 /\ in_fragmented_record = FALSE /\ scratch = <<>>
    /\ prospective_record_offset = 0 /\ physical_record_offset = 0
    /\ delivered = <<>> /\ reports = <<>>

----------------------------------------------------------------------------
(* The cells of the file                                                   *)

Zero    == <<"zero">>
Damaged == <<"damaged">>
PayloadCells(r, from, n) == [i \in 1 .. n |-> <<"data", r, from + i>>]
LogRecord(r) == PayloadCells(r, 0, records[r].len)
PhysicalRecord(t, payload) ==
    << <<"crc", t, payload>>, <<"length", Len(payload)>>, <<"type", t>> >>
        \o payload

----------------------------------------------------------------------------
(* Writer                                                                  *)

BeginRecord(n) ==
    /\ log_pc = "write" /\ remaining = NoCall /\ Len(records) < MaxRecords
    /\ remaining' = n
    /\ records' = Append(records, [len |-> n, start |-> NoCall, end |-> NoCall,
                                   ok |-> FALSE])
    /\ UNCHANGED <<dest, block_offset, media, log_failures, log_pc, reader>>

(* The trailer that fills a block in which no header fits.                 *)
Trailer ==
    LET leftover == kBlockSize - block_offset
    IN IF leftover < kHeaderSize THEN [i \in 1 .. leftover |-> Zero] ELSE <<>>

OffsetAfterTrailer ==
    IF kBlockSize - block_offset < kHeaderSize THEN 0 ELSE block_offset

FragmentLength ==
    LET avail == kBlockSize - OffsetAfterTrailer - kHeaderSize
    IN IF remaining < avail THEN remaining ELSE avail

FragmentType(begin, end) ==
    IF begin /\ end THEN kFullType
    ELSE IF begin THEN kFirstType ELSE IF end THEN kLastType ELSE kMiddleType

OffsetAfter(n) == OffsetAfterTrailer + kHeaderSize + n

(* One round of the loop in AddRecord: the fragment is emitted, or the     *)
(* append of its cells fails after some of them.  block_offset_ moves by   *)
(* the length of the fragment in both cases.                               *)
EmitFragment ==
    /\ log_pc = "write" /\ remaining /= NoCall
    /\ LET r     == Len(records)
           begin == records[r].start = NoCall
           n     == FragmentLength
           t     == FragmentType(begin, remaining = n)
           cells == PhysicalRecord(t, PayloadCells(r, records[r].len - remaining, n))
           base  == dest \o Trailer
           start == IF begin THEN Len(base) ELSE records[r].start
       IN /\ block_offset' = OffsetAfter(n)
          /\ \/ /\ dest' = base \o cells
                /\ remaining' = IF remaining = n THEN NoCall ELSE remaining - n
                /\ records' = [records EXCEPT ![r].start = start,
                                              ![r].end   = Len(dest'),
                                              ![r].ok    = remaining = n]
                /\ UNCHANGED log_failures
             \/ /\ log_failures < MaxLogFailures
                /\ log_failures' = log_failures + 1
                /\ \E k \in 0 .. Len(cells) :
                      dest' = base \o SubSeq(cells, 1, k)
                /\ remaining' = NoCall
                /\ records' = [records EXCEPT ![r].start = start,
                                              ![r].end   = Len(dest')]
    /\ UNCHANGED <<media, log_pc, reader>>

----------------------------------------------------------------------------
(* The machine stops: the file keeps a prefix of its cells, possibly       *)
(* followed by zeros (blocks allocated, never written).  A reader is then  *)
(* constructed over it.                                                    *)
CutShort ==
    /\ log_pc = "write" /\ log_pc' = "call"
    /\ kept' \in 0 .. Len(dest)
    /\ padded' \in {FALSE, kept' < Len(dest)}
    /\ dest' = SubSeq(dest, 1, kept') \o
               (IF padded' THEN [i \in 1 .. Len(dest) - kept' |-> Zero] ELSE <<>>)
    /\ initial_offset' \in InitialOffsets
    /\ remaining' = NoCall
    /\ UNCHANGED <<block_offset, records, damage, log_failures, file_pos,
                   buffer_, eof, last_record_offset, end_of_buffer_offset,
                   in_fragmented_record, scratch, prospective_record_offset,
                   physical_record_offset, delivered, reports>>

(* Cells go bad before the file is read.                                   *)
Decay ==
    /\ log_pc = "call" /\ file_pos = 0 /\ buffer_ = <<0, 0>> /\ ~eof
    /\ Cardinality(damage) < MaxDamage
    /\ \E i \in 1 .. kept :
          /\ i \notin damage
          /\ damage' = damage \cup {i}
          /\ dest' = [dest EXCEPT ![i] = Damaged]
    /\ UNCHANGED <<block_offset, remaining, records, kept, padded,
                   log_failures, log_pc, reader>>

----------------------------------------------------------------------------
(* Reader                                                                  *)

BufferSize == buffer_[2] - buffer_[1]
Emptied == buffer_' = <<buffer_[2], buffer_[2]>>
TopOfLoop ==
    physical_record_offset' = end_of_buffer_offset' - (buffer_'[2] - buffer_'[1])

(* ReportDrop: only drops at or after initial_offset_ reach the reporter;  *)
(* the subtraction is unsigned, so it wraps below zero.  size is the size  *)
(* of buffer_ at the call.                                                 *)
ReportDrop(log, endOfBuffer, size, bytes) ==
    LET where == endOfBuffer - size - bytes
    IN IF where < 0 \/ where >= initial_offset THEN Append(log, bytes) ELSE log

SkipToInitialBlock ==
    LET offset_in_block == initial_offset % kBlockSize
        block_start     == initial_offset - offset_in_block
    IN IF offset_in_block > kBlockSize - (kHeaderSize - 1)
       THEN block_start + kBlockSize ELSE block_start

ReadRecord ==
    /\ log_pc = "call"
    /\ IF last_record_offset < initial_offset
       THEN /\ end_of_buffer_offset' = SkipToInitialBlock
            /\ \/ /\ file_pos' = file_pos + SkipToInitialBlock
                  /\ log_pc' = "loop" /\ UNCHANGED log_failures
               \/ /\ SkipToInitialBlock > 0 /\ log_failures < MaxLogFailures
                  /\ log_failures' = log_failures + 1
                  /\ log_pc' = "done" /\ UNCHANGED file_pos
       ELSE /\ log_pc' = "loop"
            /\ UNCHANGED <<end_of_buffer_offset, file_pos, log_failures>>
    /\ scratch' = <<>> /\ in_fragmented_record' = FALSE
    /\ prospective_record_offset' = 0
    /\ UNCHANGED <<writer, media, buffer_, eof, last_record_offset,
                   initial_offset, delivered, reports>>
    /\ TopOfLoop

(* The switch of ReadRecord over what ReadPhysicalRecord returned; log is  *)
(* what has been reported and size the cells left in buffer_.  An unknown  *)
(* type never gets here, since its checksum would have to match.           *)
ReturnRecord(payload, offset) ==
    /\ log_pc' = "call"
    /\ delivered' = Append(delivered, [payload |-> payload, offset |-> offset])
    /\ last_record_offset' = offset

Continue ==
    /\ log_pc' = log_pc
    /\ UNCHANGED <<delivered, last_record_offset>>

OnRecord(t, fragment, size) ==
    LET at == physical_record_offset
        Report(bytes) == ReportDrop(reports, end_of_buffer_offset, size, bytes)
        Unfinished == IF in_fragmented_record /\ scratch /= <<>>
                      THEN Report(Len(scratch)) ELSE reports
        NotStarted == IF in_fragmented_record THEN reports ELSE Report(Len(fragment))
        Extended   == IF in_fragmented_record THEN scratch \o fragment ELSE scratch
    IN \/ /\ t = kFullType
          /\ reports' = Unfinished
          /\ scratch' = <<>> /\ in_fragmented_record' = FALSE
          /\ prospective_record_offset' = at
          /\ ReturnRecord(fragment, at)
       \/ /\ t = kFirstType
          /\ reports' = Unfinished
          /\ scratch' = fragment /\ in_fragmented_record' = TRUE
          /\ prospective_record_offset' = at
          /\ Continue
       \/ /\ t = kMiddleType
          /\ reports' = NotStarted /\ scratch' = Extended
          /\ Continue
          /\ UNCHANGED <<in_fragmented_record, prospective_record_offset>>
       \/ /\ t = kLastType
          /\ reports' = NotStarted /\ scratch' = Extended
          /\ IF in_fragmented_record
             THEN ReturnRecord(Extended, prospective_record_offset) ELSE Continue
          /\ UNCHANGED <<in_fragmented_record, prospective_record_offset>>

OnEof(log) ==
    /\ log_pc' = "done" /\ reports' = log /\ scratch' = <<>>
    /\ UNCHANGED <<in_fragmented_record, prospective_record_offset, delivered,
                   last_record_offset>>

FragmentsKept(log, size) ==                            \* variant of OnBadRecord
    /\ reports' = log
    /\ Continue
    /\ UNCHANGED <<in_fragmented_record, scratch, prospective_record_offset>>

OnBadRecord(log, size) ==
    /\ reports' = IF in_fragmented_record
                  THEN ReportDrop(log, end_of_buffer_offset, size, Len(scratch))
                  ELSE log
    /\ in_fragmented_record' = FALSE
    /\ scratch' = IF in_fragmented_record THEN <<>> ELSE scratch
    /\ Continue
    /\ UNCHANGED prospective_record_offset

EofAfterFullBlock(n) == n <= kBlockSize                \* variant of AtEof
AtEof(n) == n < kBlockSize

(* ReadPhysicalRecord, refilling buffer_: the next block, or an I/O error. *)
Refill ==
    /\ log_pc = "loop" /\ BufferSize < kHeaderSize /\ ~eof
    /\ LET from == IF file_pos > Len(dest) THEN Len(dest) ELSE file_pos
           to   == IF Len(dest) - from < kBlockSize THEN Len(dest)
                   ELSE from + kBlockSize
       IN \/ /\ buffer_' = <<from, to>>
             /\ file_pos' = IF file_pos > Len(dest) THEN file_pos ELSE to
             /\ end_of_buffer_offset' = end_of_buffer_offset + (to - from)
             /\ eof' = AtEof(to - from)
             /\ UNCHANGED <<log_failures, log_pc, last_record_offset,
                            delivered, reports, in_fragmented_record, scratch,
                            prospective_record_offset>>
          \/ /\ log_failures < MaxLogFailures /\ log_failures' = log_failures + 1
             /\ Emptied /\ eof' = TRUE
             /\ \E part \in {0, to - from} :
                   end_of_buffer_offset' = end_of_buffer_offset + part
             /\ OnEof(ReportDrop(reports, end_of_buffer_offset', 0, kBlockSize))
             /\ UNCHANGED file_pos
    /\ UNCHANGED <<writer, media, initial_offset, physical_record_offset>>

(* What the header fields may read as.                                     *)
LengthField == LET c == dest[buffer_[1] + 2]
               IN CASE c[1] = "length" -> {c[2]}
                    [] c = Zero        -> {0}
                    [] OTHER           -> Garbage
TypeField   == LET c == dest[buffer_[1] + 3]
               IN CASE c[1] = "type" -> {c[2]}
                    [] c = Zero      -> {kZeroType}
                    [] OTHER         -> kZeroType .. kLastType
FragmentCells(n) ==
    SubSeq(dest, buffer_[1] + kHeaderSize + 1, buffer_[1] + kHeaderSize + n)
ChecksumMatches(t, n) == dest[buffer_[1] + 1] = <<"crc", t, FragmentCells(n)>>

StartsBeforeOffset(start, n) == start < initial_offset

(* A record that does not fit the buffer_: at the end of the file the      *)
(* writer died in the middle of it; anywhere else its length is bad.       *)
LengthAlwaysBad(drop) == OnBadRecord(drop, 0)          \* variant of TooLong
TooLong(drop) == IF eof THEN OnEof(reports) ELSE OnBadRecord(drop, 0)

(* ReadPhysicalRecord on a buffer_ that needs no refill, and the switch.   *)
ReadPhysicalRecord ==
    /\ log_pc = "loop"
    /\ \/ /\ BufferSize < kHeaderSize /\ eof
          /\ Emptied /\ OnEof(reports)
       \/ /\ BufferSize >= kHeaderSize
          /\ \E n \in LengthField, t \in TypeField :
             LET rest  == BufferSize - kHeaderSize - n
                 start == end_of_buffer_offset - BufferSize
                 drop  == ReportDrop(reports, end_of_buffer_offset, 0, BufferSize)
             IN \/ /\ rest < 0
                   /\ Emptied
                   /\ TooLong(drop)
                \/ /\ rest >= 0 /\ t = kZeroType /\ n = 0
                   /\ Emptied /\ OnBadRecord(reports, 0)
                \/ /\ rest >= 0 /\ ~(t = kZeroType /\ n = 0)
                   /\ ~ChecksumMatches(t, n)
                   /\ Emptied /\ OnBadRecord(drop, 0)
                \/ /\ rest >= 0 /\ ChecksumMatches(t, n)
                   /\ buffer_' = <<buffer_[2] - rest, buffer_[2]>>
                   /\ IF StartsBeforeOffset(start, n)
                      THEN OnBadRecord(reports, rest)
                      ELSE OnRecord(t, FragmentCells(n), rest)
    /\ UNCHANGED <<writer, media, log_failures, file_pos, eof,
                   end_of_buffer_offset, initial_offset>>
    /\ TopOfLoop

LogRead == log_pc = "done" /\ UNCHANGED logVars

LogNext ==
    \/ \E n \in Lengths : BeginRecord(n)
    \/ EmitFragment \/ CutShort \/ Decay
    \/ ReadRecord \/ Refill \/ ReadPhysicalRecord \/ LogRead

LogSpec == LogInit /\ [][LogNext]_logVars

----------------------------------------------------------------------------
Wrote(r) == records[r].ok /\ records[r].end <= kept
BlockOf(i) == (i - 1) \div kBlockSize
(* No damaged cell lies in the record, or before it in its first block.    *)
Undamaged(r) ==
    \A d \in damage : \/ d > records[r].end
                      \/ BlockOf(d) < BlockOf(records[r].start + 1)
Delivers(seq, r) == \E i \in DOMAIN seq : seq[i].payload = LogRecord(r)

(* Nothing is made up: whatever the crash, the damage, the failed appends  *)
(* and the starting offset, the records returned by ReadRecord are records *)
(* that were passed to AddRecord, whole and in the order written           *)
(* (log_reader.cc, checksums and in_fragmented_record).                    *)
NothingFabricated ==
    \E f \in [DOMAIN delivered -> DOMAIN records] :
       /\ \A i, j \in DOMAIN delivered : i < j => f[i] < f[j]
       /\ \A i \in DOMAIN delivered : delivered[i].payload = LogRecord(f[i])

(* Damage is contained: once the file has been read without an I/O error,  *)
(* every record that the crash left complete and that shares no block with *)
(* an earlier damaged cell has been returned; the reader resyncs at the    *)
(* next block.  With a starting offset this holds for records that start   *)
(* at or after it (SkipToInitialBlock).                                    *)
DamageIsContained ==
    (log_pc = "done" /\ log_failures = 0) =>
       \A r \in DOMAIN records :
          (Wrote(r) /\ Undamaged(r) /\ records[r].start >= initial_offset)
             => Delivers(delivered, r)

(* A crash alone is not corruption: reading from the start a file that was *)
(* only cut short, the reporter is never called, whatever the cut leaves   *)
(* of a header, a payload or a trailer (the kEof cases of                  *)
(* ReadPhysicalRecord).                                                    *)
CrashIsNotCorruption ==
    (damage = {} /\ ~padded /\ log_failures = 0 /\ initial_offset = 0)
        => reports = <<>>
=============================================================================
