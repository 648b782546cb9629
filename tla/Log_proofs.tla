----------------------------- MODULE Log_proofs -----------------------------
(***************************************************************************)
(* Proofs about Log, for every block size, record length, crash and damage *)
(* that its constants allow: a reader of a file nothing but a crash cut    *)
(* short reports no corruption, and damage costs no record but those that  *)
(* share a block with a damaged cell before them.                          *)
(***************************************************************************)
EXTENDS Log, SequenceTheorems, TLAPS

-----------------------------------------------------------------------------
(***************************************************************************)
(* CrashIsNotCorruption.                                                   *)
(*                                                                         *)
(* A file nothing has gone wrong with is a chain of fragments: one starts  *)
(* at cell 0, none crosses a block boundary, and where one ends the next   *)
(* follows, at once or at the boundary if no header fits any more.  A file *)
(* that was cut is the beginning of such a chain.                          *)
(***************************************************************************)
Data  == {"data"} \X Nat \X Int
Types == kFullType .. kLastType
Cells == {Zero, Damaged} \cup ({"crc"} \X Types \X Seq(Data))
            \cup ({"length"} \X Nat) \cup ({"type"} \X Types) \cup Data

Boundary(m)   == \E k \in 0 .. m : m = k * kBlockSize
InBlock(m, a) == Boundary(m) /\ m <= a /\ a < m + kBlockSize

(* Fragments that start a record, that end one, and are followed by one    *)
(* that continues it.                                                      *)
Starting(t) == t \in {kFullType, kFirstType}
Ending(t)   == t \in {kFullType, kLastType}

IsHeader(d, a)  == a < Len(d) /\ d[a + 1][1] = "crc"
TypeAt(d, a)    == d[a + 1][2]
PayloadAt(d, a) == d[a + 1][3]
EndOf(d, a)     == a + kHeaderSize + Len(PayloadAt(d, a))

(* The fragment that starts at a, as far as the file goes.                 *)
Laid(d, a) ==
    \A j \in 1 .. kHeaderSize + Len(PayloadAt(d, a)) :
       a + j <= Len(d) =>
          d[a + j] = PhysicalRecord(TypeAt(d, a), PayloadAt(d, a))[j]

(* Where a fragment that ends at e in block m is followed by another one.  *)
NextStart(m, e) == IF e + kHeaderSize <= m + kBlockSize THEN e ELSE m + kBlockSize

Linked(d, a, m) ==
    /\ EndOf(d, a) <= m + kBlockSize
    /\ NextStart(m, EndOf(d, a)) < Len(d)
         => /\ IsHeader(d, NextStart(m, EndOf(d, a)))
            /\ Starting(TypeAt(d, NextStart(m, EndOf(d, a)))) <=> Ending(TypeAt(d, a))

Chain(d) ==
    /\ d \in Seq(Cells)
    /\ Len(d) > 0 => IsHeader(d, 0) /\ Starting(TypeAt(d, 0))
    /\ \A m \in 0 .. Len(d) : Boundary(m) /\ m < Len(d) => IsHeader(d, m)
    /\ \A a \in 0 .. Len(d) : IsHeader(d, a) =>
          Laid(d, a) /\ \A m \in 0 .. a : InBlock(m, a) => Linked(d, a, m)

(* The file ends with a whole fragment, at offset of its block, and with   *)
(* an unfinished record exactly if one is being added.                     *)
Whole(d, offset, begun) ==
    /\ offset \in 0 .. kBlockSize
    /\ \E m \in 0 .. Len(d) : Boundary(m) /\ Len(d) = m + offset
    /\ Len(d) = 0 => ~begun
    /\ \A a \in 0 .. Len(d) : IsHeader(d, a) =>
          /\ EndOf(d, a) <= Len(d)
          /\ EndOf(d, a) = Len(d) => (Ending(TypeAt(d, a)) <=> ~begun)
          /\ \A m \in 0 .. a : InBlock(m, a) =>
                EndOf(d, a) = Len(d) \/ NextStart(m, EndOf(d, a)) < Len(d)

Begun == remaining /= NoCall /\ records[Len(records)].start /= NoCall

WriterTypes ==
    /\ records \in Seq([len : Nat, start : Int, end : Int, ok : BOOLEAN])
    /\ remaining \in Nat \cup {NoCall}
    /\ remaining /= NoCall => Len(records) > 0
    /\ buffer_ = <<0, 0>> /\ file_pos = 0 /\ end_of_buffer_offset = 0
    /\ physical_record_offset = 0 /\ prospective_record_offset = 0
    /\ last_record_offset = 0 /\ in_fragmented_record = FALSE

(* The reader is at a fragment that continues what it has read.            *)
Position == IF BufferSize >= kHeaderSize THEN buffer_[1] ELSE buffer_[2]

ReaderTypes ==
    /\ buffer_ \in Nat \X Nat
    /\ in_fragmented_record \in BOOLEAN
    /\ physical_record_offset \in Nat /\ prospective_record_offset \in Nat
    /\ last_record_offset \in Nat

InBuffer ==
    /\ buffer_[1] <= buffer_[2] /\ buffer_[2] <= Len(dest)
    /\ file_pos = buffer_[2] /\ end_of_buffer_offset = buffer_[2]
    /\ BufferSize < kHeaderSize => Boundary(buffer_[2]) \/ buffer_[2] = Len(dest)
    /\ BufferSize >= kHeaderSize =>
          \E m \in 0 .. buffer_[1] :
             /\ Boundary(m)
             /\ \/ buffer_[2] = m + kBlockSize
                \/ buffer_[2] = Len(dest) /\ buffer_[2] < m + kBlockSize /\ eof

AtFragment ==
    Position < Len(dest) =>
       /\ IsHeader(dest, Position)
       /\ log_pc = "call" => Starting(TypeAt(dest, Position))
       /\ log_pc = "loop" => (Starting(TypeAt(dest, Position)) <=> ~in_fragmented_record)

Intact == damage = {} /\ ~padded /\ log_failures = 0 /\ initial_offset = 0

-----------------------------------------------------------------------------
(* Block boundaries are a block apart. *)
LEMMA Boundaries ==
    /\ Boundary(0)
    /\ \A m \in Nat : Boundary(m) => Boundary(m + kBlockSize)
    /\ \A m, o \in Nat : Boundary(m) /\ Boundary(o) /\ m < o => m + kBlockSize <= o
<1>1. kBlockSize \in Nat /\ kBlockSize > 0
  BY LogAssumption DEF kHeaderSize
<1>2. Boundary(0)
  <2>1. 0 = 0 * kBlockSize
    BY <1>1
  <2> QED BY <2>1 DEF Boundary
<1>3. ASSUME NEW m \in Nat, Boundary(m)
      PROVE  Boundary(m + kBlockSize)
  <2>1. PICK k \in 0 .. m : m = k * kBlockSize
    BY <1>3 DEF Boundary
  <2>2. (k + 1) * kBlockSize = m + kBlockSize
    BY <1>1, <2>1
  <2>3. k + 1 \in 0 .. m + kBlockSize
    BY <1>1
  <2> QED BY <2>2, <2>3 DEF Boundary
<1>4. ASSUME NEW m \in Nat, NEW o \in Nat, Boundary(m), Boundary(o), m < o
      PROVE  m + kBlockSize <= o
  <2>1. PICK k \in 0 .. m : m = k * kBlockSize
    BY <1>4 DEF Boundary
  <2>2. PICK j \in 0 .. o : o = j * kBlockSize
    BY <1>4 DEF Boundary
  <2>3. j > k
    <3>1. SUFFICES ASSUME j <= k PROVE FALSE
      OBVIOUS
    <3>2. j * kBlockSize <= k * kBlockSize
      BY <1>1, <3>1
    <3> QED BY <1>1, <1>4, <2>1, <2>2, <3>2
  <2>4. (k + 1) * kBlockSize <= j * kBlockSize
    BY <1>1, <2>3
  <2>5. (k + 1) * kBlockSize = m + kBlockSize
    BY <1>1, <2>1
  <2> QED BY <1>1, <2>2, <2>4, <2>5
<1> QED BY <1>2, <1>3, <1>4

(* The cells of a fragment: only the first is a checksum. *)
LEMMA Fragment ==
    ASSUME NEW t \in Types, NEW c \in Seq(Data)
    PROVE  LET p == PhysicalRecord(t, c)
           IN /\ p \in Seq(Cells) /\ Len(p) = kHeaderSize + Len(c)
              /\ p[1] = <<"crc", t, c>> /\ p[2] = <<"length", Len(c)>> /\ p[3] = <<"type", t>>
              /\ \A j \in 1 .. Len(c) : p[kHeaderSize + j] = c[j]
              /\ \A j \in 2 .. Len(p) : p[j][1] /= "crc"
<1> DEFINE h == << <<"crc", t, c>>, <<"length", Len(c)>>, <<"type", t>> >>
<1>1. Len(c) \in Nat /\ \A j \in 1 .. Len(c) : c[j] \in Data
  OBVIOUS
<1>2. /\ <<"crc", t, c>> \in Cells /\ <<"length", Len(c)>> \in Cells /\ <<"type", t>> \in Cells
      /\ \A e \in Data : e \in Cells
  <2>1. <<"crc", t, c>> \in {"crc"} \X Types \X Seq(Data)
    OBVIOUS
  <2>2. <<"length", Len(c)>> \in {"length"} \X Nat /\ <<"type", t>> \in {"type"} \X Types
    BY <1>1
  <2> QED BY <2>1, <2>2, Zenon DEF Cells
<1>3. h \in Seq(Cells) /\ Len(h) = 3
  BY <1>2
<1>4. c \in Seq(Cells)
  <2>1. \A j \in 1 .. Len(c) : c[j] \in Cells
    BY <1>1, <1>2
  <2> QED BY <1>1, <2>1
<1>5. /\ h \o c \in Seq(Cells) /\ Len(h \o c) = Len(h) + Len(c)
      /\ \A j \in 1 .. Len(h) + Len(c) :
            (h \o c)[j] = IF j <= Len(h) THEN h[j] ELSE c[j - Len(h)]
  BY <1>3, <1>4, ConcatProperties, Zenon
<1>6. /\ \A j \in 1 .. 3 : (h \o c)[j] = h[j]
      /\ \A j \in 1 .. Len(c) : (h \o c)[3 + j] = c[j]
      /\ Len(h \o c) = 3 + Len(c)
  <2> HIDE DEF h
  <2>1. \A j \in 1 .. 3 + Len(c) : (h \o c)[j] = IF j <= 3 THEN h[j] ELSE c[j - 3]
    BY <1>3, <1>5
  <2>2. ASSUME NEW j \in 1 .. 3
        PROVE  (h \o c)[j] = h[j]
    <3>1. j \in 1 .. 3 + Len(c) /\ j <= 3
      BY <1>1
    <3> QED BY <2>1, <3>1
  <2>3. ASSUME NEW j \in 1 .. Len(c)
        PROVE  (h \o c)[3 + j] = c[j]
    <3>1. 3 + j \in 1 .. 3 + Len(c) /\ ~(3 + j <= 3) /\ (3 + j) - 3 = j
      BY <1>1
    <3> QED BY <2>1, <3>1
  <2> QED BY <1>3, <1>5, <2>2, <2>3
<1>7. /\ (h \o c)[1] = <<"crc", t, c>> /\ (h \o c)[2] = <<"length", Len(c)>>
      /\ (h \o c)[3] = <<"type", t>>
  BY <1>6
<1>8. ASSUME NEW j \in 2 .. 3 + Len(c)
      PROVE  (h \o c)[j][1] /= "crc"
  <2>1. j = 2 \/ j = 3 \/ j - 3 \in 1 .. Len(c)
    BY <1>1
  <2>2. CASE j = 2
    BY <1>7, <2>2
  <2>3. CASE j = 3
    BY <1>7, <2>3
  <2>4. CASE j - 3 \in 1 .. Len(c)
    <3>1. (h \o c)[3 + (j - 3)] = c[j - 3] /\ c[j - 3] \in Data /\ 3 + (j - 3) = j
      BY <1>1, <1>6, <2>4
    <3>2. \A e \in Data : e[1] = "data"
      BY DEF Data
    <3> QED BY <3>1, <3>2
  <2> QED BY <2>1, <2>2, <2>3, <2>4
<1>9. PhysicalRecord(t, c) = h \o c
  BY DEF PhysicalRecord
<1> HIDE DEF h
<1> QED BY <1>5, <1>6, <1>7, <1>8, <1>9 DEF kHeaderSize

(* What a header cell of a file says. *)
LEMMA HeaderCells ==
    ASSUME NEW d \in Seq(Cells), NEW a \in Nat, IsHeader(d, a)
    PROVE  /\ TypeAt(d, a) \in Types /\ PayloadAt(d, a) \in Seq(Data)
           /\ Len(PayloadAt(d, a)) \in Nat
           /\ EndOf(d, a) \in Nat /\ EndOf(d, a) >= a + kHeaderSize
           /\ d[a + 1] = <<"crc", TypeAt(d, a), PayloadAt(d, a)>>
<1>1. a + 1 \in 1 .. Len(d) /\ d[a + 1] \in Cells /\ d[a + 1][1] = "crc"
  BY DEF IsHeader
<1>2. d[a + 1] \in {"crc"} \X Types \X Seq(Data)
  <2>1. Zero[1] /= "crc" /\ Damaged[1] /= "crc"
    BY DEF Zero, Damaged
  <2>2. /\ \A e \in {"length"} \X Nat : e[1] = "length"
        /\ \A e \in {"type"} \X Types : e[1] = "type"
        /\ \A e \in Data : e[1] = "data"
    BY DEF Data
  <2>3. "length" /= "crc" /\ "type" /= "crc" /\ "data" /= "crc"
    OBVIOUS
  <2> QED BY <1>1, <2>1, <2>2, <2>3, Zenon DEF Cells
<1>3. /\ TypeAt(d, a) \in Types /\ PayloadAt(d, a) \in Seq(Data)
      /\ d[a + 1] = <<"crc", TypeAt(d, a), PayloadAt(d, a)>>
  BY <1>2 DEF TypeAt, PayloadAt
<1>4. Len(PayloadAt(d, a)) \in Nat
  BY <1>3
<1> QED BY <1>3, <1>4 DEF EndOf, kHeaderSize

(* A header is one cell. *)
LEMMA SameCell ==
    ASSUME NEW d, NEW g, NEW a \in Nat, d[a + 1] = g[a + 1], a < Len(d), a < Len(g)
    PROVE  /\ IsHeader(d, a) <=> IsHeader(g, a)
           /\ TypeAt(d, a) = TypeAt(g, a) /\ PayloadAt(d, a) = PayloadAt(g, a)
           /\ EndOf(d, a) = EndOf(g, a)
BY DEF IsHeader, TypeAt, PayloadAt, EndOf

(* What a crash leaves of a chain is a chain. *)
LEMMA ChainCut ==
    ASSUME NEW d, Chain(d), NEW k \in 0 .. Len(d)
    PROVE  Chain(SubSeq(d, 1, k))
<1> DEFINE g == SubSeq(d, 1, k)
<1>1. /\ d \in Seq(Cells) /\ Len(d) \in Nat
      /\ g \in Seq(Cells) /\ Len(g) = k /\ \A i \in 1 .. k : g[i] = d[i]
  BY DEF Chain
<1> HIDE DEF g
<1>2. ASSUME NEW a \in Nat, a < k
      PROVE  /\ IsHeader(d, a) <=> IsHeader(g, a)
             /\ TypeAt(d, a) = TypeAt(g, a) /\ PayloadAt(d, a) = PayloadAt(g, a)
             /\ EndOf(d, a) = EndOf(g, a)
  <2>1. d[a + 1] = g[a + 1] /\ a < Len(d) /\ a < Len(g)
    BY <1>1, <1>2
  <2> QED BY <2>1, SameCell
<1>3. Len(g) > 0 => IsHeader(g, 0) /\ Starting(TypeAt(g, 0))
  BY <1>1, <1>2 DEF Chain
<1>4. ASSUME NEW a \in 0 .. Len(g), IsHeader(g, a)
      PROVE  Laid(g, a) /\ \A m \in 0 .. a : InBlock(m, a) => Linked(g, a, m)
  <2>1. a \in Nat /\ a < k /\ a \in 0 .. Len(d)
    BY <1>1, <1>4 DEF IsHeader
  <2>2. /\ IsHeader(d, a) /\ TypeAt(d, a) = TypeAt(g, a)
        /\ PayloadAt(d, a) = PayloadAt(g, a) /\ EndOf(d, a) = EndOf(g, a)
    BY <1>2, <1>4, <2>1
  <2>3. Laid(d, a) /\ \A m \in 0 .. a : InBlock(m, a) => Linked(d, a, m)
    BY <2>1, <2>2 DEF Chain
  <2>4. Len(PayloadAt(d, a)) \in Nat /\ EndOf(d, a) \in Nat
    BY <1>1, <2>1, <2>2, HeaderCells
  <2>5. Laid(g, a)
    <3>1. SUFFICES ASSUME NEW j \in 1 .. kHeaderSize + Len(PayloadAt(d, a)), a + j <= k
                   PROVE  g[a + j] = PhysicalRecord(TypeAt(d, a), PayloadAt(d, a))[j]
      BY <1>1, <2>2 DEF Laid
    <3>2. a + j \in 1 .. k /\ a + j <= Len(d)
      BY <1>1, <2>1, <2>4, <3>1
    <3>3. d[a + j] = PhysicalRecord(TypeAt(d, a), PayloadAt(d, a))[j]
      BY <2>3, <3>2 DEF Laid
    <3> QED BY <1>1, <3>2, <3>3
  <2>6. ASSUME NEW m \in 0 .. a, InBlock(m, a)
        PROVE  Linked(g, a, m)
    <3> DEFINE n == NextStart(m, EndOf(d, a))
    <3>1. Linked(d, a, m)
      BY <2>3, <2>6
    <3>2. n \in Nat
      BY <2>4, LogAssumption DEF NextStart, kHeaderSize
    <3>3. EndOf(g, a) <= m + kBlockSize /\ NextStart(m, EndOf(g, a)) = n
      BY <2>2, <3>1 DEF Linked
    <3>4. ASSUME n < Len(g)
          PROVE  /\ IsHeader(g, n)
                 /\ Starting(TypeAt(g, n)) <=> Ending(TypeAt(g, a))
      <4> HIDE DEF n
      <4>1. n < k /\ n < Len(d)
        BY <1>1, <3>2, <3>4
      <4>2. /\ IsHeader(d, n) <=> IsHeader(g, n)
            /\ TypeAt(d, n) = TypeAt(g, n)
        BY <1>2, <3>2, <4>1
      <4>3. /\ IsHeader(d, n)
            /\ Starting(TypeAt(d, n)) <=> Ending(TypeAt(d, a))
        BY <3>1, <4>1 DEF Linked, n
      <4> QED BY <2>2, <4>2, <4>3
    <3> QED BY <3>3, <3>4 DEF Linked
  <2> QED BY <2>5, <2>6
<1>5. ASSUME NEW m \in 0 .. Len(g), Boundary(m), m < Len(g)
      PROVE  IsHeader(g, m)
  BY <1>1, <1>2, <1>5 DEF Chain
<1>6. Chain(g)
  BY <1>1, <1>3, <1>4, <1>5 DEF Chain
<1> QED BY <1>6 DEF g

(* g is the file d with a fragment of the cells c put where the next one   *)
(* belongs, in the block o.                                                *)
Extends(g, d, base, t, c) ==
    /\ g \in Seq(Cells) /\ Len(g) = base + kHeaderSize + Len(c)
    /\ \A i \in 1 .. Len(d) : g[i] = d[i]
    /\ \A i \in Len(d) + 1 .. base : g[i] = Zero
    /\ \A j \in 1 .. kHeaderSize + Len(c) : g[base + j] = PhysicalRecord(t, c)[j]

(* A fragment that fits its block and continues what the file ends with    *)
(* makes a chain of a chain.                                               *)
LEMMA ChainExtended ==
    ASSUME NEW d, Chain(d), NEW offset, NEW begun \in BOOLEAN, Whole(d, offset, begun),
           NEW m \in Nat, Boundary(m), Len(d) = m + offset,
           NEW base \in Nat, base = NextStart(m, Len(d)),
           NEW o \in Nat, Boundary(o), o <= base,
           NEW t \in Types, NEW c \in Seq(Data), Starting(t) <=> ~begun,
           base + kHeaderSize + Len(c) <= o + kBlockSize,
           NEW g, Extends(g, d, base, t, c)
    PROVE  /\ Chain(g) /\ Whole(g, base + kHeaderSize + Len(c) - o, ~Ending(t))
           /\ \A a \in 0 .. Len(d) : a < Len(d) /\ IsHeader(d, a) /\ EndOf(d, a) = Len(d) =>
                 \A n \in 0 .. a : InBlock(n, a) => NextStart(n, EndOf(d, a)) = base
<1>1. /\ d \in Seq(Cells) /\ Len(d) \in Nat /\ Len(c) \in Nat
      /\ kBlockSize \in Nat /\ kBlockSize > 6
      /\ offset \in Nat /\ offset <= kBlockSize
      /\ Len(d) <= base /\ o <= base /\ base + 3 + Len(c) <= o + kBlockSize
  BY LogAssumption DEF Chain, Whole, kHeaderSize, NextStart
<1>2. /\ g \in Seq(Cells) /\ Len(g) = base + 3 + Len(c) /\ Len(g) \in Nat
      /\ base < Len(g) /\ Len(d) < Len(g)
  BY <1>1 DEF Extends, kHeaderSize
<1>3. ASSUME NEW a \in Nat, a < Len(d)
      PROVE  /\ IsHeader(d, a) <=> IsHeader(g, a)
             /\ TypeAt(d, a) = TypeAt(g, a) /\ PayloadAt(d, a) = PayloadAt(g, a)
             /\ EndOf(d, a) = EndOf(g, a)
  <2>1. a + 1 \in 1 .. Len(d) /\ a < Len(g)
    BY <1>1, <1>2, <1>3
  <2>2. d[a + 1] = g[a + 1]
    BY <2>1 DEF Extends
  <2> QED BY <1>3, <2>1, <2>2, SameCell
<1>4. /\ IsHeader(g, base) /\ TypeAt(g, base) = t /\ PayloadAt(g, base) = c
      /\ EndOf(g, base) = Len(g)
  <2>1. g[base + 1] = <<"crc", t, c>>
    <3>1. 1 \in 1 .. kHeaderSize + Len(c)
      BY <1>1 DEF kHeaderSize
    <3> QED BY <3>1, Fragment DEF Extends
  <2> QED BY <1>2, <2>1 DEF IsHeader, TypeAt, PayloadAt, EndOf, kHeaderSize
<1>5. ASSUME NEW a \in 0 .. Len(g), IsHeader(g, a)
      PROVE  a < Len(d) \/ a = base
  <2>1. SUFFICES ASSUME ~(a < Len(d)), a /= base
                 PROVE  FALSE
    OBVIOUS
  <2>2. a < Len(g)
    BY <1>5 DEF IsHeader
  <2>5. g[a + 1][1] = "crc"
    BY <1>5 DEF IsHeader
  <2>3. CASE a < base
    <3>1. a + 1 \in Len(d) + 1 .. base
      BY <1>1, <2>1, <2>3
    <3>2. g[a + 1] = Zero
      BY <3>1 DEF Extends
    <3> QED BY <2>5, <3>2 DEF Zero
  <2>4. CASE a > base
    <3> DEFINE j == a + 1 - base
    <3>5. PICK n \in Nat : n = Len(c)
      BY <1>1
    <3>6. a \in Nat /\ a < base + 3 + n
      BY <1>2, <2>2, <3>5
    <3>7. j \in 2 .. 3 + n /\ base + j = a + 1
      BY <2>4, <3>6, SMTT(60)
    <3>1. j \in 2 .. kHeaderSize + Len(c) /\ base + j = a + 1
      BY <3>5, <3>7 DEF kHeaderSize
    <3> HIDE DEF j
    <3>2. j \in 1 .. kHeaderSize + Len(c) /\ j \in 2 .. Len(PhysicalRecord(t, c))
      <4>1. Len(PhysicalRecord(t, c)) = kHeaderSize + Len(c)
        BY Fragment
      <4>2. 2 .. kHeaderSize + Len(c) \subseteq 1 .. kHeaderSize + Len(c)
        BY <1>1, SMTT(30) DEF kHeaderSize
      <4> QED BY <3>1, <4>1, <4>2
    <3>3. g[base + j] = PhysicalRecord(t, c)[j]
      BY <3>2 DEF Extends
    <3>4. PhysicalRecord(t, c)[j][1] /= "crc"
      BY <3>2, Fragment
    <3> QED BY <2>5, <3>1, <3>3, <3>4
  <2> QED BY <1>1, <2>1, <2>3, <2>4
<1>6. ASSUME NEW a \in 0 .. Len(d), a < Len(d), IsHeader(d, a)
      PROVE  /\ Laid(d, a) /\ EndOf(d, a) \in Nat /\ EndOf(d, a) <= Len(d)
             /\ a + kHeaderSize <= EndOf(d, a) /\ Len(PayloadAt(d, a)) \in Nat
             /\ EndOf(d, a) = Len(d) => (Ending(TypeAt(d, a)) <=> ~begun)
             /\ \A n \in 0 .. a : InBlock(n, a) =>
                   /\ Linked(d, a, n)
                   /\ EndOf(d, a) = Len(d) \/ NextStart(n, EndOf(d, a)) < Len(d)
  BY <1>1, <1>6, HeaderCells DEF Chain, Whole
<1>7. ASSUME NEW a \in 0 .. Len(d), a < Len(d), IsHeader(d, a), EndOf(d, a) = Len(d),
             NEW n \in 0 .. a, InBlock(n, a)
      PROVE  NextStart(n, Len(d)) = base
  <2>1. Len(d) <= n + kBlockSize /\ n + 3 <= Len(d)
    <3>1. Linked(d, a, n) /\ a + kHeaderSize <= EndOf(d, a)
      BY <1>6, <1>7
    <3>2. EndOf(d, a) <= n + kBlockSize
      BY <3>1 DEF Linked
    <3>3. a \in Nat /\ n \in Nat /\ n <= a
      BY <1>1, <1>7
    <3>4. a + 3 <= Len(d)
      BY <1>7, <3>1 DEF kHeaderSize
    <3> QED BY <1>1, <1>7, <3>2, <3>3, <3>4
  <2>2. Boundary(n) /\ n \in Nat
    BY <1>7 DEF InBlock
  <2>3. CASE n = m
    BY <2>3
  <2>4. CASE n < m
    <3>1. n + kBlockSize <= m
      BY <2>2, <2>4, Boundaries
    <3> QED BY <1>1, <2>1, <3>1 DEF NextStart, kHeaderSize
  <2>5. CASE n > m
    <3>1. m + kBlockSize <= n
      BY <2>2, <2>5, Boundaries
    <3> QED BY <1>1, <2>1, <3>1
  <2> QED BY <2>2, <2>3, <2>4, <2>5
<1>8. Len(g) > 0 => IsHeader(g, 0) /\ Starting(TypeAt(g, 0))
  <2>1. CASE Len(d) = 0
    <3>1. base = 0
      BY <1>1, <2>1 DEF NextStart, kHeaderSize
    <3> QED BY <1>4, <2>1, <3>1 DEF Whole
  <2>2. CASE Len(d) > 0
    BY <1>1, <1>3, <2>2 DEF Chain
  <2> QED BY <1>1, <2>1, <2>2
<1>9. ASSUME NEW a \in 0 .. Len(g), IsHeader(g, a)
      PROVE  /\ Laid(g, a) /\ EndOf(g, a) <= Len(g)
             /\ EndOf(g, a) = Len(g) => (Ending(TypeAt(g, a)) <=> ~ ~Ending(t))
             /\ \A n \in 0 .. a : InBlock(n, a) =>
                   /\ Linked(g, a, n)
                   /\ EndOf(g, a) = Len(g) \/ NextStart(n, EndOf(g, a)) < Len(g)
  <2>1. CASE a = base
    <3>1. Laid(g, a)
      BY <1>4, <2>1 DEF Laid, Extends
    <3>2. ASSUME NEW n \in 0 .. a, InBlock(n, a)
          PROVE  Linked(g, a, n)
      <4>1. Boundary(n) /\ n \in Nat /\ n <= base /\ base < n + kBlockSize
        BY <2>1, <3>2 DEF InBlock
      <4>2. n < o => n + kBlockSize <= o
        BY <4>1, Boundaries
      <4>3. n >= o
        BY <1>1, <4>1, <4>2
      <4>4. Len(g) <= n + kBlockSize
        BY <1>1, <1>2, <4>1, <4>3, SMTT(30) DEF kHeaderSize
      <4>5. ~(NextStart(n, Len(g)) < Len(g))
        BY <1>1, <1>2, <4>1, <4>4, SMTT(30) DEF NextStart, kHeaderSize
      <4> QED BY <1>4, <2>1, <4>4, <4>5 DEF Linked
    <3> QED BY <1>2, <1>4, <2>1, <3>1, <3>2
  <2>2. CASE a < Len(d)
    <3>1. /\ a \in 0 .. Len(d) /\ a \in Nat
          /\ IsHeader(d, a) /\ TypeAt(d, a) = TypeAt(g, a)
          /\ PayloadAt(d, a) = PayloadAt(g, a) /\ EndOf(d, a) = EndOf(g, a)
      BY <1>1, <1>3, <1>9, <2>2
    <3>2. Laid(g, a)
      <4>1. SUFFICES ASSUME NEW j \in 1 .. kHeaderSize + Len(PayloadAt(d, a))
                     PROVE  g[a + j] = PhysicalRecord(TypeAt(d, a), PayloadAt(d, a))[j]
        BY <3>1 DEF Laid
      <4>2. a + j \in 1 .. Len(d) /\ a + j <= Len(d)
        BY <1>1, <1>6, <2>2, <3>1 DEF EndOf, kHeaderSize
      <4>3. d[a + j] = PhysicalRecord(TypeAt(d, a), PayloadAt(d, a))[j]
        BY <1>6, <2>2, <3>1, <4>2 DEF Laid
      <4> QED BY <4>2, <4>3 DEF Extends
    <3>3. EndOf(g, a) \in Nat /\ EndOf(g, a) < Len(g)
      BY <1>1, <1>2, <1>6, <2>2, <3>1, SMTT(30)
    <3>4. ASSUME NEW n \in 0 .. a, InBlock(n, a)
          PROVE  /\ Linked(g, a, n)
                 /\ NextStart(n, EndOf(g, a)) < Len(g)
      <4> DEFINE x == NextStart(n, EndOf(d, a))
      <4>1. /\ Linked(d, a, n)
            /\ EndOf(d, a) = Len(d) \/ x < Len(d)
        BY <1>6, <2>2, <3>1, <3>4
      <4>2. x \in Nat
        BY <1>1, <1>6, <2>2, <3>1 DEF NextStart
      <4>3. CASE x < Len(d)
        <5>1. /\ IsHeader(d, x)
              /\ Starting(TypeAt(d, x)) <=> Ending(TypeAt(d, a))
          BY <4>1, <4>3 DEF Linked
        <5> HIDE DEF x
        <5>2. IsHeader(g, x) /\ TypeAt(g, x) = TypeAt(d, x) /\ x < Len(g)
          BY <1>1, <1>2, <1>3, <4>2, <4>3, <5>1, SMTT(30)
        <5>3. x = NextStart(n, EndOf(g, a)) /\ EndOf(g, a) <= n + kBlockSize
          BY <3>1, <4>1 DEF x, Linked
        <5>4. Starting(TypeAt(g, x)) <=> Ending(TypeAt(g, a))
          BY <3>1, <5>1, <5>2
        <5> QED BY <5>2, <5>3, <5>4 DEF Linked
      <4>4. CASE EndOf(d, a) = Len(d)
        <5>1. x = base
          BY <1>7, <2>2, <3>1, <3>4, <4>4
        <5>2. x = NextStart(n, EndOf(g, a)) /\ EndOf(g, a) <= n + kBlockSize
          BY <3>1, <4>1 DEF Linked
        <5>3. Starting(TypeAt(g, base)) <=> Ending(TypeAt(g, a))
          BY <1>4, <1>6, <2>2, <3>1, <4>4
        <5> HIDE DEF x
        <5> QED BY <1>2, <1>4, <5>1, <5>2, <5>3 DEF Linked
      <4> QED BY <4>1, <4>3, <4>4
    <3> QED BY <3>2, <3>3, <3>4
  <2> QED BY <1>5, <1>9, <2>1, <2>2
<1>12. ASSUME NEW n \in 0 .. Len(g), Boundary(n), n < Len(g)
       PROVE  IsHeader(g, n)
  <2>1. CASE n < Len(d)
    BY <1>1, <1>3, <1>12, <2>1 DEF Chain
  <2>2. CASE n >= Len(d)
    <3>1. n >= m /\ n \in Nat
      BY <1>1, <2>2
    <3>2. n = m \/ m + kBlockSize <= n
      BY <1>12, <3>1, Boundaries
    <3>3. o < n => o + kBlockSize <= n
      BY <1>12, <3>1, Boundaries
    <3>4. n <= o
      BY <1>1, <1>2, <1>12, <3>1, <3>3
    <3>5. n >= base
      BY <1>1, <2>2, <3>1, <3>2 DEF NextStart, kHeaderSize
    <3>6. n = base
      BY <1>1, <3>1, <3>4, <3>5, SMTT(30)
    <3> QED BY <1>4, <3>6
  <2> QED BY <1>1, <2>1, <2>2
<1>10. Chain(g)
  BY <1>2, <1>8, <1>9, <1>12 DEF Chain
<1>11. Whole(g, base + kHeaderSize + Len(c) - o, ~Ending(t))
  <2> DEFINE x == base + kHeaderSize + Len(c) - o
  <2>1. x \in 0 .. kBlockSize
    <3>1. PICK n \in Nat : n = Len(c)
      BY <1>1
    <3>2. x = base + 3 + n - o
      BY <3>1 DEF kHeaderSize
    <3>3. base + 3 + n <= o + kBlockSize /\ o <= base
      BY <1>1, <3>1
    <3>4. base + 3 + n - o <= kBlockSize
      BY <1>1, <3>3, SMTT(30)
    <3>5. base + 3 + n - o >= 0
      BY <1>1, <3>3, SMTT(30)
    <3> QED BY <3>2, <3>4, <3>5
  <2>2. o \in 0 .. Len(g) /\ Len(g) = o + x
    <3>1. PICK n \in Nat : n = Len(c)
      BY <1>1
    <3>2. x = base + 3 + n - o
      BY <3>1 DEF kHeaderSize
    <3>3. Len(g) = base + 3 + n /\ o <= base
      BY <1>1, <1>2, <3>1
    <3> QED BY <3>2, <3>3, SMTT(30)
  <2>3. Len(g) /= 0
    BY <1>1, <1>2
  <2> HIDE DEF x
  <2>4. Whole(g, x, ~Ending(t))
    BY <1>9, <2>1, <2>2, <2>3 DEF Whole
  <2> QED BY <2>4 DEF x
<1> QED BY <1>7, <1>10, <1>11

(* The type of a fragment says whether it starts and whether it ends a     *)
(* record.                                                                 *)
LEMMA TypeOfFragment ==
    ASSUME NEW begin \in BOOLEAN, NEW end \in BOOLEAN
    PROVE  /\ FragmentType(begin, end) \in Types
           /\ Starting(FragmentType(begin, end)) <=> begin
           /\ Ending(FragmentType(begin, end)) <=> end
BY DEF FragmentType, Types, Starting, Ending, kFullType, kFirstType, kMiddleType, kLastType

LEMMA PayloadIsData ==
    ASSUME NEW r \in Nat, NEW from \in Int, NEW n \in Nat
    PROVE  PayloadCells(r, from, n) \in Seq(Data) /\ Len(PayloadCells(r, from, n)) = n
<1>1. \A i \in 1 .. n : <<"data", r, from + i>> \in Data
  BY DEF Data
<1> QED BY <1>1 DEF PayloadCells

(* The trailer brings the file to where the next header belongs. *)
LEMMA TrailerFills ==
    ASSUME dest \in Seq(Cells), block_offset \in 0 .. kBlockSize,
           NEW m \in Nat, Boundary(m), Len(dest) = m + block_offset
    PROVE  LET base == dest \o Trailer
               o    == m + (IF kBlockSize - block_offset < kHeaderSize THEN kBlockSize ELSE 0)
           IN /\ base \in Seq(Cells) /\ Len(base) = NextStart(m, Len(dest))
              /\ \A i \in 1 .. Len(dest) : base[i] = dest[i]
              /\ \A i \in Len(dest) + 1 .. Len(base) : base[i] = Zero
              /\ o \in Nat /\ Boundary(o) /\ o + OffsetAfterTrailer = Len(base)
              /\ OffsetAfterTrailer \in Nat /\ OffsetAfterTrailer + kHeaderSize <= kBlockSize
<1> DEFINE o == m + (IF kBlockSize - block_offset < kHeaderSize THEN kBlockSize ELSE 0)
           z == IF kBlockSize - block_offset < kHeaderSize THEN kBlockSize - block_offset ELSE 0
<1>1. kBlockSize \in Nat /\ kBlockSize > 6 /\ z \in Nat /\ block_offset \in Nat
  BY LogAssumption DEF kHeaderSize
<1>2. Trailer \in Seq(Cells) /\ Len(Trailer) = z /\ \A i \in 1 .. z : Trailer[i] = Zero
  <2>1. Zero \in Cells
    BY Zenon DEF Cells
  <2>2. CASE kBlockSize - block_offset < kHeaderSize
    <3>1. Trailer = [i \in 1 .. z |-> Zero]
      BY <2>2 DEF Trailer
    <3> HIDE DEF z
    <3> QED BY <1>1, <2>1, <3>1
  <2>3. CASE ~(kBlockSize - block_offset < kHeaderSize)
    <3>1. Trailer = <<>> /\ z = 0
      BY <2>3 DEF Trailer
    <3> HIDE DEF z
    <3> QED BY <3>1
  <2> QED BY <2>2, <2>3
<1>3. Len(dest) + z = NextStart(m, Len(dest)) /\ Len(dest) \in Nat
  BY <1>1 DEF NextStart, kHeaderSize
<1>4. /\ dest \o Trailer \in Seq(Cells) /\ Len(dest \o Trailer) = Len(dest) + z
      /\ \A i \in 1 .. Len(dest) + z : (dest \o Trailer)[i] =
            IF i <= Len(dest) THEN dest[i] ELSE Trailer[i - Len(dest)]
  BY <1>2, ConcatProperties, ZenonT(60)
<1>5. /\ \A i \in 1 .. Len(dest) : (dest \o Trailer)[i] = dest[i]
      /\ \A i \in Len(dest) + 1 .. Len(dest) + z : (dest \o Trailer)[i] = Zero
  <2> HIDE DEF z
  <2>1. ASSUME NEW i \in 1 .. Len(dest)
        PROVE  (dest \o Trailer)[i] = dest[i]
    <3>1. i \in 1 .. Len(dest) + z /\ i <= Len(dest)
      BY <1>1, <1>3
    <3> QED BY <1>4, <3>1
  <2>2. ASSUME NEW i \in Len(dest) + 1 .. Len(dest) + z
        PROVE  (dest \o Trailer)[i] = Zero
    <3>1. i \in 1 .. Len(dest) + z /\ ~(i <= Len(dest)) /\ i - Len(dest) \in 1 .. z
      BY <1>1, <1>3
    <3> QED BY <1>2, <1>4, <3>1
  <2> QED BY <2>1, <2>2
<1>6. o \in Nat /\ Boundary(o)
  BY <1>1, Boundaries
<1>7. /\ o + OffsetAfterTrailer = Len(dest) + z
      /\ OffsetAfterTrailer \in Nat /\ OffsetAfterTrailer + kHeaderSize <= kBlockSize
  BY <1>1, <1>3 DEF OffsetAfterTrailer, kHeaderSize
<1> HIDE DEF z
<1> QED BY <1>3, <1>4, <1>5, <1>6, <1>7

(* A round of AddRecord that succeeds: a fragment of the cells c at base.  *)
EmitsAt(base, c) ==
    LET r     == Len(records)
        begin == records[r].start = NoCall
    IN /\ r \in 1 .. Len(records) /\ remaining \in Nat
       /\ base >= Len(dest) /\ base < Len(dest') /\ EndOf(dest', base) = Len(dest')
       /\ \A i \in 1 .. Len(dest) : dest'[i] = dest[i]
       /\ IsHeader(dest', base) /\ PayloadAt(dest', base) = c
       /\ c = PayloadCells(r, records[r].len - remaining, Len(c))
       /\ Len(c) \in Nat /\ Len(c) <= remaining
       /\ Starting(TypeAt(dest', base)) <=> begin
       /\ Ending(TypeAt(dest', base)) <=> remaining = Len(c)
       /\ \A a \in 0 .. Len(dest) : a < Len(dest) /\ IsHeader(dest, a) /\ EndOf(dest, a) = Len(dest) =>
             \A m \in 0 .. a : InBlock(m, a) => NextStart(m, EndOf(dest, a)) = base
       /\ remaining' = IF remaining = Len(c) THEN NoCall ELSE remaining - Len(c)
       /\ Len(records') = r
       /\ \A i \in 1 .. r : i /= r => records'[i] = records[i]
       /\ records'[r] = [len |-> records[r].len,
                         start |-> IF begin THEN base ELSE records[r].start,
                         end |-> Len(dest'), ok |-> remaining = Len(c)]

LEMMA EmitKeeps ==
    ASSUME WriterTypes, Chain(dest), Whole(dest, block_offset, Begun),
           EmitFragment, log_failures' = log_failures, log_failures \in Nat
    PROVE  /\ WriterTypes' /\ Chain(dest') /\ Whole(dest', block_offset', Begun')
           /\ \E base \in Nat, c \in Seq(Data) : EmitsAt(base, c)
<1> DEFINE r     == Len(records)
           begin == records[r].start = NoCall
           n     == FragmentLength
           t     == FragmentType(begin, remaining = n)
           from  == records[r].len - remaining
           c     == PayloadCells(r, from, n)
           base  == dest \o Trailer
           start == IF begin THEN Len(base) ELSE records[r].start
<1>1. /\ remaining /= NoCall
      /\ block_offset' = OffsetAfter(n)
      /\ dest' = base \o PhysicalRecord(t, c)
      /\ remaining' = IF remaining = n THEN NoCall ELSE remaining - n
      /\ records' = [records EXCEPT ![r].start = start, ![r].end = Len(dest'),
                                    ![r].ok = remaining = n]
      /\ UNCHANGED reader
  <2>1. log_failures' /= log_failures + 1
    BY SMT
  <2> QED BY <2>1, Zenon DEF EmitFragment
<1>2. /\ remaining \in Nat /\ r \in Nat /\ r > 0
      /\ records \in Seq([len : Nat, start : Int, end : Int, ok : BOOLEAN])
      /\ r \in 1 .. Len(records) /\ records[r].len \in Nat /\ records[r].start \in Int
      /\ records[r] \in [len : Nat, start : Int, end : Int, ok : BOOLEAN]
  <2>1. remaining \in Nat
    BY <1>1 DEF WriterTypes
  <2>2. records \in Seq([len : Nat, start : Int, end : Int, ok : BOOLEAN]) /\ Len(records) > 0
    BY <1>1 DEF WriterTypes
  <2>3. r \in 1 .. Len(records)
    BY <2>2
  <2>4. records[r] \in [len : Nat, start : Int, end : Int, ok : BOOLEAN]
    BY <2>2, <2>3, ElementOfSeq, Zenon
  <2>5. records[r].len \in Nat /\ records[r].start \in Int
    BY <2>4
  <2> QED BY <2>1, <2>2, <2>3, <2>4, <2>5
<1>3. PICK m \in 0 .. Len(dest) : Boundary(m) /\ Len(dest) = m + block_offset
  BY DEF Whole
<1>4. dest \in Seq(Cells) /\ Len(dest) \in Nat /\ m \in Nat /\ block_offset \in 0 .. kBlockSize
  BY <1>3 DEF Chain, Whole
<1> DEFINE o == m + (IF kBlockSize - block_offset < kHeaderSize THEN kBlockSize ELSE 0)
<1>5. /\ base \in Seq(Cells) /\ Len(base) = NextStart(m, Len(dest))
      /\ \A i \in 1 .. Len(dest) : base[i] = dest[i]
      /\ \A i \in Len(dest) + 1 .. Len(base) : base[i] = Zero
      /\ o \in Nat /\ Boundary(o) /\ o + OffsetAfterTrailer = Len(base)
      /\ OffsetAfterTrailer \in Nat /\ OffsetAfterTrailer + kHeaderSize <= kBlockSize
  BY <1>3, <1>4, TrailerFills, Zenon
<1> HIDE DEF o
<1>6. /\ n \in Nat /\ n <= remaining /\ OffsetAfterTrailer + kHeaderSize + n <= kBlockSize
      /\ block_offset' = OffsetAfterTrailer + kHeaderSize + n
  <2>1. kBlockSize \in Nat
    BY LogAssumption
  <2> DEFINE avail == kBlockSize - OffsetAfterTrailer - kHeaderSize
  <2>2. avail \in Nat /\ OffsetAfterTrailer + kHeaderSize + avail = kBlockSize
    BY <1>5, <2>1 DEF kHeaderSize
  <2>3. n = IF remaining < avail THEN remaining ELSE avail
    BY DEF FragmentLength
  <2>4. block_offset' = OffsetAfterTrailer + kHeaderSize + n
    BY <1>1 DEF OffsetAfter
  <2> HIDE DEF avail, n
  <2>5. n \in Nat /\ n <= remaining /\ n <= avail
    BY <1>2, <2>2, <2>3
  <2> QED BY <1>5, <2>1, <2>2, <2>4, <2>5 DEF kHeaderSize
<1> HIDE DEF n
<1>7. /\ t \in Types /\ (Starting(t) <=> begin) /\ (Ending(t) <=> remaining = n)
  BY TypeOfFragment
<1>8. c \in Seq(Data) /\ Len(c) = n
  <2>1. from \in Int /\ r \in Nat
    BY <1>2
  <2> QED BY <1>6, <2>1, PayloadIsData, Zenon
<1>9. Begun <=> ~begin
  BY <1>1 DEF Begun
<1> HIDE DEF t, c, base
<1>10. Extends(dest', dest, Len(base), t, c)
  <2> DEFINE p == PhysicalRecord(t, c)
  <2>1. p \in Seq(Cells) /\ Len(p) = kHeaderSize + Len(c)
    BY <1>7, <1>8, Fragment
  <2> HIDE DEF p
  <2>2. /\ dest' \in Seq(Cells) /\ Len(dest') = Len(base) + Len(p)
        /\ \A i \in 1 .. Len(base) + Len(p) : dest'[i] =
              IF i <= Len(base) THEN base[i] ELSE p[i - Len(base)]
    BY <1>1, <1>5, <2>1, ConcatProperties, ZenonT(60) DEF p
  <2>3. Len(base) \in Nat /\ Len(p) \in Nat /\ Len(dest) <= Len(base)
    <3>1. Len(base) \in Nat /\ Len(p) \in Nat
      BY <1>5, <2>1
    <3>2. kBlockSize \in Nat /\ block_offset <= kBlockSize
      BY <1>4, LogAssumption
    <3>3. NextStart(m, Len(dest)) >= Len(dest)
      BY <1>3, <1>4, <3>2 DEF NextStart, kHeaderSize
    <3> QED BY <1>5, <3>1, <3>3
  <2>4. \A i \in 1 .. Len(base) : dest'[i] = base[i]
    BY <2>2, <2>3
  <2>5. \A i \in 1 .. Len(dest) : dest'[i] = dest[i]
    BY <1>4, <1>5, <2>3, <2>4
  <2>6. \A i \in Len(dest) + 1 .. Len(base) : dest'[i] = Zero
    BY <1>4, <1>5, <2>3, <2>4
  <2>7. ASSUME NEW j \in 1 .. Len(p)
        PROVE  dest'[Len(base) + j] = p[j]
    <3>1. /\ Len(base) + j \in 1 .. Len(base) + Len(p) /\ ~(Len(base) + j <= Len(base))
          /\ (Len(base) + j) - Len(base) = j
      BY <2>3
    <3> QED BY <2>2, <3>1
  <2>8. Len(dest') = Len(base) + kHeaderSize + Len(c)
    BY <1>6, <1>8, <2>1, <2>2, <2>3 DEF kHeaderSize
  <2> QED BY <2>1, <2>2, <2>5, <2>6, <2>7, <2>8 DEF Extends, p
<1>11. /\ Chain(dest') /\ Whole(dest', Len(base) + kHeaderSize + Len(c) - o, ~Ending(t))
       /\ \A a \in 0 .. Len(dest) : a < Len(dest) /\ IsHeader(dest, a) /\ EndOf(dest, a) = Len(dest) =>
             \A i \in 0 .. a : InBlock(i, a) => NextStart(i, EndOf(dest, a)) = Len(base)
  <2>1. Len(base) \in Nat /\ o <= Len(base) /\ Len(base) + kHeaderSize + Len(c) <= o + kBlockSize
    BY <1>5, <1>6, <1>8, LogAssumption DEF kHeaderSize
  <2>2. Begun \in BOOLEAN /\ (Starting(t) <=> ~Begun)
    BY <1>7, <1>9 DEF Begun
  <2> DEFINE l == Len(base)
  <2>3. /\ l \in Nat /\ l = NextStart(m, Len(dest)) /\ o \in Nat /\ Boundary(o) /\ o <= l
        /\ l + kHeaderSize + Len(c) <= o + kBlockSize /\ Extends(dest', dest, l, t, c)
    BY <1>5, <1>10, <2>1
  <2> HIDE DEF l
  <2>4. /\ Chain(dest') /\ Whole(dest', l + kHeaderSize + Len(c) - o, ~Ending(t))
        /\ \A a \in 0 .. Len(dest) : a < Len(dest) /\ IsHeader(dest, a) /\ EndOf(dest, a) = Len(dest) =>
              \A i \in 0 .. a : InBlock(i, a) => NextStart(i, EndOf(dest, a)) = l
    BY <1>3, <1>4, <1>7, <1>8, <2>2, <2>3, ChainExtended, ZenonT(60)
  <2> QED BY <2>4 DEF l
<1>12. block_offset' = Len(base) + kHeaderSize + Len(c) - o
  BY <1>5, <1>6, <1>8 DEF kHeaderSize
<1>13. start \in Nat \cup {records[r].start} /\ (start = NoCall => FALSE)
  <2>1. Len(base) \in Nat
    BY <1>5
  <2> QED BY <2>1 DEF NoCall
<1>14. /\ records' \in Seq([len : Nat, start : Int, end : Int, ok : BOOLEAN])
       /\ Len(records') = r /\ records'[r].start = start
       /\ records'[r] = [len |-> records[r].len, start |-> start, end |-> Len(dest'),
                         ok |-> remaining = n]
       /\ \A i \in 1 .. r : i /= r => records'[i] = records[i]
  <2>1. Len(dest') \in Int
    <3>1. Len(dest') \in Nat
      BY <1>10 DEF Extends
    <3> QED BY <3>1
  <2>2. start \in Int
    BY <1>2, <1>13
  <2> HIDE DEF start
  <2>3. [records[r] EXCEPT !.start = start, !.end = Len(dest'), !.ok = remaining = n]
           \in [len : Nat, start : Int, end : Int, ok : BOOLEAN]
    <3> DEFINE last == records[r]
               ok   == remaining = n
    <3>1. last \in [len : Nat, start : Int, end : Int, ok : BOOLEAN] /\ ok \in BOOLEAN
      BY <1>2
    <3> HIDE DEF last, ok
    <3>2. [last EXCEPT !.start = start, !.end = Len(dest'), !.ok = ok]
             \in [len : Nat, start : Int, end : Int, ok : BOOLEAN]
      <4>1. PICK s \in Int, e \in Int : s = start /\ e = Len(dest')
        BY <2>1, <2>2
      <4>2. [last EXCEPT !.start = s, !.end = e, !.ok = ok]
               \in [len : Nat, start : Int, end : Int, ok : BOOLEAN]
        BY <3>1
      <4> QED BY <4>1, <4>2, Zenon
    <3> QED BY <3>2 DEF last, ok
  <2> DEFINE new == [records[r] EXCEPT !.start = start, !.end = Len(dest'), !.ok = remaining = n]
  <2>4. records' = [records EXCEPT ![r] = new]
    BY <1>1, <1>2
  <2>5. /\ new.start = start
        /\ new = [len |-> records[r].len, start |-> start, end |-> Len(dest'),
                  ok |-> remaining = n]
    <3>1. PICK last \in [len : Nat, start : Int, end : Int, ok : BOOLEAN] : last = records[r]
      BY <1>2
    <3>2. PICK i, j, k : i = start /\ j = Len(dest') /\ k = (remaining = n)
      OBVIOUS
    <3> HIDE DEF new
    <3>3. new = [last EXCEPT !.start = i, !.end = j, !.ok = k]
      BY <3>1, <3>2, Zenon DEF new
    <3>4. /\ new.start = i
          /\ new = [len |-> last.len, start |-> i, end |-> j, ok |-> k]
      BY <3>1, <3>3
    <3> QED BY <3>1, <3>2, <3>4, Zenon
  <2>6. new \in [len : Nat, start : Int, end : Int, ok : BOOLEAN]
    BY <2>3
  <2> HIDE DEF new
  <2>7. records' \in Seq([len : Nat, start : Int, end : Int, ok : BOOLEAN])
    BY <1>2, <2>4, <2>6
  <2>8. /\ Len(records') = r /\ records'[r] = new
        /\ \A i \in 1 .. r : i /= r => records'[i] = records[i]
    BY <1>2, <2>4
  <2> QED BY <2>5, <2>7, <2>8, Zenon
<1>15. Begun' <=> ~Ending(t)
  <2>1. remaining' = NoCall <=> remaining = n
    BY <1>1, <1>2, <1>6 DEF NoCall
  <2>2. records'[Len(records')].start /= NoCall
    BY <1>13, <1>14
  <2> QED BY <1>7, <2>1, <2>2 DEF Begun
<1>16. WriterTypes'
  <2>1. remaining' \in Nat \cup {NoCall} /\ Len(records') > 0
    <3>1. remaining' \in Nat \cup {NoCall}
      BY <1>1, <1>2, <1>6
    <3> QED BY <1>2, <1>14, <3>1
  <2> QED BY <1>1, <1>14, <2>1 DEF WriterTypes, reader
<1>17. Begun' = ~Ending(t)
  BY <1>15 DEF Begun
<1>18. EmitsAt(Len(base), c)
  <2>1. /\ IsHeader(dest', Len(base)) /\ TypeAt(dest', Len(base)) = t
        /\ PayloadAt(dest', Len(base)) = c /\ EndOf(dest', Len(base)) = Len(dest')
        /\ Len(base) < Len(dest')
    <3>1. 1 \in 1 .. kHeaderSize + Len(c)
      BY <1>6, <1>8 DEF kHeaderSize
    <3>2. dest'[Len(base) + 1] = <<"crc", t, c>>
      BY <1>7, <1>8, <1>10, <3>1, Fragment DEF Extends
    <3>3. Len(base) < Len(dest') /\ Len(dest') = Len(base) + kHeaderSize + Len(c)
      BY <1>5, <1>6, <1>8, <1>10 DEF Extends, kHeaderSize
    <3> QED BY <3>2, <3>3 DEF IsHeader, TypeAt, PayloadAt, EndOf
  <2>2. Len(base) >= Len(dest)
    BY <1>3, <1>4, <1>5, LogAssumption DEF NextStart, kHeaderSize
  <2>3. \A i \in 1 .. Len(dest) : dest'[i] = dest[i]
    BY <1>10 DEF Extends
  <2>4. c = PayloadCells(r, from, n)
    BY DEF c
  <2> HIDE DEF start
  <2>5. start = IF begin THEN Len(base) ELSE records[r].start
    BY DEF start
  <2> QED BY <1>1, <1>2, <1>6, <1>7, <1>8, <1>11, <1>14, <2>1, <2>2, <2>3, <2>4, <2>5, Zenon
       DEF EmitsAt
<1> QED BY <1>5, <1>8, <1>11, <1>12, <1>16, <1>17, <1>18

-----------------------------------------------------------------------------
(* What the reader finds in the fields of a header of a chain.             *)
LEMMA FieldsRead ==
    ASSUME Chain(dest), buffer_[1] \in Nat, buffer_[1] + kHeaderSize <= Len(dest),
           IsHeader(dest, buffer_[1])
    PROVE  LET a == buffer_[1]
               t == TypeAt(dest, a)
               n == Len(PayloadAt(dest, a))
           IN /\ LengthField = {n} /\ TypeField = {t}
              /\ EndOf(dest, a) <= Len(dest) => ChecksumMatches(t, n)
<1> DEFINE a == buffer_[1]
           t == TypeAt(dest, a)
           c == PayloadAt(dest, a)
           p == PhysicalRecord(t, c)
<1>1. dest \in Seq(Cells) /\ a \in Nat /\ Len(dest) \in Nat /\ a \in 0 .. Len(dest)
  BY DEF Chain, kHeaderSize
<1>2. /\ t \in Types /\ c \in Seq(Data) /\ Len(c) \in Nat
      /\ dest[a + 1] = <<"crc", t, c>>
  BY <1>1, HeaderCells
<1>3. \A j \in 1 .. kHeaderSize + Len(c) : a + j <= Len(dest) => dest[a + j] = p[j]
  BY <1>1 DEF Chain, Laid
<1>4. /\ p[2] = <<"length", Len(c)>> /\ p[3] = <<"type", t>>
      /\ \A j \in 1 .. Len(c) : p[kHeaderSize + j] = c[j]
  BY <1>2, Fragment
<1>5. EndOf(dest, a) = a + kHeaderSize + Len(c)
  BY DEF EndOf
<1> HIDE DEF t, c, p
<1>6. dest[a + 2] = <<"length", Len(c)>> /\ dest[a + 3] = <<"type", t>>
  <2>1. 2 \in 1 .. kHeaderSize + Len(c) /\ 3 \in 1 .. kHeaderSize + Len(c)
    BY <1>2 DEF kHeaderSize
  <2>2. a + 2 <= Len(dest) /\ a + 3 <= Len(dest)
    BY <1>1 DEF kHeaderSize
  <2> QED BY <1>3, <1>4, <2>1, <2>2
<1>7. LengthField = {Len(c)}
  <2>1. <<"length", Len(c)>>[1] = "length" /\ <<"length", Len(c)>>[2] = Len(c)
    OBVIOUS
  <2>2. <<"length", Len(c)>> /= Zero
    BY <2>1 DEF Zero
  <2> QED BY <1>6, <2>1, <2>2 DEF LengthField
<1>8. TypeField = {t}
  <2>1. <<"type", t>>[1] = "type" /\ <<"type", t>>[2] = t
    OBVIOUS
  <2>2. <<"type", t>> /= Zero
    BY <2>1 DEF Zero
  <2> QED BY <1>6, <2>1, <2>2 DEF TypeField
<1>9. ASSUME EndOf(dest, a) <= Len(dest)
      PROVE  ChecksumMatches(t, Len(c))
  <2> DEFINE s == SubSeq(dest, a + kHeaderSize + 1, a + kHeaderSize + Len(c))
  <2>1. a + 3 + Len(c) <= Len(dest)
    BY <1>5, <1>9 DEF kHeaderSize
  <2>2. /\ s \in Seq(Cells) /\ Len(s) = Len(c)
        /\ \A j \in 1 .. Len(c) : s[j] = dest[a + 3 + j]
    <3>1. PICK n \in Nat : n = Len(c)
      BY <1>2
    <3>2. PICK i \in Nat : i = a
      BY <1>1
    <3>3. s = SubSeq(dest, i + 4, i + 3 + n) /\ i + 3 + n <= Len(dest)
      <4>1. a + kHeaderSize + 1 = i + 4 /\ a + kHeaderSize + Len(c) = i + 3 + n
        BY <3>1, <3>2 DEF kHeaderSize
      <4>2. a + 3 + Len(c) = i + 3 + n
        BY <3>1, <3>2
      <4>3. i + 3 + n <= Len(dest)
        BY <2>1, <4>2
      <4> QED BY <4>1, <4>3, Zenon
    <3> HIDE DEF a, s
    <3>4. /\ s \in Seq(Cells) /\ Len(s) = n
          /\ \A j \in 1 .. n : s[j] = dest[i + 3 + j]
      BY <1>1, <3>3
    <3> QED BY <3>1, <3>2, <3>4
  <2>3. \A j \in 1 .. Len(c) : dest[a + 3 + j] = c[j]
    <3>1. SUFFICES ASSUME NEW j \in 1 .. Len(c)
                   PROVE  dest[a + 3 + j] = c[j]
      OBVIOUS
    <3>2. /\ 3 + j \in 1 .. kHeaderSize + Len(c) /\ a + (3 + j) <= Len(dest)
          /\ a + (3 + j) = a + 3 + j
      <4>1. PICK n \in Nat : n = Len(c)
        BY <1>2
      <4> QED BY <1>1, <2>1, <4>1 DEF kHeaderSize
    <3>3. dest[a + (3 + j)] = p[3 + j] /\ p[3 + j] = c[j]
      BY <1>3, <1>4, <3>2 DEF kHeaderSize
    <3> QED BY <3>2, <3>3
  <2> HIDE DEF s
  <2>4. s = c
    BY <1>2, <2>2, <2>3, SeqEqual
  <2>5. dest[buffer_[1] + 1] = <<"crc", t, FragmentCells(Len(c))>>
    BY <1>2, <2>4 DEF FragmentCells, s
  <2> QED BY <2>5 DEF ChecksumMatches
<1> QED BY <1>7, <1>8, <1>9 DEF t, c

Sane == Chain(dest) /\ ReaderTypes /\ InBuffer /\ AtFragment /\ reports = <<>>

(* The file and the buffer in the cases of ReadPhysicalRecord: the header  *)
(* is that of a whole fragment unless the file ends in it, and behind the  *)
(* fragment the reader is at the next one.                                 *)
LEMMA BehindFragment ==
    ASSUME Sane, BufferSize >= kHeaderSize,
           NEW e, e = EndOf(dest, buffer_[1])
    PROVE  /\ buffer_[1] \in Nat /\ buffer_[2] \in Nat /\ e \in Nat
           /\ buffer_[1] + kHeaderSize <= buffer_[2] /\ buffer_[2] <= Len(dest)
           /\ IsHeader(dest, buffer_[1]) /\ e >= buffer_[1] + kHeaderSize
           /\ e > buffer_[2] => eof
           /\ e <= buffer_[2] =>
                 LET q == IF buffer_[2] - e >= kHeaderSize THEN e ELSE buffer_[2]
                 IN /\ q < Len(dest) =>
                          /\ IsHeader(dest, q)
                          /\ Starting(TypeAt(dest, q)) <=> Ending(TypeAt(dest, buffer_[1]))
                    /\ buffer_[2] - e < kHeaderSize =>
                          Boundary(buffer_[2]) \/ buffer_[2] = Len(dest)
<1> DEFINE a == buffer_[1]
           b == buffer_[2]
<1>1. /\ a \in Nat /\ b \in Nat /\ b <= Len(dest) /\ b - a >= 3
      /\ dest \in Seq(Cells) /\ Len(dest) \in Nat /\ kBlockSize \in Nat /\ kBlockSize > 6
  BY LogAssumption DEF Sane, ReaderTypes, InBuffer, Chain, BufferSize, kHeaderSize
<1>2. IsHeader(dest, a) /\ a \in 0 .. Len(dest)
  BY <1>1 DEF Sane, AtFragment, Position
<1>3. e \in Nat /\ e >= a + 3
  BY <1>1, <1>2, HeaderCells DEF kHeaderSize
<1>4. PICK m \in 0 .. a :
         /\ Boundary(m)
         /\ b = m + kBlockSize \/ (b = Len(dest) /\ b < m + kBlockSize /\ eof)
  BY DEF Sane, InBuffer
<1>5. InBlock(m, a)
  BY <1>1, <1>4 DEF InBlock
<1>6. Linked(dest, a, m)
  BY <1>2, <1>4, <1>5 DEF Sane, Chain
<1>7. e <= m + kBlockSize
  BY <1>6 DEF Linked
<1>8. e > b => eof
  BY <1>1, <1>3, <1>4, <1>7
<1> DEFINE q == IF b - e >= kHeaderSize THEN e ELSE b
<1>9. ASSUME e <= b, q < Len(dest)
      PROVE  /\ IsHeader(dest, q)
             /\ Starting(TypeAt(dest, q)) <=> Ending(TypeAt(dest, a))
  <2>1. q = NextStart(m, e)
    BY <1>1, <1>3, <1>4, <1>7, <1>9 DEF NextStart, kHeaderSize
  <2> HIDE DEF q
  <2> QED BY <1>6, <1>9, <2>1 DEF Linked
<1>10. Boundary(b) \/ b = Len(dest)
  BY <1>4, Boundaries
<1> QED BY <1>1, <1>2, <1>3, <1>8, <1>9, <1>10 DEF kHeaderSize

(* A fragment is taken, or the file ends in it: nothing is reported, and   *)
(* the reader is at the next one.                                          *)
LEMMA ReadPhysicalKeeps ==
    ASSUME Sane, log_pc = "loop", initial_offset = 0, ReadPhysicalRecord
    PROVE  /\ reports' = <<>>
           /\ log_pc' \in {"call", "loop"} => (ReaderTypes /\ InBuffer /\ AtFragment)'
<1> DEFINE a == buffer_[1]
           b == buffer_[2]
           t == TypeAt(dest, a)
           n == Len(PayloadAt(dest, a))
           e == EndOf(dest, a)
<1>1. /\ reports = <<>> /\ ReaderTypes /\ end_of_buffer_offset = b /\ file_pos = b
      /\ a \in Nat /\ b \in Nat /\ b <= Len(dest)
  BY DEF Sane, ReaderTypes, InBuffer
<1>2. /\ UNCHANGED <<dest, file_pos, eof, end_of_buffer_offset, initial_offset>>
      /\ physical_record_offset' = end_of_buffer_offset' - (buffer_'[2] - buffer_'[1])
  BY DEF ReadPhysicalRecord, writer, TopOfLoop
<1>3. CASE BufferSize < kHeaderSize
  <2>1. OnEof(reports)
    <3>1. ~(BufferSize >= kHeaderSize)
      BY <1>1, <1>3 DEF BufferSize, kHeaderSize
    <3> QED BY <3>1, Zenon DEF ReadPhysicalRecord
  <2> QED BY <1>1, <2>1 DEF OnEof
<1>4. CASE ~(BufferSize < kHeaderSize)
  <2>1. BufferSize >= kHeaderSize /\ BufferSize = b - a
    BY <1>1, <1>4 DEF BufferSize, kHeaderSize
  <2>2. /\ e \in Nat /\ a + kHeaderSize <= b /\ IsHeader(dest, a)
        /\ e >= a + kHeaderSize /\ (e > b => eof)
    BY <2>1, BehindFragment, Zenon
  <2>3. /\ t \in Types /\ n \in Nat /\ e = a + kHeaderSize + n
        /\ PayloadAt(dest, a) \in Seq(Data)
    BY <1>1, <2>2, HeaderCells DEF Sane, Chain, EndOf
  <2>4. /\ LengthField = {n} /\ TypeField = {t}
        /\ e <= Len(dest) => ChecksumMatches(t, n)
    <3>1. a + kHeaderSize <= Len(dest) /\ Chain(dest)
      BY <1>1, <2>2 DEF Sane, Chain, kHeaderSize
    <3> QED BY <1>1, <2>2, <3>1, FieldsRead, Zenon
  <2>5. Position = a
    BY <2>1 DEF Position
  <2>6. a < Len(dest) /\ (Starting(t) <=> ~in_fragmented_record)
    <3>1. a < Len(dest)
      BY <1>1, <2>2 DEF kHeaderSize
    <3> QED BY <2>5, <3>1 DEF Sane, AtFragment
  <2> DEFINE rest  == BufferSize - kHeaderSize - n
             start == end_of_buffer_offset - BufferSize
             drop  == ReportDrop(reports, end_of_buffer_offset, 0, BufferSize)
  <2>7. \/ /\ rest < 0
           /\ Emptied
           /\ TooLong(drop)
        \/ /\ rest >= 0 /\ t = kZeroType /\ n = 0
           /\ Emptied /\ OnBadRecord(reports, 0)
        \/ /\ rest >= 0 /\ ~(t = kZeroType /\ n = 0)
           /\ ~ChecksumMatches(t, n)
           /\ Emptied /\ OnBadRecord(drop, 0)
        \/ /\ rest >= 0 /\ ChecksumMatches(t, n)
           /\ buffer_' = <<buffer_[2] - rest, buffer_[2]>>
           /\ IF StartsBeforeOffset(start, n)
              THEN OnBadRecord(reports, rest)
              ELSE OnRecord(t, FragmentCells(n), rest)
    <3> HIDE DEF t, n
    <3>1. n \in LengthField /\ t \in TypeField
      BY <2>4
    <3> QED BY <1>4, <2>4, ZenonT(60) DEF ReadPhysicalRecord
  <2> HIDE DEF t, n, e
  <2>8. rest = b - e /\ start = a
    BY <1>1, <2>1, <2>2, <2>3, SMTT(30) DEF kHeaderSize
  <2>9. CASE rest < 0
    <3>1. TooLong(drop)
      <4>1. ~(rest >= 0)
        BY <1>1, <2>2, <2>8, <2>9
      <4> QED BY <2>7, <4>1, Zenon
    <3>2. eof
      BY <1>1, <2>2, <2>8, <2>9
    <3> QED BY <1>1, <3>1, <3>2 DEF TooLong, OnEof
  <2>10. CASE ~(rest < 0)
    <3>1. e <= b /\ e <= Len(dest)
      BY <1>1, <2>2, <2>8, <2>10 DEF Sane, Chain
    <3>2. ChecksumMatches(t, n)
      BY <2>4, <3>1
    <3>3. t /= kZeroType
      BY <2>3 DEF Types, kZeroType, kFullType, kLastType
    <3>4. ~StartsBeforeOffset(start, n)
      <4>1. ~(start < initial_offset)
        BY <1>1, <2>8
      <4> QED BY <4>1 DEF StartsBeforeOffset
    <3>5. buffer_' = <<buffer_[2] - rest, buffer_[2]>> /\ OnRecord(t, FragmentCells(n), rest)
      BY <2>7, <2>10, <3>2, <3>3, <3>4, Zenon
    <3>6. buffer_' = <<e, b>>
      <4>1. b - rest = e
        BY <1>1, <2>2, <2>8
      <4> QED BY <3>5, <4>1, Zenon
    <3> HIDE DEF rest
    <3>7. /\ reports' = <<>>
          /\ in_fragmented_record' \in BOOLEAN /\ prospective_record_offset' \in Nat
          /\ last_record_offset' \in Nat
          /\ log_pc' = "call" => Ending(t)
          /\ log_pc' = "loop" => (Ending(t) <=> ~in_fragmented_record')
      <4>1. /\ physical_record_offset \in Nat /\ prospective_record_offset \in Nat
            /\ last_record_offset \in Nat /\ in_fragmented_record \in BOOLEAN
        BY <1>1 DEF ReaderTypes
      <4>2. CASE t = kFullType
        <5>1. ~in_fragmented_record /\ Ending(t)
          BY <2>6, <4>2 DEF Starting, Ending
        <5>2. /\ t /= kFirstType /\ t /= kMiddleType /\ t /= kLastType
          BY <4>2 DEF kFullType, kFirstType, kMiddleType, kLastType
        <5>3. /\ reports' = reports /\ in_fragmented_record' = FALSE
              /\ prospective_record_offset' = physical_record_offset
              /\ log_pc' = "call" /\ last_record_offset' = physical_record_offset
          BY <3>5, <5>1, <5>2, Zenon DEF OnRecord, ReturnRecord
        <5> QED BY <1>1, <4>1, <5>1, <5>3
      <4>3. CASE t = kFirstType
        <5>1. ~in_fragmented_record /\ ~Ending(t)
          BY <2>6, <4>3 DEF Starting, Ending, kFullType, kFirstType, kLastType
        <5>2. /\ t /= kFullType /\ t /= kMiddleType /\ t /= kLastType
          BY <4>3 DEF kFullType, kFirstType, kMiddleType, kLastType
        <5>3. /\ reports' = reports /\ in_fragmented_record' = TRUE
              /\ prospective_record_offset' = physical_record_offset
              /\ log_pc' = log_pc /\ last_record_offset' = last_record_offset
          BY <3>5, <5>1, <5>2, Zenon DEF OnRecord, Continue
        <5> QED BY <1>1, <4>1, <5>1, <5>3
      <4>4. CASE t = kMiddleType
        <5>1. in_fragmented_record /\ ~Ending(t)
          BY <2>6, <4>1, <4>4 DEF Starting, Ending, kFullType, kFirstType, kMiddleType, kLastType
        <5>2. /\ t /= kFullType /\ t /= kFirstType /\ t /= kLastType
          BY <4>4 DEF kFullType, kFirstType, kMiddleType, kLastType
        <5>3. /\ reports' = reports /\ in_fragmented_record' = in_fragmented_record
              /\ prospective_record_offset' = prospective_record_offset
              /\ log_pc' = log_pc /\ last_record_offset' = last_record_offset
          BY <3>5, <5>1, <5>2, Zenon DEF OnRecord, Continue
        <5> QED BY <1>1, <4>1, <5>1, <5>3
      <4>5. CASE t = kLastType
        <5>1. in_fragmented_record /\ Ending(t)
          BY <2>6, <4>1, <4>5 DEF Starting, Ending, kFullType, kFirstType, kMiddleType, kLastType
        <5>2. /\ t /= kFullType /\ t /= kFirstType /\ t /= kMiddleType
          BY <4>5 DEF kFullType, kFirstType, kMiddleType, kLastType
        <5>3. /\ reports' = reports /\ in_fragmented_record' = in_fragmented_record
              /\ prospective_record_offset' = prospective_record_offset
              /\ log_pc' = "call" /\ last_record_offset' = prospective_record_offset
          BY <3>5, <5>1, <5>2, Zenon DEF OnRecord, ReturnRecord
        <5> QED BY <1>1, <4>1, <5>1, <5>3
      <4> QED BY <2>3, <4>2, <4>3, <4>4, <4>5
              DEF Types, kFullType, kFirstType, kMiddleType, kLastType
    <3> DEFINE q == IF b - e >= kHeaderSize THEN e ELSE b
    <3>8. /\ q < Len(dest) =>
                /\ IsHeader(dest, q)
                /\ Starting(TypeAt(dest, q)) <=> Ending(t)
          /\ b - e < kHeaderSize => Boundary(b) \/ b = Len(dest)
      BY <2>1, <3>1, BehindFragment, Zenon DEF e, t
    <3>9. ReaderTypes'
      <4>1. physical_record_offset' = e /\ buffer_' \in Nat \X Nat
        BY <1>1, <1>2, <2>2, <3>6
      <4> QED BY <2>2, <3>7, <4>1 DEF ReaderTypes
    <3>10. InBuffer'
      <4>1. /\ buffer_'[1] = e /\ buffer_'[2] = b /\ dest' = dest /\ eof' = eof
            /\ file_pos' = b /\ end_of_buffer_offset' = b
        BY <1>1, <1>2, <3>6
      <4>2. BufferSize' = b - e
        BY <4>1 DEF BufferSize
      <4>3. ASSUME b - e >= kHeaderSize
            PROVE  \E m \in 0 .. e :
                      /\ Boundary(m)
                      /\ b = m + kBlockSize \/ (b = Len(dest) /\ b < m + kBlockSize /\ eof)
        <5>1. PICK m \in 0 .. a :
                 /\ Boundary(m)
                 /\ b = m + kBlockSize \/ (b = Len(dest) /\ b < m + kBlockSize /\ eof)
          BY <2>1 DEF Sane, InBuffer
        <5>2. m \in 0 .. e
          BY <1>1, <2>2 DEF kHeaderSize
        <5> QED BY <5>1, <5>2
      <4> QED BY <1>1, <3>1, <3>8, <4>1, <4>2, <4>3 DEF InBuffer
    <3>11. AtFragment'
      <4>1. /\ buffer_'[1] = e /\ buffer_'[2] = b /\ dest' = dest
        BY <1>2, <3>6
      <4>2. Position' = q
        BY <4>1 DEF Position, BufferSize
      <4> HIDE DEF q
      <4> QED BY <3>7, <3>8, <4>1, <4>2 DEF AtFragment
    <3> QED BY <3>7, <3>9, <3>10, <3>11
  <2> QED BY <2>9, <2>10
<1> QED BY <1>3, <1>4

(* The next block is put into the buffer.                                  *)
LEMMA RefillKeeps ==
    ASSUME Sane, log_pc = "loop", Refill, log_failures' = log_failures, log_failures \in Nat
    PROVE  /\ reports' = reports /\ log_pc' = log_pc
           /\ ReaderTypes' /\ InBuffer' /\ AtFragment'
<1> DEFINE b    == buffer_[2]
           from == IF file_pos > Len(dest) THEN Len(dest) ELSE file_pos
           to   == IF Len(dest) - from < kBlockSize THEN Len(dest) ELSE from + kBlockSize
<1>1. /\ ReaderTypes /\ end_of_buffer_offset = b /\ file_pos = b
      /\ b \in Nat /\ b <= Len(dest) /\ buffer_[1] \in Nat
      /\ Len(dest) \in Nat /\ kBlockSize \in Nat /\ kBlockSize > 6
  BY LogAssumption DEF Sane, ReaderTypes, InBuffer, Chain, kHeaderSize
<1>2. BufferSize < kHeaderSize /\ ~(BufferSize >= kHeaderSize) /\ ~eof
  BY <1>1 DEF Refill, BufferSize, kHeaderSize
<1>3. /\ buffer_' = <<from, to>>
      /\ file_pos' = IF file_pos > Len(dest) THEN file_pos ELSE to
      /\ end_of_buffer_offset' = end_of_buffer_offset + (to - from)
      /\ eof' = AtEof(to - from)
      /\ UNCHANGED <<log_failures, log_pc, last_record_offset,
                     delivered, reports, in_fragmented_record, scratch,
                     prospective_record_offset, physical_record_offset, dest>>
  <2>1. log_failures' /= log_failures + 1
    BY SMT
  <2> QED BY <2>1, Zenon DEF Refill, writer
<1>4. from = b
  BY <1>1
<1>5. /\ to \in Nat /\ b <= to /\ to <= Len(dest)
      /\ to = Len(dest) \/ to = b + kBlockSize
      /\ to - b <= kBlockSize /\ (to - b < kBlockSize => to = Len(dest))
  BY <1>1, <1>4
<1> HIDE DEF from, to
<1>6. /\ buffer_'[1] = b /\ buffer_'[2] = to /\ file_pos' = to
      /\ end_of_buffer_offset' = to /\ (eof' <=> to - b < kBlockSize) /\ dest' = dest
      /\ buffer_' \in Nat \X Nat
  <2>1. buffer_' = <<b, to>> /\ dest' = dest
    BY <1>3, <1>4
  <2>2. ~(file_pos > Len(dest)) /\ end_of_buffer_offset' = b + (to - b)
    BY <1>1, <1>3, <1>4
  <2>3. file_pos' = to /\ end_of_buffer_offset' = to
    BY <1>1, <1>3, <1>5, <2>2
  <2>4. eof' <=> to - b < kBlockSize
    BY <1>3, <1>4, Zenon DEF AtEof
  <2> QED BY <1>1, <1>5, <2>1, <2>3, <2>4
<1>7. BufferSize' = to - b
  BY <1>6 DEF BufferSize
<1>8. Boundary(b) \/ b = Len(dest)
  BY <1>2 DEF Sane, InBuffer
<1>9. ReaderTypes'
  BY <1>1, <1>3, <1>6 DEF ReaderTypes
<1>10. InBuffer'
  <2>1. to - b < kHeaderSize => to = Len(dest)
    BY <1>1, <1>5 DEF kHeaderSize
  <2>2. ASSUME to - b >= kHeaderSize
        PROVE  /\ b \in 0 .. b /\ Boundary(b)
               /\ to = b + kBlockSize \/ (to = Len(dest) /\ to < b + kBlockSize /\ eof')
    <3>1. b \in 0 .. b /\ b /= Len(dest)
      BY <1>1, <1>5, <2>2 DEF kHeaderSize
    <3>2. CASE to - b < kBlockSize
      <4>1. eof'
        BY <1>6, <3>2
      <4>2. to = Len(dest) /\ to < b + kBlockSize
        BY <1>1, <1>5, <3>2
      <4> QED BY <1>8, <3>1, <4>1, <4>2
    <3>3. CASE ~(to - b < kBlockSize)
      <4>1. to = b + kBlockSize
        BY <1>1, <1>5, <3>3
      <4> QED BY <1>8, <3>1, <4>1
    <3> QED BY <3>2, <3>3
  <2> QED BY <1>5, <1>6, <1>7, <2>1, <2>2 DEF InBuffer
<1>11. AtFragment'
  <2>1. Position = b
    BY <1>2 DEF Position
  <2>2. ASSUME Position' < Len(dest)
        PROVE  Position' = b
    <3>1. Position' = IF to - b >= kHeaderSize THEN b ELSE to
      BY <1>6, <1>7 DEF Position
    <3> QED BY <1>1, <1>5, <2>2, <3>1 DEF kHeaderSize
  <2>3. b < Len(dest) =>
           /\ IsHeader(dest, b)
           /\ Starting(TypeAt(dest, b)) <=> ~in_fragmented_record
    BY <2>1 DEF Sane, AtFragment
  <2>4. log_pc' = "loop" /\ in_fragmented_record' = in_fragmented_record /\ dest' = dest
    BY <1>3
  <2> QED BY <2>2, <2>3, <2>4 DEF AtFragment
<1> QED BY <1>3, <1>9, <1>10, <1>11

(* A call of ReadRecord starts where the last one stopped.                 *)
LEMMA ReadRecordKeeps ==
    ASSUME Sane, log_pc = "call", initial_offset = 0, ReadRecord
    PROVE  /\ reports' = reports /\ log_pc' = "loop" /\ dest' = dest
           /\ ReaderTypes' /\ InBuffer' /\ AtFragment'
<1>1. /\ ReaderTypes /\ buffer_[1] \in Nat /\ buffer_[2] \in Nat
      /\ last_record_offset \in Nat /\ buffer_[1] <= buffer_[2]
      /\ end_of_buffer_offset = buffer_[2]
  BY DEF Sane, ReaderTypes, InBuffer
<1>2. ~(last_record_offset < initial_offset)
  BY <1>1
<1>3. /\ log_pc' = "loop" /\ in_fragmented_record' = FALSE
      /\ prospective_record_offset' = 0
      /\ UNCHANGED <<end_of_buffer_offset, file_pos, dest, buffer_, eof,
                     last_record_offset, reports>>
      /\ physical_record_offset' = end_of_buffer_offset' - (buffer_'[2] - buffer_'[1])
  BY <1>2, Zenon DEF ReadRecord, writer, TopOfLoop
<1>4. physical_record_offset' \in Nat
  BY <1>1, <1>3
<1>5. ReaderTypes'
  BY <1>1, <1>3, <1>4 DEF ReaderTypes
<1>6. InBuffer'
  BY <1>3 DEF Sane, InBuffer, BufferSize
<1>7. AtFragment'
  <2>1. Position' = Position
    BY <1>3 DEF Position, BufferSize
  <2> QED BY <1>3, <2>1 DEF Sane, AtFragment
<1> QED BY <1>3, <1>5, <1>6, <1>7

-----------------------------------------------------------------------------
IntactInvariant ==
    /\ log_failures \in Nat
    /\ log_pc \in {"write", "call", "loop", "done"}
    /\ log_pc = "write" => initial_offset = 0 /\ ~padded
    /\ Intact =>
          /\ reports = <<>> /\ Chain(dest)
          /\ log_pc = "write" => WriterTypes /\ Whole(dest, block_offset, Begun)
          /\ log_pc \in {"call", "loop"} => ReaderTypes /\ InBuffer /\ AtFragment

LEMMA IntactInit == LogInit => IntactInvariant
<1> SUFFICES ASSUME LogInit PROVE IntactInvariant
  OBVIOUS
<1>1. dest = <<>> /\ Len(dest) = 0 /\ dest \in Seq(Cells)
  BY DEF LogInit
<1>2. Chain(dest)
  BY <1>1 DEF Chain, IsHeader
<1>3. Whole(dest, block_offset, Begun)
  <2>1. ~Begun /\ block_offset = 0
    BY DEF LogInit, Begun
  <2>2. \E m \in 0 .. Len(dest) : Boundary(m) /\ Len(dest) = m + block_offset
    BY <1>1, <2>1, Boundaries
  <2> QED BY <1>1, <2>1, <2>2, LogAssumption DEF Whole, IsHeader
<1>4. WriterTypes
  BY DEF LogInit, WriterTypes, NoCall
<1> QED BY <1>2, <1>3, <1>4 DEF LogInit, IntactInvariant

(* AddRecord is called. *)
LEMMA BeginKeeps ==
    ASSUME WriterTypes, NEW n \in Lengths, BeginRecord(n)
    PROVE  WriterTypes' /\ ~Begun /\ ~Begun'
<1>1. /\ records \in Seq([len : Nat, start : Int, end : Int, ok : BOOLEAN])
      /\ n \in Nat /\ remaining = NoCall /\ remaining' = n
      /\ records' = Append(records, [len |-> n, start |-> NoCall, end |-> NoCall, ok |-> FALSE])
      /\ UNCHANGED reader
  BY LogAssumption DEF WriterTypes, BeginRecord
<1> DEFINE new == [len |-> n, start |-> NoCall, end |-> NoCall, ok |-> FALSE]
<1>2. new \in [len : Nat, start : Int, end : Int, ok : BOOLEAN] /\ new.start = NoCall
  BY <1>1 DEF NoCall
<1> HIDE DEF new
<1>3. /\ records' \in Seq([len : Nat, start : Int, end : Int, ok : BOOLEAN])
      /\ Len(records') = Len(records) + 1 /\ records'[Len(records')] = new
  BY <1>1, <1>2 DEF new
<1>4. Len(records') > 0
  BY <1>1, <1>3
<1> QED BY <1>1, <1>2, <1>3, <1>4 DEF WriterTypes, Begun, reader

LEMMA IntactStep == IntactInvariant /\ [LogNext]_logVars => IntactInvariant'
<1> SUFFICES ASSUME IntactInvariant, [LogNext]_logVars PROVE IntactInvariant'
  OBVIOUS
<1>1. /\ log_failures \in Nat /\ log_pc \in {"write", "call", "loop", "done"}
      /\ log_pc = "write" => initial_offset = 0 /\ ~padded
  BY DEF IntactInvariant
<1>2. ASSUME NEW n \in Lengths, BeginRecord(n)
      PROVE  IntactInvariant'
  <2>1. /\ log_pc = "write" /\ log_pc' = "write"
        /\ UNCHANGED <<dest, block_offset, media, log_failures, reader>>
    BY <1>2 DEF BeginRecord
  <2>2. UNCHANGED <<initial_offset, reports, damage, padded>>
    BY <2>1 DEF media, reader
  <2>3. ASSUME Intact
        PROVE  /\ WriterTypes' /\ Chain(dest') /\ reports' = <<>>
               /\ Whole(dest', block_offset', Begun')
    <3>1. WriterTypes /\ Chain(dest) /\ reports = <<>> /\ Whole(dest, block_offset, Begun)
      BY <2>1, <2>3 DEF IntactInvariant
    <3>2. WriterTypes' /\ ~Begun /\ ~Begun'
      BY <1>2, <3>1, BeginKeeps
    <3>3. Begun' = Begun
      BY <3>2 DEF Begun
    <3> QED BY <2>1, <2>2, <3>1, <3>2, <3>3
  <2> QED BY <1>1, <2>1, <2>2, <2>3 DEF IntactInvariant, Intact
<1>3. ASSUME EmitFragment
      PROVE  IntactInvariant'
  <2>1. log_pc = "write" /\ log_pc' = "write" /\ UNCHANGED <<media, reader>>
    BY <1>3 DEF EmitFragment
  <2>2. UNCHANGED <<initial_offset, reports, damage, padded>>
    BY <2>1 DEF media, reader
  <2>3. log_failures' = log_failures \/ log_failures' = log_failures + 1
    BY <1>3, Zenon DEF EmitFragment
  <2>4. ASSUME Intact, log_failures' = log_failures
        PROVE  /\ WriterTypes' /\ Chain(dest') /\ reports' = <<>>
               /\ Whole(dest', block_offset', Begun')
    <3>1. WriterTypes /\ Chain(dest) /\ reports = <<>> /\ Whole(dest, block_offset, Begun)
      BY <2>1, <2>4 DEF IntactInvariant
    <3> QED BY <1>1, <1>3, <2>2, <2>4, <3>1, EmitKeeps
  <2> QED BY <1>1, <2>1, <2>2, <2>3, <2>4 DEF IntactInvariant, Intact
<1>4. ASSUME CutShort
      PROVE  IntactInvariant'
  <2>1. /\ log_pc = "write" /\ log_pc' = "call"
        /\ UNCHANGED <<damage, log_failures, file_pos, buffer_, last_record_offset,
                       end_of_buffer_offset, in_fragmented_record,
                       prospective_record_offset, physical_record_offset, reports>>
    BY <1>4 DEF CutShort
  <2>2. ASSUME Intact'
        PROVE  /\ Chain(dest') /\ reports' = <<>>
               /\ ReaderTypes' /\ InBuffer' /\ AtFragment'
    <3>1. Intact
      BY <1>1, <2>1, <2>2 DEF Intact
    <3>2. WriterTypes /\ Chain(dest) /\ reports = <<>>
      BY <2>1, <3>1 DEF IntactInvariant
    <3>3. PICK k \in 0 .. Len(dest) : dest' = SubSeq(dest, 1, k) \o <<>>
      <4>1. ~padded'
        BY <2>2 DEF Intact
      <4> QED BY <1>4, <4>1 DEF CutShort
    <3>4. Chain(dest')
      <4>1. Chain(SubSeq(dest, 1, k))
        BY <3>2, ChainCut
      <4>2. SubSeq(dest, 1, k) \in Seq(Cells)
        BY <4>1 DEF Chain
      <4>3. dest' = SubSeq(dest, 1, k)
        BY <3>3, <4>2, ConcatEmptySeq, Zenon
      <4> QED BY <4>1, <4>3
    <3>5. /\ buffer_' = <<0, 0>> /\ file_pos' = 0 /\ end_of_buffer_offset' = 0
          /\ physical_record_offset' = 0 /\ prospective_record_offset' = 0
          /\ last_record_offset' = 0 /\ in_fragmented_record' = FALSE
      BY <2>1, <3>2 DEF WriterTypes
    <3>6. BufferSize' = 0 /\ Position' = 0
      BY <3>5 DEF BufferSize, Position, kHeaderSize
    <3>7. Len(dest') \in Nat
      BY <3>4 DEF Chain
    <3>8. ReaderTypes'
      BY <3>5 DEF ReaderTypes
    <3>9. InBuffer'
      BY <3>5, <3>6, <3>7, Boundaries DEF InBuffer, kHeaderSize
    <3>10. AtFragment'
      BY <2>1, <3>4, <3>6, <3>7 DEF AtFragment, Chain
    <3> QED BY <2>1, <3>2, <3>4, <3>8, <3>9, <3>10
  <2>3. log_failures' \in Nat /\ log_pc' = "call"
    BY <1>1, <2>1
  <2> QED BY <2>2, <2>3 DEF IntactInvariant
<1>5. ASSUME Decay
      PROVE  IntactInvariant'
  <2>1. log_pc = "call" /\ UNCHANGED <<log_failures, log_pc>> /\ damage' /= {}
    BY <1>5 DEF Decay
  <2>2. ~Intact' /\ log_failures' \in Nat /\ log_pc' = "call"
    BY <1>1, <2>1 DEF Intact
  <2> QED BY <2>2 DEF IntactInvariant
<1>6. ASSUME log_pc \in {"call", "loop"}, log_pc' \in {"call", "loop", "done"},
             log_failures' \in Nat, UNCHANGED <<dest, media, initial_offset>>,
             log_failures' = 0 => log_failures = 0,
             Sane /\ Intact /\ log_failures' = log_failures =>
                /\ reports' = <<>>
                /\ log_pc' \in {"call", "loop"} => (ReaderTypes /\ InBuffer /\ AtFragment)'
      PROVE  IntactInvariant'
  <2>1. ASSUME Intact'
        PROVE  Intact /\ Sane /\ log_failures' = log_failures
    <3>1. Intact /\ log_failures' = log_failures
      BY <1>6, <2>1 DEF Intact, media
    <3> QED BY <1>6, <3>1 DEF IntactInvariant, Sane
  <2>2. Sane => Chain(dest')
    BY <1>6 DEF Sane
  <2> QED BY <1>6, <2>1, <2>2 DEF IntactInvariant
<1>7. ASSUME ReadRecord
      PROVE  IntactInvariant'
  <2>1. /\ log_pc = "call" /\ log_pc' \in {"loop", "done"}
        /\ UNCHANGED <<writer, media, initial_offset>>
        /\ log_failures' = log_failures \/ log_failures' = log_failures + 1
    BY <1>7, Zenon DEF ReadRecord
  <2>2. log_failures' \in Nat /\ (log_failures' = 0 => log_failures = 0)
    BY <1>1, <2>1
  <2>3. Sane /\ Intact =>
           /\ reports' = <<>> /\ ReaderTypes' /\ InBuffer' /\ AtFragment'
    BY <1>7, <2>1, ReadRecordKeeps DEF Intact, Sane
  <2> QED BY <1>6, <2>1, <2>2, <2>3 DEF writer
<1>8. ASSUME Refill
      PROVE  IntactInvariant'
  <2>1. /\ log_pc = "loop" /\ log_pc' \in {"loop", "done"}
        /\ UNCHANGED <<writer, media, initial_offset>>
        /\ log_failures' = log_failures \/ log_failures' = log_failures + 1
    BY <1>8, Zenon DEF Refill, OnEof
  <2>2. log_failures' \in Nat /\ (log_failures' = 0 => log_failures = 0)
    BY <1>1, <2>1
  <2>3. Sane /\ Intact /\ log_failures' = log_failures =>
           /\ reports' = <<>> /\ ReaderTypes' /\ InBuffer' /\ AtFragment'
    BY <1>1, <1>8, <2>1, RefillKeeps DEF Sane
  <2> QED BY <1>6, <2>1, <2>2, <2>3 DEF writer
<1>9. ASSUME ReadPhysicalRecord
      PROVE  IntactInvariant'
  <2>1. /\ log_pc = "loop"
        /\ UNCHANGED <<writer, media, log_failures, initial_offset>>
    BY <1>9 DEF ReadPhysicalRecord
  <2>2. log_pc' \in {"call", "loop", "done"}
    BY <1>9, <2>1, Zenon DEF ReadPhysicalRecord, OnEof, TooLong, OnBadRecord, OnRecord, Continue,
                      ReturnRecord
  <2>3. Sane /\ Intact =>
           /\ reports' = <<>>
           /\ log_pc' \in {"call", "loop"} => (ReaderTypes /\ InBuffer /\ AtFragment)'
    BY <1>9, <2>1, ReadPhysicalKeeps DEF Intact
  <2> QED BY <1>1, <1>6, <2>1, <2>2, <2>3 DEF writer
<1>10. ASSUME UNCHANGED logVars
       PROVE  IntactInvariant'
  <2>1. UNCHANGED <<dest, block_offset, remaining, records, padded, damage, log_failures, log_pc,
                    file_pos, buffer_, eof, last_record_offset, end_of_buffer_offset,
                    initial_offset, in_fragmented_record, prospective_record_offset,
                    physical_record_offset, reports>>
    BY <1>10 DEF logVars, writer, media, reader
  <2> QED BY <2>1 DEF IntactInvariant, Intact, WriterTypes, Begun, ReaderTypes, InBuffer,
                      AtFragment, Position, BufferSize
<1> QED BY <1>2, <1>3, <1>4, <1>5, <1>7, <1>8, <1>9, <1>10 DEF LogNext, LogRead

(* A crash is not corruption: whatever is written and wherever the machine *)
(* stops, reading the log from its start reports nothing, for every size   *)
(* of the blocks and of the records.                                       *)
THEOREM CrashReportsNothing == LogSpec => []CrashIsNotCorruption
<1>1. IntactInvariant => CrashIsNotCorruption
  BY DEF IntactInvariant, Intact, CrashIsNotCorruption
<1> QED BY <1>1, IntactInit, IntactStep, PTL DEF LogSpec

-----------------------------------------------------------------------------
(***************************************************************************)
(* DamageIsContained.                                                      *)
(*                                                                         *)
(* d is the file as it was written and F the fragments in it: where each   *)
(* starts, of which record and from which of its cells on.  After a        *)
(* fragment that does not end its record comes the next one of the record. *)
(***************************************************************************)
Fragments == [at : Nat, rec : Nat, from : Nat]
LengthAt(d, a) == Len(PayloadAt(d, a))

Follows(d, y, x) ==
    /\ y.rec = x.rec /\ y.from = x.from + LengthAt(d, x.at)
    /\ \A m \in 0 .. x.at : InBlock(m, x.at) => y.at = NextStart(m, EndOf(d, x.at))

FragmentIn(d, R, x) ==
    /\ IsHeader(d, x.at) /\ x.rec \in DOMAIN R
    /\ PayloadAt(d, x.at) = PayloadCells(x.rec, x.from, LengthAt(d, x.at))
    /\ 0 <= R[x.rec].start /\ R[x.rec].start <= x.at /\ EndOf(d, x.at) <= R[x.rec].end
    /\ Starting(TypeAt(d, x.at)) <=> x.at = R[x.rec].start
    /\ x.at = R[x.rec].start => x.from = 0
    /\ Ending(TypeAt(d, x.at)) => x.from + LengthAt(d, x.at) = R[x.rec].len

Recorded(d, R, F) ==
    /\ F \subseteq Fragments /\ \A x \in F : FragmentIn(d, R, x)
    /\ \A r \in DOMAIN R : R[r].start /= NoCall => \E x \in F : x.rec = r /\ x.at = R[r].start
    /\ \A r \in DOMAIN R : R[r].ok => R[r].start /= NoCall

(* The fragment the record being added goes on behind.                     *)
Unfinished(d, x) ==
    /\ Begun /\ EndOf(d, x.at) = Len(d) /\ x.rec = Len(records)
    /\ x.from + LengthAt(d, x.at) = records[x.rec].len - remaining

Writing(F) ==
    /\ Recorded(dest, records, F)
    /\ \A x \in F : Ending(TypeAt(dest, x.at)) \/ Unfinished(dest, x)
                        \/ \E y \in F : Follows(dest, y, x)
    /\ remaining /= NoCall =>
          /\ ~records[Len(records)].ok /\ remaining <= records[Len(records)].len
          /\ ~Begun => remaining = records[Len(records)].len

Written(d, F) ==
    /\ Chain(d) /\ Recorded(d, records, F)
    /\ \A x \in F : Ending(TypeAt(d, x.at)) \/ ~records[x.rec].ok
                        \/ \E y \in F : Follows(d, y, x)

(* What the crash and the damage have left of the file.                    *)
Left(d) ==
    /\ dest \in Seq(Cells) /\ kept \in 0 .. Len(d) /\ kept <= Len(dest)
    /\ \A i \in 1 .. kept : i \notin damage => dest[i] = d[i]
    /\ damage \subseteq 1 .. kept /\ \A i \in damage : dest[i] = Damaged

(* The reader before its first block, in a block, and past the file.       *)
Where == IF BufferSize >= kHeaderSize THEN buffer_[1] ELSE file_pos

Unread ==
    /\ buffer_ = <<0, 0>> /\ ~eof /\ Boundary(file_pos) /\ end_of_buffer_offset = file_pos
    /\ log_pc = "call" => file_pos = 0 /\ last_record_offset = 0
    /\ log_pc = "loop" => /\ initial_offset + 2 <= file_pos + kBlockSize
                          /\ physical_record_offset = file_pos /\ ~in_fragmented_record

InFile ==
    /\ file_pos = buffer_[2] /\ end_of_buffer_offset = buffer_[2]
    /\ buffer_[1] <= buffer_[2] /\ buffer_[2] <= Len(dest)
    /\ IF eof THEN buffer_[2] = Len(dest)
              ELSE Boundary(buffer_[2]) /\ initial_offset + 2 <= buffer_[2]
    /\ BufferSize >= kHeaderSize =>
          \E m \in 0 .. buffer_[1] :
             /\ Boundary(m)
             /\ buffer_[2] = m + kBlockSize \/ (eof /\ buffer_[2] < m + kBlockSize)
    /\ log_pc = "call" => last_record_offset >= initial_offset
    /\ log_pc = "loop" =>
          /\ in_fragmented_record => prospective_record_offset >= initial_offset
          /\ \/ physical_record_offset >= initial_offset
             \/ BufferSize >= kHeaderSize /\ physical_record_offset = buffer_[1]
             \/ BufferSize < kHeaderSize /\ eof

PastFile == log_pc = "loop" /\ eof /\ BufferSize = 0 /\ file_pos > Len(dest)

ScanTypes ==
    /\ buffer_ \in Nat \X Nat /\ file_pos \in Nat /\ eof \in BOOLEAN
    /\ in_fragmented_record \in BOOLEAN /\ prospective_record_offset \in Nat
    /\ physical_record_offset \in Int /\ last_record_offset \in Nat
    /\ initial_offset \in Nat /\ \E S : delivered \in Seq(S)

Scanning(d) ==
    /\ ScanTypes /\ (Unread \/ InFile \/ PastFile)
    /\ Where < kept => IsHeader(d, Where)

(* The reader is inside the record r.                                      *)
Inside(r, F) ==
    /\ log_pc = "loop" /\ in_fragmented_record
    /\ \E x \in F : /\ x.rec = r /\ x.at = Where /\ x.at /= records[r].start
                    /\ scratch = PayloadCells(r, 0, x.from)

Promised(r) == Wrote(r) /\ Undamaged(r) /\ records[r].start >= initial_offset

Progress(F) ==
    \A r \in DOMAIN records : Promised(r) =>
       \/ Delivers(delivered, r)
       \/ log_pc /= "done" /\ Where <= records[r].start
       \/ Inside(r, F)

RecordTypes == records \in Seq([len : Nat, start : Int, end : Int, ok : BOOLEAN])

Quiet(d, F) ==
    /\ RecordTypes /\ Written(d, F) /\ Left(d) /\ Progress(F)
    /\ log_pc \in {"call", "loop"} => Scanning(d)

(* A fragment stays one in a file and a list of records that agree on it.  *)
LEMMA FragmentKept ==
    ASSUME NEW d, NEW R, NEW x \in Fragments, FragmentIn(d, R, x),
           NEW g, g[x.at + 1] = d[x.at + 1], x.at < Len(g),
           NEW Q, x.rec \in DOMAIN Q, Q[x.rec].start = R[x.rec].start,
           Q[x.rec].len = R[x.rec].len, EndOf(d, x.at) <= Q[x.rec].end
    PROVE  /\ FragmentIn(g, Q, x)
           /\ TypeAt(g, x.at) = TypeAt(d, x.at) /\ EndOf(g, x.at) = EndOf(d, x.at)
           /\ LengthAt(g, x.at) = LengthAt(d, x.at)
<1>1. x.at \in Nat /\ x.at < Len(d)
  BY DEF Fragments, FragmentIn, IsHeader
<1>2. /\ IsHeader(d, x.at) <=> IsHeader(g, x.at)
      /\ TypeAt(d, x.at) = TypeAt(g, x.at) /\ PayloadAt(d, x.at) = PayloadAt(g, x.at)
      /\ EndOf(d, x.at) = EndOf(g, x.at)
  BY <1>1, SameCell
<1>3. LengthAt(g, x.at) = LengthAt(d, x.at)
  BY <1>2 DEF LengthAt
<1>4. FragmentIn(g, Q, x)
  BY <1>2, <1>3 DEF FragmentIn
<1> QED BY <1>2, <1>3, <1>4

(* A round of AddRecord that succeeds adds a fragment, behind the one that *)
(* the record was left at.                                                 *)
LEMMA EmitRecords ==
    ASSUME WriterTypes, WriterTypes', Chain(dest), Chain(dest'), NEW F, Writing(F),
           NEW base \in Nat, NEW c \in Seq(Data), EmitsAt(base, c),
           Whole(dest, block_offset, Begun)
    PROVE  \E G : Writing(G)'
<1> DEFINE r     == Len(records)
           begin == records[r].start = NoCall
           n     == Len(c)
           z     == [at |-> base, rec |-> r, from |-> records[r].len - remaining]
           G     == F \cup {z}
           Rec   == [len : Nat, start : Int, end : Int, ok : BOOLEAN]
<1>1. /\ r \in 1 .. Len(records) /\ r \in Nat /\ n \in Nat /\ remaining \in Nat /\ n <= remaining
      /\ records \in Seq(Rec) /\ records[r] \in Rec
      /\ dest \in Seq(Cells) /\ dest' \in Seq(Cells) /\ Len(dest) \in Nat /\ Len(dest') \in Nat
      /\ base >= Len(dest) /\ base < Len(dest')
      /\ remaining /= NoCall /\ DOMAIN records = 1 .. r
  <2>1. r \in 1 .. Len(records) /\ n \in Nat /\ remaining \in Nat /\ n <= remaining
        /\ base >= Len(dest) /\ base < Len(dest')
    BY DEF EmitsAt
  <2>2. records \in Seq(Rec)
    BY DEF WriterTypes
  <2>3. records[r] \in Rec
    BY <2>1, <2>2, ElementOfSeq, Zenon
  <2>4. /\ dest \in Seq(Cells) /\ dest' \in Seq(Cells) /\ Len(dest) \in Nat /\ Len(dest') \in Nat
    BY DEF Chain
  <2> QED BY <2>1, <2>2, <2>3, <2>4 DEF NoCall
<1>2. /\ ~records[r].ok /\ remaining <= records[r].len /\ records[r].len \in Nat
      /\ records[r].start \in Int
      /\ (begin => remaining = records[r].len) /\ (Begun <=> ~begin)
  <2>1. Begun <=> ~begin
    BY <1>1 DEF Begun
  <2> QED BY <1>1, <2>1 DEF Writing
<1>3. z \in Fragments /\ z.at = base /\ z.rec = r /\ z.from = records[r].len - remaining
  <2>1. records[r].len - remaining \in Nat
    BY <1>1, <1>2
  <2> QED BY <1>1, <2>1 DEF Fragments
<1>4. /\ Len(records') = r /\ DOMAIN records' = 1 .. r
      /\ \A i \in 1 .. r : i /= r => records'[i] = records[i]
      /\ records'[r].len = records[r].len /\ records'[r].end = Len(dest')
      /\ records'[r].start = (IF begin THEN base ELSE records[r].start)
      /\ records'[r].ok = (remaining = n)
      /\ remaining' = IF remaining = n THEN NoCall ELSE remaining - n
  <2>1. /\ Len(records') = r
        /\ \A i \in 1 .. r : i /= r => records'[i] = records[i]
        /\ records'[r] = [len |-> records[r].len,
                          start |-> IF begin THEN base ELSE records[r].start,
                          end |-> Len(dest'), ok |-> remaining = n]
        /\ remaining' = IF remaining = n THEN NoCall ELSE remaining - n
    BY Zenon DEF EmitsAt
  <2>2. DOMAIN records' = 1 .. Len(records')
    BY DEF WriterTypes
  <2> DEFINE q == [len |-> records[r].len, start |-> IF begin THEN base ELSE records[r].start,
                   end |-> Len(dest'), ok |-> remaining = n]
  <2>3. /\ q.len = records[r].len /\ q.end = Len(dest')
        /\ q.start = (IF begin THEN base ELSE records[r].start)
        /\ q.ok = (remaining = n)
    OBVIOUS
  <2> HIDE DEF q, r, begin, n
  <2> QED BY <2>1, <2>2, <2>3, Zenon DEF q
<1> HIDE DEF r, begin, n, z
<1>5. ASSUME NEW x \in F
      PROVE  /\ FragmentIn(dest', records', x)
             /\ TypeAt(dest', x.at) = TypeAt(dest, x.at)
             /\ EndOf(dest', x.at) = EndOf(dest, x.at)
             /\ LengthAt(dest', x.at) = LengthAt(dest, x.at)
             /\ x \in Fragments /\ x.rec \in 1 .. r
             /\ records'[x.rec].start = records[x.rec].start
             /\ records'[x.rec].len = records[x.rec].len
             /\ x.at \in Nat /\ x.at < Len(dest) /\ IsHeader(dest, x.at)
  <2>1. x \in Fragments /\ FragmentIn(dest, records, x)
    BY DEF Writing, Recorded
  <2>2. /\ x.rec \in 1 .. r /\ records[x.rec].start >= 0 /\ x.at \in Nat /\ x.at < Len(dest)
        /\ EndOf(dest, x.at) <= records[x.rec].end /\ IsHeader(dest, x.at)
    BY <1>1, <2>1 DEF FragmentIn, Fragments, IsHeader
  <2>3. dest'[x.at + 1] = dest[x.at + 1] /\ x.at < Len(dest')
    <3>1. PICK A \in Nat, L \in Nat, K \in Nat : A = x.at /\ L = Len(dest) /\ K = Len(dest')
      BY <1>1, <2>2, Zenon
    <3>2. Len(dest) <= Len(dest')
      BY <1>1
    <3>3. A < L /\ L <= K
      BY <2>2, <3>1, <3>2, Zenon
    <3>4. A + 1 \in 1 .. L /\ A < K
      BY <3>3
    <3>5. \A i \in 1 .. Len(dest) : dest'[i] = dest[i]
      BY Zenon DEF EmitsAt
    <3> QED BY <3>1, <3>4, <3>5, Zenon
  <2>4. EndOf(dest, x.at) <= Len(dest) /\ EndOf(dest, x.at) \in Nat
    <3>1. EndOf(dest, x.at) \in Nat
      BY <1>1, <2>2, HeaderCells
    <3>2. x.at \in 0 .. Len(dest)
      BY <1>1, <2>2
    <3> QED BY <2>2, <3>1, <3>2 DEF Whole
  <2>5. /\ records'[x.rec].start = records[x.rec].start /\ records'[x.rec].len = records[x.rec].len
        /\ EndOf(dest, x.at) <= records'[x.rec].end
    <3>1. CASE x.rec = r
      <4>1. ~begin
        BY <2>2, <3>1 DEF begin, r, NoCall
      <4> QED BY <1>1, <1>4, <2>4, <3>1, <4>1, SMTT(30)
    <3>2. CASE x.rec /= r
      BY <1>4, <2>2, <3>2
    <3> QED BY <3>1, <3>2
  <2>6. x.rec \in DOMAIN records'
    BY <1>4, <2>2
  <2> QED BY <2>1, <2>2, <2>3, <2>5, <2>6, FragmentKept
<1>6. /\ IsHeader(dest', base) /\ PayloadAt(dest', base) = c
      /\ EndOf(dest', base) = Len(dest') /\ LengthAt(dest', base) = n
      /\ Starting(TypeAt(dest', base)) <=> begin
      /\ Ending(TypeAt(dest', base)) <=> remaining = n
      /\ c = PayloadCells(r, records[r].len - remaining, n)
      /\ \A a \in 0 .. Len(dest) : a < Len(dest) /\ IsHeader(dest, a) /\ EndOf(dest, a) = Len(dest) =>
            \A m \in 0 .. a : InBlock(m, a) => NextStart(m, EndOf(dest, a)) = base
  BY Zenon DEF EmitsAt, LengthAt, r, begin, n
<1>7. ~begin => \E x \in F : x.rec = r /\ x.at = records[r].start
  BY <1>1 DEF Writing, Recorded, begin, r
<1>8. ~begin => records[r].start \in Nat /\ records[r].start < base
  <2> SUFFICES ASSUME ~begin PROVE records[r].start \in Nat /\ records[r].start < base
    OBVIOUS
  <2>1. PICK x \in F : x.rec = r /\ x.at = records[r].start
    BY <1>7
  <2> QED BY <1>1, <1>5, <2>1
<1>9. FragmentIn(dest', records', z)
  <2>1. 0 <= records'[r].start /\ records'[r].start <= base /\ (base = records'[r].start <=> begin)
    BY <1>4, <1>8
  <2>2. begin => z.from = 0
    BY <1>2, <1>3
  <2>3. remaining = n => z.from + n = records'[r].len
    BY <1>1, <1>2, <1>3, <1>4
  <2>4. EndOf(dest', base) <= records'[r].end
    BY <1>1, <1>4, <1>6
  <2>5. r \in DOMAIN records'
    BY <1>1, <1>4 DEF r
  <2> QED BY <1>3, <1>6, <2>1, <2>2, <2>3, <2>4, <2>5, Zenon DEF FragmentIn
<1>10. Recorded(dest', records', G)
  <2>1. G \subseteq Fragments /\ \A x \in G : FragmentIn(dest', records', x)
    BY <1>3, <1>5, <1>9
  <2>2. ASSUME NEW i \in DOMAIN records', records'[i].start /= NoCall
        PROVE  \E x \in G : x.rec = i /\ x.at = records'[i].start
    <3>1. CASE i = r /\ begin
      BY <1>3, <1>4, <3>1
    <3>2. CASE i = r /\ ~begin
      BY <1>4, <1>7, <3>2
    <3>3. CASE i /= r
      <4>1. i \in DOMAIN records /\ records'[i] = records[i]
        BY <1>1, <1>4, <3>3
      <4> QED BY <2>2, <4>1 DEF Writing, Recorded
    <3> QED BY <3>1, <3>2, <3>3
  <2>3. ASSUME NEW i \in DOMAIN records', records'[i].ok
        PROVE  records'[i].start /= NoCall
    <3>1. CASE i = r
      BY <1>4, <1>8, <3>1 DEF NoCall
    <3>2. CASE i /= r
      <4>1. i \in DOMAIN records /\ records'[i] = records[i]
        BY <1>1, <1>4, <3>2
      <4> QED BY <2>3, <4>1 DEF Writing, Recorded
    <3> QED BY <3>1, <3>2
  <2> QED BY <2>1, <2>2, <2>3 DEF Recorded
<1>11. Begun' <=> remaining /= n
  <2>1. records'[Len(records')].start /= NoCall
    BY <1>4, <1>8 DEF NoCall
  <2>2. remaining' /= NoCall <=> remaining /= n
    BY <1>1, <1>4 DEF NoCall
  <2> QED BY <2>1, <2>2 DEF Begun
<1>12. ASSUME NEW x \in G
       PROVE  Ending(TypeAt(dest', x.at)) \/ Unfinished(dest, x)'
                 \/ \E y \in G : Follows(dest', y, x)
  <2>1. CASE x = z
    <3>1. CASE remaining = n
      BY <1>3, <1>6, <2>1, <3>1
    <3>2. CASE remaining /= n
      <4>1. z.from + n = records'[r].len - remaining'
        BY <1>1, <1>2, <1>3, <1>4, <3>2
      <4>2. Len(records') = r /\ EndOf(dest', z.at) = Len(dest') /\ LengthAt(dest', z.at) = n
        BY <1>3, <1>4, <1>6
      <4> QED BY <1>3, <1>11, <2>1, <3>2, <4>1, <4>2 DEF Unfinished
    <3> QED BY <3>1, <3>2
  <2>2. CASE x \in F
    <3>1. CASE Ending(TypeAt(dest, x.at))
      BY <1>5, <2>2, <3>1
    <3>2. CASE Unfinished(dest, x)
      <4>1. Follows(dest', z, x)
        <5>1. x.rec = r /\ x.from + LengthAt(dest, x.at) = z.from /\ EndOf(dest, x.at) = Len(dest)
          BY <1>3, <3>2 DEF Unfinished, r
        <5>2. x.at \in 0 .. Len(dest) /\ x.at < Len(dest) /\ IsHeader(dest, x.at)
          BY <1>1, <1>5, <2>2
        <5>3. \A m \in 0 .. x.at : InBlock(m, x.at) => NextStart(m, EndOf(dest, x.at)) = base
          BY <1>6, <5>1, <5>2
        <5> QED BY <1>3, <1>5, <2>2, <5>1, <5>3 DEF Follows
      <4> QED BY <4>1
    <3>3. CASE \E y \in F : Follows(dest, y, x)
      <4>1. PICK y \in F : Follows(dest, y, x)
        BY <3>3
      <4>2. Follows(dest', y, x)
        BY <1>5, <2>2, <4>1 DEF Follows
      <4> QED BY <4>2
    <3> QED BY <2>2, <3>1, <3>2, <3>3 DEF Writing
  <2> QED BY <2>1, <2>2
<1>13. remaining' /= NoCall =>
          /\ ~records'[Len(records')].ok /\ remaining' <= records'[Len(records')].len
          /\ ~Begun' => remaining' = records'[Len(records')].len
  BY <1>1, <1>2, <1>4, <1>11
<1> HIDE DEF G
<1>14. PICK H : H = G
  OBVIOUS
<1>15. Writing(H)'
  BY <1>10, <1>12, <1>13, <1>14 DEF Writing
<1> QED BY <1>15

LEMMA BeginRecords ==
    ASSUME WriterTypes, NEW F, Writing(F), NEW n \in Lengths, BeginRecord(n)
    PROVE  Writing(F)'
<1> DEFINE Rec == [len : Nat, start : Int, end : Int, ok : BOOLEAN]
           new == [len |-> n, start |-> NoCall, end |-> NoCall, ok |-> FALSE]
<1>1. /\ records \in Seq(Rec) /\ n \in Nat /\ remaining = NoCall /\ remaining' = n
      /\ records' = Append(records, new) /\ dest' = dest
  BY LogAssumption DEF WriterTypes, BeginRecord
<1>2. new \in Rec /\ new.start = NoCall /\ new.ok = FALSE /\ new.len = n
  BY <1>1 DEF NoCall
<1> HIDE DEF new
<1>3. /\ DOMAIN records = 1 .. Len(records) /\ DOMAIN records' = 1 .. Len(records) + 1
      /\ Len(records') = Len(records) + 1 /\ records'[Len(records) + 1] = new
      /\ \A i \in 1 .. Len(records) : records'[i] = records[i]
      /\ Len(records) \in Nat
  BY <1>1, <1>2
<1>4. ~Begun /\ ~Begun'
  BY <1>1, <1>2, <1>3 DEF Begun
<1>5. ASSUME NEW x \in F
      PROVE  x.rec \in DOMAIN records /\ records'[x.rec] = records[x.rec]
                /\ FragmentIn(dest, records, x)
                /\ (Ending(TypeAt(dest, x.at)) \/ \E y \in F : Follows(dest, y, x))
  <2>1. FragmentIn(dest, records, x) /\ ~Unfinished(dest, x)
    BY <1>4 DEF Writing, Recorded, Unfinished
  <2>2. x.rec \in DOMAIN records
    BY <2>1 DEF FragmentIn
  <2> QED BY <1>3, <2>1, <2>2 DEF Writing
<1>6. Recorded(dest', records', F)
  <2>1. \A x \in F : FragmentIn(dest', records', x)
    <3> SUFFICES ASSUME NEW x \in F PROVE FragmentIn(dest', records', x)
      OBVIOUS
    <3>1. x.rec \in DOMAIN records' /\ records'[x.rec] = records[x.rec]
      BY <1>3, <1>5
    <3> QED BY <1>1, <1>5, <3>1 DEF FragmentIn
  <2>2. ASSUME NEW i \in DOMAIN records'
        PROVE  /\ records'[i].start /= NoCall => \E x \in F : x.rec = i /\ x.at = records'[i].start
               /\ records'[i].ok => records'[i].start /= NoCall
    <3>1. CASE i = Len(records) + 1
      BY <1>2, <1>3, <3>1
    <3>2. CASE i /= Len(records) + 1
      <4>1. i \in DOMAIN records /\ records'[i] = records[i]
        BY <1>3, <3>2
      <4> QED BY <4>1 DEF Writing, Recorded
    <3> QED BY <3>1, <3>2
  <2> QED BY <2>1, <2>2 DEF Writing, Recorded
<1>7. remaining' <= records'[Len(records')].len /\ ~records'[Len(records')].ok
      /\ remaining' = records'[Len(records')].len
  BY <1>1, <1>2, <1>3
<1> QED BY <1>1, <1>5, <1>6, <1>7 DEF Writing

(* Fragments do not overlap.                                               *)
LEMMA Apart ==
    ASSUME NEW d, Chain(d), NEW a \in Nat, NEW s \in Nat, IsHeader(d, a), IsHeader(d, s), a < s
    PROVE  EndOf(d, a) <= s
<1>1. d \in Seq(Cells) /\ Len(d) \in Nat /\ a < Len(d) /\ s < Len(d)
  BY DEF Chain, IsHeader
<1>2. /\ TypeAt(d, a) \in Types /\ PayloadAt(d, a) \in Seq(Data) /\ Len(PayloadAt(d, a)) \in Nat
      /\ EndOf(d, a) \in Nat
  BY <1>1, HeaderCells
<1>3. SUFFICES ASSUME s < EndOf(d, a) PROVE FALSE
  BY <1>2
<1> DEFINE n == Len(PayloadAt(d, a))
           p == PhysicalRecord(TypeAt(d, a), PayloadAt(d, a))
<1>4. Len(p) = kHeaderSize + n /\ \A j \in 2 .. Len(p) : p[j][1] /= "crc"
  BY <1>2, Fragment
<1>5. \A j \in 1 .. kHeaderSize + n : a + j <= Len(d) => d[a + j] = p[j]
  BY <1>1 DEF Chain, Laid
<1>6. EndOf(d, a) = a + kHeaderSize + n
  BY DEF EndOf
<1> HIDE DEF n, p
<1>7. PICK j \in 2 .. kHeaderSize + n : a + j = s + 1
  <2>1. n \in Nat /\ s < a + 3 + n
    BY <1>2, <1>3, <1>6 DEF n, kHeaderSize
  <2>2. s + 1 - a \in 2 .. kHeaderSize + n /\ a + (s + 1 - a) = s + 1
    BY <2>1 DEF kHeaderSize
  <2> QED BY <2>2
<1>8. d[s + 1] = p[j] /\ p[j][1] /= "crc"
  <2>1. n \in Nat
    BY <1>2 DEF n
  <2>2. j \in 1 .. kHeaderSize + n /\ a + j <= Len(d) /\ j \in 2 .. Len(p)
    BY <1>1, <1>4, <1>7, <2>1
  <2> QED BY <1>4, <1>5, <1>7, <2>2
<1> QED BY <1>8 DEF IsHeader

(* Two runs of cells of a record, one behind the other.                    *)
LEMMA PayloadsJoin ==
    ASSUME NEW r \in Nat, NEW f \in Nat, NEW n \in Nat
    PROVE  PayloadCells(r, 0, f) \o PayloadCells(r, f, n) = PayloadCells(r, 0, f + n)
<1> DEFINE s == PayloadCells(r, 0, f)
           t == PayloadCells(r, f, n)
           u == PayloadCells(r, 0, f + n)
<1>1. /\ s \in Seq(Data) /\ Len(s) = f /\ t \in Seq(Data) /\ Len(t) = n
      /\ u \in Seq(Data) /\ Len(u) = f + n
  <2>1. 0 \in Int /\ f \in Int /\ f + n \in Nat
    OBVIOUS
  <2> QED BY <2>1, PayloadIsData, Zenon
<1>2. /\ \A i \in 1 .. f : s[i] = <<"data", r, 0 + i>>
      /\ \A i \in 1 .. n : t[i] = <<"data", r, f + i>>
      /\ \A i \in 1 .. f + n : u[i] = <<"data", r, 0 + i>>
  BY DEF PayloadCells
<1> HIDE DEF s, t, u
<1>3. /\ s \o t \in Seq(Data) /\ Len(s \o t) = Len(s) + Len(t)
      /\ \A i \in 1 .. Len(s) + Len(t) : (s \o t)[i] = IF i <= Len(s) THEN s[i] ELSE t[i - Len(s)]
  BY <1>1, ConcatProperties, Zenon
<1>4. ASSUME NEW i \in 1 .. f + n
      PROVE  (s \o t)[i] = u[i]
  <2>1. CASE i <= f
    <3>1. i \in 1 .. f /\ i \in 1 .. Len(s) + Len(t) /\ i <= Len(s)
      BY <1>1, <2>1
    <3> QED BY <1>2, <1>3, <3>1
  <2>2. CASE ~(i <= f)
    <3>1. i - f \in 1 .. n /\ i \in 1 .. Len(s) + Len(t) /\ ~(i <= Len(s)) /\ f + (i - f) = 0 + i
      BY <1>1, <2>2
    <3>2. (s \o t)[i] = t[i - f]
      BY <1>1, <1>3, <3>1
    <3> QED BY <1>2, <3>1, <3>2
  <2> QED BY <2>1, <2>2
<1>5. s \o t = u
  BY <1>1, <1>3, <1>4, SeqEqual
<1> QED BY <1>5 DEF s, t, u

(* A fragment that is as it was written is read as it was written.         *)
LEMMA IntactRead ==
    ASSUME NEW d, Chain(d), dest \in Seq(Cells), buffer_[1] \in Nat, IsHeader(d, buffer_[1]),
           EndOf(d, buffer_[1]) <= Len(d), EndOf(d, buffer_[1]) <= Len(dest),
           \A i \in buffer_[1] + 1 .. EndOf(d, buffer_[1]) : dest[i] = d[i]
    PROVE  LET a == buffer_[1]
               t == TypeAt(d, a)
               n == LengthAt(d, a)
           IN /\ LengthField = {n} /\ TypeField = {t} /\ ChecksumMatches(t, n)
              /\ FragmentCells(n) = PayloadAt(d, a)
<1> DEFINE a == buffer_[1]
           t == TypeAt(d, a)
           c == PayloadAt(d, a)
           p == PhysicalRecord(t, c)
<1>1. d \in Seq(Cells) /\ a \in Nat /\ Len(d) \in Nat /\ a \in 0 .. Len(d) /\ Len(dest) \in Nat
  BY DEF Chain, IsHeader
<1>2. /\ t \in Types /\ c \in Seq(Data) /\ Len(c) \in Nat
      /\ EndOf(d, a) = a + kHeaderSize + Len(c)
  BY <1>1, HeaderCells DEF EndOf
<1>3. \A j \in 1 .. kHeaderSize + Len(c) : a + j <= Len(d) => d[a + j] = p[j]
  BY <1>1 DEF Chain, Laid
<1>4. /\ p[1] = <<"crc", t, c>> /\ p[2] = <<"length", Len(c)>> /\ p[3] = <<"type", t>>
      /\ \A j \in 1 .. Len(c) : p[kHeaderSize + j] = c[j]
  BY <1>2, Fragment
<1> HIDE DEF t, c, p
<1>5. PICK n \in Nat : n = Len(c)
  BY <1>2
<1>6. ASSUME NEW j \in 1 .. 3 + n
      PROVE  dest[a + j] = p[j]
  <2>1. a + j <= EndOf(d, a) /\ a + j \in a + 1 .. EndOf(d, a) /\ a + j <= Len(d)
    BY <1>1, <1>2, <1>5 DEF kHeaderSize
  <2>2. j \in 1 .. kHeaderSize + Len(c)
    BY <1>5 DEF kHeaderSize
  <2> QED BY <1>3, <2>1, <2>2
<1>7. /\ dest[a + 1] = <<"crc", t, c>> /\ dest[a + 2] = <<"length", n>>
      /\ dest[a + 3] = <<"type", t>>
  <2>1. 1 \in 1 .. 3 + n /\ 2 \in 1 .. 3 + n /\ 3 \in 1 .. 3 + n
    BY <1>5
  <2> QED BY <1>4, <1>5, <1>6, <2>1
<1>8. LengthField = {n}
  <2>1. <<"length", n>>[1] = "length" /\ <<"length", n>>[2] = n
    OBVIOUS
  <2>2. <<"length", n>> /= Zero
    BY <2>1 DEF Zero
  <2> QED BY <1>7, <2>1, <2>2 DEF LengthField
<1>9. TypeField = {t}
  <2>1. <<"type", t>>[1] = "type" /\ <<"type", t>>[2] = t
    OBVIOUS
  <2>2. <<"type", t>> /= Zero
    BY <2>1 DEF Zero
  <2> QED BY <1>7, <2>1, <2>2 DEF TypeField
<1>10. FragmentCells(n) = c
  <2> DEFINE s == SubSeq(dest, a + kHeaderSize + 1, a + kHeaderSize + n)
  <2>1. PICK i \in Nat : i = a
    BY <1>1
  <2>2. s = SubSeq(dest, i + 4, i + 3 + n)
    <3>1. a + kHeaderSize + 1 = i + 4 /\ a + kHeaderSize + n = i + 3 + n
      BY <2>1 DEF kHeaderSize
    <3> QED BY <3>1, Zenon
  <2>3. i + 3 + n <= Len(dest)
    BY <1>2, <1>5, <2>1 DEF kHeaderSize
  <2> HIDE DEF s, a
  <2>4. s \in Seq(Cells) /\ Len(s) = n /\ \A j \in 1 .. n : s[j] = dest[i + 3 + j]
    BY <2>2, <2>3
  <2>5. ASSUME NEW j \in 1 .. n
        PROVE  s[j] = c[j]
    <3>1. 3 + j \in 1 .. 3 + n /\ a + (3 + j) = i + 3 + j
      BY <2>1
    <3>2. dest[i + 3 + j] = p[3 + j]
      BY <1>6, <3>1
    <3>3. p[3 + j] = c[j]
      BY <1>4, <1>5 DEF kHeaderSize
    <3> QED BY <2>4, <3>2, <3>3
  <2>6. s = c
    BY <1>2, <1>5, <2>4, <2>5, SeqEqual, SMTT(30)
  <2> QED BY <2>6 DEF FragmentCells, s, a
<1>11. ChecksumMatches(t, n)
  BY <1>7, <1>10 DEF ChecksumMatches
<1>12. LengthAt(d, a) = n
  BY <1>5 DEF LengthAt, c
<1> QED BY <1>8, <1>9, <1>10, <1>11, <1>12 DEF t, c

-----------------------------------------------------------------------------
(* What ReadPhysicalRecord makes of the cells at buffer_[1]: it takes or   *)
(* skips a fragment, gives up the rest of the block, or ends.              *)
Skip ==
    /\ in_fragmented_record' = FALSE
    /\ UNCHANGED <<log_pc, delivered, last_record_offset, prospective_record_offset>>

Accepts(d, t, n) ==
    /\ buffer_[1] + kHeaderSize + n <= buffer_[2]
    /\ buffer_' = <<buffer_[1] + kHeaderSize + n, buffer_[2]>>
    /\ buffer_[1] < kept =>
          /\ buffer_[1] + kHeaderSize + n = EndOf(d, buffer_[1]) /\ t = TypeAt(d, buffer_[1])
          /\ FragmentCells(n) = PayloadAt(d, buffer_[1])
    /\ \/ buffer_[1] < initial_offset /\ Skip
       \/ buffer_[1] >= initial_offset /\ \E size \in Int : OnRecord(t, FragmentCells(n), size)

Accepted(d) == \E t \in Nat, n \in Nat : Accepts(d, t, n)
Dropped == buffer_' = <<buffer_[2], buffer_[2]>> /\ Skip
Ended   == eof /\ log_pc' = "done" /\ delivered' = delivered

(* The fragment at buffer_[1] is in the buffer and as it was written.      *)
Undisturbed(d) ==
    /\ IsHeader(d, buffer_[1]) /\ EndOf(d, buffer_[1]) <= kept
    /\ EndOf(d, buffer_[1]) <= buffer_[2]
    /\ \A i \in buffer_[1] + 1 .. EndOf(d, buffer_[1]) : i \notin damage

LEMMA AsWritten ==
    ASSUME NEW d, Chain(d), Left(d), buffer_[1] \in Nat, Undisturbed(d)
    PROVE  \A i \in buffer_[1] + 1 .. EndOf(d, buffer_[1]) : dest[i] = d[i]
<1>1. PICK A \in Nat : A = buffer_[1]
  OBVIOUS
<1>2. IsHeader(d, A) /\ d \in Seq(Cells) /\ kept \in Nat
  BY <1>1 DEF Undisturbed, Left, Chain
<1>3. PICK e \in Nat : e = EndOf(d, A)
  BY <1>2, HeaderCells
<1>4. e <= kept /\ \A i \in A + 1 .. e : i \notin damage
  BY <1>1, <1>3 DEF Undisturbed
<1>5. \A i \in 1 .. kept : i \notin damage => dest[i] = d[i]
  BY DEF Left
<1>6. \A i \in A + 1 .. e : dest[i] = d[i]
  BY <1>2, <1>4, <1>5
<1> QED BY <1>1, <1>3, <1>6

LEMMA FieldTypes ==
    ASSUME dest \in Seq(Cells), buffer_[1] \in Nat, buffer_[1] + kHeaderSize <= Len(dest)
    PROVE  LengthField \subseteq Nat /\ TypeField \subseteq Nat
<1>1. PICK c \in Cells : c = dest[buffer_[1] + 2]
  BY DEF kHeaderSize
<1>2. PICK e \in Cells : e = dest[buffer_[1] + 3]
  BY DEF kHeaderSize
<1>3. Garbage \subseteq Nat
  BY LogAssumption DEF Garbage
<1>4. /\ \A f \in Data : f[1] = "data"
      /\ \A f \in {"crc"} \X Types \X Seq(Data) : f[1] = "crc"
      /\ \A f \in {"length"} \X Nat : f[1] = "length" /\ f[2] \in Nat
      /\ \A f \in {"type"} \X Types : f[1] = "type" /\ f[2] \in Types
      /\ Zero[1] = "zero" /\ Damaged[1] = "damaged"
  BY DEF Data, Zero, Damaged
<1>5. \A f \in Cells : /\ f[1] = "length" => f[2] \in Nat
                       /\ f[1] = "type" => f[2] \in Types
  <2>1. /\ "length" /= "type" /\ "length" /= "data" /\ "length" /= "crc" /\ "length" /= "zero"
        /\ "length" /= "damaged" /\ "type" /= "data" /\ "type" /= "crc" /\ "type" /= "zero"
        /\ "type" /= "damaged"
    OBVIOUS
  <2>2. SUFFICES ASSUME NEW f \in Cells
                 PROVE  /\ f[1] = "length" => f[2] \in Nat
                        /\ f[1] = "type" => f[2] \in Types
    OBVIOUS
  <2>3. \/ f = Zero \/ f = Damaged \/ f \in {"crc"} \X Types \X Seq(Data)
        \/ f \in {"length"} \X Nat \/ f \in {"type"} \X Types \/ f \in Data
    BY Zenon DEF Cells
  <2> QED BY <1>4, <2>1, <2>3, Zenon
<1>6. LengthField \subseteq Nat
  <2>1. CASE c[1] = "length"
    <3>1. c /= Zero
      BY <1>4, <2>1
    <3>2. LengthField = {c[2]}
      BY <1>1, <2>1, <3>1 DEF LengthField
    <3> QED BY <1>5, <2>1, <3>2
  <2>2. CASE c[1] /= "length" /\ c = Zero
    <3>1. LengthField = {0}
      BY <1>1, <2>2 DEF LengthField
    <3> QED BY <3>1
  <2>3. CASE c[1] /= "length" /\ c /= Zero
    <3>1. LengthField = Garbage
      BY <1>1, <2>3 DEF LengthField
    <3> QED BY <1>3, <3>1
  <2> QED BY <2>1, <2>2, <2>3
<1>7. TypeField \subseteq Nat
  <2>1. CASE e[1] = "type"
    <3>1. e /= Zero
      BY <1>4, <2>1
    <3>2. TypeField = {e[2]}
      BY <1>2, <2>1, <3>1 DEF TypeField
    <3> QED BY <1>5, <2>1, <3>2 DEF Types, kFullType, kLastType
  <2>2. CASE e[1] /= "type" /\ e = Zero
    <3>1. TypeField = {kZeroType}
      BY <1>2, <2>2 DEF TypeField
    <3> QED BY <3>1 DEF kZeroType
  <2>3. CASE e[1] /= "type" /\ e /= Zero
    <3>1. TypeField = kZeroType .. kLastType
      BY <1>2, <2>3 DEF TypeField
    <3> QED BY <3>1 DEF kZeroType, kLastType
  <2> QED BY <2>1, <2>2, <2>3
<1> QED BY <1>6, <1>7

LEMMA Outcomes ==
    ASSUME NEW d, Chain(d), Left(d), ScanTypes, InFile, BufferSize >= kHeaderSize,
           Where < kept => IsHeader(d, Where), ReadPhysicalRecord
    PROVE  /\ Accepted(d) \/ Dropped \/ Ended
           /\ Undisturbed(d) => Accepted(d)
<1> DEFINE a == buffer_[1]
           b == buffer_[2]
<1>1. /\ a \in Nat /\ b \in Nat /\ b <= Len(dest) /\ BufferSize = b - a /\ a + 3 <= b
      /\ end_of_buffer_offset = b /\ initial_offset \in Nat /\ eof \in BOOLEAN
      /\ dest \in Seq(Cells) /\ Len(dest) \in Nat /\ kept <= Len(dest) /\ kept \in Nat
      /\ d \in Seq(Cells) /\ Len(d) \in Nat /\ kept <= Len(d)
  BY DEF ScanTypes, InFile, Left, Chain, BufferSize, kHeaderSize
<1>2. Where = a /\ ~(BufferSize < kHeaderSize)
  BY <1>1 DEF Where, kHeaderSize
<1>3. LengthField \subseteq Nat /\ TypeField \subseteq Nat
  BY <1>1, FieldTypes DEF kHeaderSize
<1> DEFINE Case(n, t) ==
             LET rest  == BufferSize - kHeaderSize - n
                 start == end_of_buffer_offset - BufferSize
                 drop  == ReportDrop(reports, end_of_buffer_offset, 0, BufferSize)
             IN \/ /\ rest < 0
                   /\ Emptied
                   /\ TooLong(drop)
                \/ /\ rest >= 0 /\ t = kZeroType /\ n = 0
                   /\ Emptied /\ OnBadRecord(reports, 0)
                \/ /\ rest >= 0 /\ ~(t = kZeroType /\ n = 0)
                   /\ ~ChecksumMatches(t, n)
                   /\ Emptied /\ OnBadRecord(drop, 0)
                \/ /\ rest >= 0 /\ ChecksumMatches(t, n)
                   /\ buffer_' = <<buffer_[2] - rest, buffer_[2]>>
                   /\ IF StartsBeforeOffset(start, n)
                      THEN OnBadRecord(reports, rest)
                      ELSE OnRecord(t, FragmentCells(n), rest)
<1>4. PICK n \in LengthField, t \in TypeField : Case(n, t)
  BY <1>2, Zenon DEF ReadPhysicalRecord
<1>5. n \in Nat /\ t \in Nat
  BY <1>3
<1> DEFINE rest  == BufferSize - kHeaderSize - n
           start == end_of_buffer_offset - BufferSize
           drop  == ReportDrop(reports, end_of_buffer_offset, 0, BufferSize)
<1>6. rest = b - (a + kHeaderSize + n) /\ start = a /\ rest \in Int
  <2>1. PICK A \in Nat, B \in Nat : A = a /\ B = b
    BY <1>1
  <2>2. BufferSize = B - A /\ end_of_buffer_offset = B
    BY <1>1, <2>1
  <2>3. /\ BufferSize - 3 - n = B - (A + 3 + n) /\ end_of_buffer_offset - BufferSize = A
        /\ B - (A + 3 + n) \in Int
    BY <1>5, <2>2
  <2> QED BY <2>1, <2>3 DEF kHeaderSize
<1>7. \A log, size : OnBadRecord(log, size) => Skip
  BY DEF OnBadRecord, Skip, Continue
<1>8. CASE rest < 0 /\ Emptied /\ TooLong(drop)
  <2>1. Dropped \/ Ended
    BY <1>7, <1>8, Zenon DEF TooLong, OnEof, Dropped, Ended, Emptied
  <2>2. ~Undisturbed(d)
    <3>1. SUFFICES ASSUME Undisturbed(d) PROVE FALSE
      OBVIOUS
    <3>2. /\ IsHeader(d, a) /\ EndOf(d, a) <= kept /\ EndOf(d, a) <= b
          /\ \A i \in a + 1 .. EndOf(d, a) : i \notin damage
      BY <3>1 DEF Undisturbed
    <3>3. EndOf(d, a) \in Nat /\ EndOf(d, a) = a + kHeaderSize + LengthAt(d, a)
      BY <1>1, <3>2, HeaderCells DEF EndOf, LengthAt
    <3>4. \A i \in a + 1 .. EndOf(d, a) : dest[i] = d[i]
      BY <1>1, <3>1, AsWritten
    <3>5. n = LengthAt(d, a)
      <4>1. EndOf(d, a) <= Len(d) /\ EndOf(d, a) <= Len(dest)
        BY <1>1, <3>2, <3>3
      <4>2. LengthField = {LengthAt(d, a)}
        BY <1>1, <3>2, <3>4, <4>1, IntactRead
      <4> QED BY <4>2
    <3>6. EndOf(d, a) = a + kHeaderSize + n
      BY <3>3, <3>5
    <3>7. PICK A \in Nat, B \in Nat, e \in Nat : A = a /\ B = b /\ e = EndOf(d, a)
      BY <1>1, <3>3
    <3>8. rest = B - e
      BY <1>6, <3>6, <3>7
    <3> QED BY <1>8, <3>2, <3>7, <3>8
  <2> QED BY <2>1, <2>2
<1>9. CASE rest >= 0 /\ Emptied /\ OnBadRecord(reports, 0) /\ t = kZeroType /\ n = 0
  <2>1. Dropped
    BY <1>7, <1>9 DEF Dropped, Emptied
  <2>2. ~Undisturbed(d)
    <3>1. SUFFICES ASSUME Undisturbed(d) PROVE FALSE
      OBVIOUS
    <3>2. /\ IsHeader(d, a) /\ EndOf(d, a) <= kept /\ EndOf(d, a) <= b
          /\ \A i \in a + 1 .. EndOf(d, a) : i \notin damage
      BY <3>1 DEF Undisturbed
    <3>3. EndOf(d, a) \in Nat /\ TypeAt(d, a) \in Types
      BY <1>1, <3>2, HeaderCells
    <3>4. \A i \in a + 1 .. EndOf(d, a) : dest[i] = d[i]
      BY <1>1, <3>1, AsWritten
    <3>5. t = TypeAt(d, a)
      <4>1. EndOf(d, a) <= Len(d) /\ EndOf(d, a) <= Len(dest)
        BY <1>1, <3>2, <3>3
      <4>2. TypeField = {TypeAt(d, a)}
        BY <1>1, <3>2, <3>4, <4>1, IntactRead
      <4> QED BY <4>2
    <3> QED BY <1>9, <3>3, <3>5 DEF Types, kZeroType, kFullType, kLastType
  <2> QED BY <2>1, <2>2
<1>10. CASE rest >= 0 /\ ~ChecksumMatches(t, n) /\ Emptied /\ OnBadRecord(drop, 0)
  <2>1. Dropped
    BY <1>7, <1>10 DEF Dropped, Emptied
  <2>2. ~Undisturbed(d)
    <3>1. SUFFICES ASSUME Undisturbed(d) PROVE FALSE
      OBVIOUS
    <3>2. /\ IsHeader(d, a) /\ EndOf(d, a) <= kept /\ EndOf(d, a) <= b
          /\ \A i \in a + 1 .. EndOf(d, a) : i \notin damage
      BY <3>1 DEF Undisturbed
    <3>3. EndOf(d, a) \in Nat
      BY <1>1, <3>2, HeaderCells
    <3>4. \A i \in a + 1 .. EndOf(d, a) : dest[i] = d[i]
      BY <1>1, <3>1, AsWritten
    <3>7. EndOf(d, a) <= Len(d) /\ EndOf(d, a) <= Len(dest)
      BY <1>1, <3>2, <3>3
    <3>5. /\ LengthField = {LengthAt(d, a)} /\ TypeField = {TypeAt(d, a)}
          /\ ChecksumMatches(TypeAt(d, a), LengthAt(d, a))
      BY <1>1, <3>2, <3>4, <3>7, IntactRead
    <3>6. n = LengthAt(d, a) /\ t = TypeAt(d, a)
      BY <3>5
    <3> QED BY <1>10, <3>5, <3>6
  <2> QED BY <2>1, <2>2
<1>11. CASE /\ rest >= 0 /\ ChecksumMatches(t, n)
            /\ buffer_' = <<buffer_[2] - rest, buffer_[2]>>
            /\ IF StartsBeforeOffset(start, n)
               THEN OnBadRecord(reports, rest)
               ELSE OnRecord(t, FragmentCells(n), rest)
  <2> DEFINE e == a + kHeaderSize + n
  <2>1. e <= b /\ b - rest = e /\ e \in Nat
    <3>1. PICK B \in Nat : B = b
      BY <1>1
    <3>2. PICK E \in Nat : E = e
      BY <1>1, <1>5 DEF kHeaderSize
    <3>3. rest = B - E /\ rest >= 0
      BY <1>6, <1>11, <3>1, <3>2
    <3>4. PICK R \in Int : R = rest
      BY <1>6
    <3>5. E <= B /\ B - R = E
      BY <3>3, <3>4
    <3> QED BY <3>1, <3>2, <3>4, <3>5
  <2>2. buffer_' = <<e, b>>
    BY <1>11, <2>1, Zenon
  <2>3. StartsBeforeOffset(start, n) <=> a < initial_offset
    BY <1>6 DEF StartsBeforeOffset
  <2>4. \/ a < initial_offset /\ Skip
        \/ a >= initial_offset /\ \E size \in Int : OnRecord(t, FragmentCells(n), size)
    <3>1. CASE a < initial_offset
      BY <1>7, <1>11, <2>3, <3>1
    <3>2. CASE ~(a < initial_offset)
      <4>1. OnRecord(t, FragmentCells(n), rest) /\ a >= initial_offset
        BY <1>1, <1>11, <2>3, <3>2
      <4> QED BY <1>6, <4>1
    <3> QED BY <3>1, <3>2
  <2>5. ASSUME a < kept
        PROVE  e = EndOf(d, a) /\ t = TypeAt(d, a) /\ FragmentCells(n) = PayloadAt(d, a)
    <3>1. IsHeader(d, a)
      BY <1>2, <2>5
    <3>2. d[a + 1] = <<"crc", TypeAt(d, a), PayloadAt(d, a)>> /\ PayloadAt(d, a) \in Seq(Data)
      BY <1>1, <3>1, HeaderCells
    <3>3. dest[a + 1] = <<"crc", t, FragmentCells(n)>>
      BY <1>11 DEF ChecksumMatches
    <3>4. dest[a + 1] = d[a + 1]
      <4>1. a + 1 \notin damage
        <5>1. Damaged[1] = "damaged" /\ <<"crc", t, FragmentCells(n)>>[1] = "crc"
          BY DEF Damaged
        <5> QED BY <3>3, <5>1 DEF Left
      <4>2. a + 1 \in 1 .. kept
        BY <1>1, <2>5, SMTT(30)
      <4> QED BY <4>1, <4>2 DEF Left
    <3>5. t = TypeAt(d, a) /\ FragmentCells(n) = PayloadAt(d, a)
      BY <3>2, <3>3, <3>4
    <3>6. Len(FragmentCells(n)) = n
      <4>1. PICK i \in Nat : i = a
        BY <1>1
      <4>2. FragmentCells(n) = SubSeq(dest, i + 4, i + 3 + n)
        <5>1. a + kHeaderSize + 1 = i + 4 /\ a + kHeaderSize + n = i + 3 + n
          BY <4>1 DEF kHeaderSize
        <5> QED BY <5>1, Zenon DEF FragmentCells
      <4>3. i + 3 + n <= Len(dest)
        <5>1. PICK B \in Nat : B = b
          BY <1>1
        <5>2. i + 3 + n = e
          BY <4>1 DEF kHeaderSize
        <5> QED BY <1>1, <2>1, <5>1, <5>2
      <4> QED BY <1>1, <1>5, <4>2, <4>3
    <3> QED BY <3>5, <3>6 DEF EndOf
  <2>6. Accepts(d, t, n)
    BY <2>1, <2>2, <2>4, <2>5, Zenon DEF Accepts
  <2> QED BY <1>5, <2>6 DEF Accepted
<1> QED BY <1>4, <1>8, <1>9, <1>10, <1>11

(* The cell the reader is at is in the block it has in its buffer.         *)
LEMMA InItsBlock ==
    ASSUME ScanTypes, InFile, BufferSize >= kHeaderSize
    PROVE  \E m \in 0 .. buffer_[1] :
              /\ InBlock(m, buffer_[1])
              /\ \/ buffer_[2] = m + kBlockSize
                 \/ eof /\ buffer_[2] = Len(dest) /\ buffer_[2] < m + kBlockSize
<1>1. PICK A \in Nat, B \in Nat : A = buffer_[1] /\ B = buffer_[2]
  BY DEF ScanTypes
<1>2. A + 3 <= B
  BY <1>1 DEF BufferSize, kHeaderSize
<1>3. PICK m \in 0 .. A : /\ Boundary(m)
                          /\ B = m + kBlockSize \/ (eof /\ B < m + kBlockSize)
  BY <1>1, Zenon DEF InFile
<1>4. kBlockSize \in Nat
  BY LogAssumption
<1>5. InBlock(m, A)
  BY <1>2, <1>3, <1>4 DEF InBlock
<1>6. eof => B = Len(dest)
  BY <1>1 DEF InFile
<1> QED BY <1>1, <1>3, <1>5, <1>6

(* Behind a fragment the reader is where the next one starts, or where the *)
(* crash left nothing of it.                                               *)
LEMMA AfterFragment ==
    ASSUME NEW d, Chain(d), Left(d), ScanTypes, InFile, BufferSize >= kHeaderSize,
           NEW t \in Nat, NEW n \in Nat, Accepts(d, t, n), buffer_[1] < kept,
           IsHeader(d, buffer_[1]), file_pos' = file_pos,
           NEW m \in Nat, InBlock(m, buffer_[1])
    PROVE  \/ Where' = NextStart(m, EndOf(d, buffer_[1]))
           \/ /\ NextStart(m, EndOf(d, buffer_[1])) + kHeaderSize > kept
              /\ Where' >= kept
<1>1. PICK A \in Nat, B \in Nat : A = buffer_[1] /\ B = buffer_[2]
  BY DEF ScanTypes
<1>2. PICK o \in 0 .. A : /\ InBlock(o, A)
                          /\ \/ B = o + kBlockSize
                             \/ eof /\ B = Len(dest) /\ B < o + kBlockSize
  BY <1>1, InItsBlock
<1>3. kBlockSize \in Nat /\ kept \in Nat /\ Len(dest) \in Nat /\ kept <= Len(dest)
  BY LogAssumption DEF Left, Chain
<1>4. o = m
  <2>1. o \in Nat /\ Boundary(o) /\ Boundary(m) /\ InBlock(m, A)
    BY <1>1, <1>2 DEF InBlock
  <2>2. ~(o < m) /\ ~(m < o)
    BY <1>2, <1>3, <2>1, Boundaries, SMTT(30) DEF InBlock
  <2> QED BY <2>1, <2>2
<1>5. PICK e \in Nat : e = A + kHeaderSize + n
  BY DEF kHeaderSize
<1>6. e = EndOf(d, A) /\ e <= B /\ buffer_' = <<e, B>>
  BY <1>1, <1>5 DEF Accepts
<1>7. file_pos' = B
  BY <1>1 DEF InFile
<1>8. BufferSize' = B - e /\ buffer_'[1] = e
  BY <1>6 DEF BufferSize
<1>9. Where' = IF e + 3 <= B THEN e ELSE B
  BY <1>5, <1>6, <1>7, <1>8 DEF Where, kHeaderSize
<1>10. NextStart(m, e) = IF e + 3 <= m + kBlockSize THEN e ELSE m + kBlockSize
  BY DEF NextStart, kHeaderSize
<1>11. CASE B = o + kBlockSize
  <2>1. Where' = NextStart(m, e)
    BY <1>4, <1>9, <1>10, <1>11
  <2> QED BY <1>1, <1>6, <2>1
<1>12. CASE eof /\ B = Len(dest) /\ B < o + kBlockSize
  <2>1. CASE e + 3 <= B
    <3>1. Where' = NextStart(m, e)
      BY <1>3, <1>4, <1>9, <1>10, <1>12, <2>1
    <3> QED BY <1>1, <1>6, <3>1
  <2>2. CASE ~(e + 3 <= B)
    <3>1. Where' >= kept /\ NextStart(m, e) + 3 > kept
      BY <1>3, <1>4, <1>9, <1>10, <1>12, <2>2
    <3> QED BY <1>1, <1>6, <3>1 DEF kHeaderSize
  <2> QED BY <2>1, <2>2
<1> QED BY <1>2, <1>11, <1>12

(* What the reader knows of an accepted record.                            *)
LEMMA OffsetsKept ==
    ASSUME ScanTypes, InFile, log_pc = "loop", BufferSize >= kHeaderSize,
           buffer_[1] >= initial_offset,
           NEW t \in Nat, NEW c, NEW size \in Int, OnRecord(t, c, size)
    PROVE  /\ log_pc' \in {"call", "loop"}
           /\ in_fragmented_record' \in BOOLEAN /\ prospective_record_offset' \in Nat
           /\ last_record_offset' \in Nat /\ \E S : delivered' \in Seq(S)
           /\ log_pc' = "call" => last_record_offset' >= initial_offset
           /\ log_pc' = "loop" /\ in_fragmented_record' =>
                 prospective_record_offset' >= initial_offset
<1>1. /\ buffer_[1] \in Nat /\ initial_offset \in Nat /\ in_fragmented_record \in BOOLEAN
      /\ prospective_record_offset \in Nat /\ last_record_offset \in Nat
      /\ physical_record_offset \in Int
  BY DEF ScanTypes
<1>2. physical_record_offset \in Nat /\ physical_record_offset >= initial_offset
  <2>1. ~(BufferSize < kHeaderSize)
    BY DEF ScanTypes, BufferSize, kHeaderSize
  <2>2. \/ physical_record_offset >= initial_offset
        \/ physical_record_offset = buffer_[1]
    BY <2>1, Zenon DEF InFile
  <2> QED BY <1>1, <2>2
<1>3. in_fragmented_record => prospective_record_offset >= initial_offset
  BY DEF InFile
<1>4. PICK S : delivered \in Seq(S)
  BY DEF ScanTypes
<1>5. ASSUME NEW p, NEW o, ReturnRecord(p, o)
      PROVE  /\ log_pc' = "call" /\ last_record_offset' = o
             /\ \E T : delivered' \in Seq(T)
  <2> DEFINE z == [payload |-> p, offset |-> o]
  <2>1. delivered' = Append(delivered, z) /\ log_pc' = "call" /\ last_record_offset' = o
    BY <1>5 DEF ReturnRecord
  <2>2. PICK T : T = S \cup {z}
    OBVIOUS
  <2> HIDE DEF z
  <2>3. delivered \in Seq(T) /\ z \in T
    BY <1>4, <2>2
  <2>4. Append(delivered, z) \in Seq(T)
    BY <2>3
  <2> QED BY <2>1, <2>4
<1>6. ASSUME Continue
      PROVE  /\ log_pc' = "loop" /\ last_record_offset' = last_record_offset
             /\ \E T : delivered' \in Seq(T)
  BY <1>4, <1>6 DEF Continue
<1>8. "call" \in {"call", "loop"} /\ "loop" \in {"call", "loop"} /\ "call" /= "loop"
  OBVIOUS
<1>7. \/ /\ in_fragmented_record' = FALSE
         /\ prospective_record_offset' = physical_record_offset
         /\ ReturnRecord(c, physical_record_offset)
      \/ /\ prospective_record_offset' = physical_record_offset
         /\ in_fragmented_record' = TRUE /\ Continue
      \/ /\ UNCHANGED <<in_fragmented_record, prospective_record_offset>> /\ Continue
      \/ /\ UNCHANGED <<in_fragmented_record, prospective_record_offset>>
         /\ in_fragmented_record /\ \E p : ReturnRecord(p, prospective_record_offset)
  BY Zenon DEF OnRecord
<1> DEFINE Full == /\ in_fragmented_record' = FALSE
                   /\ prospective_record_offset' = physical_record_offset
                   /\ ReturnRecord(c, physical_record_offset)
           First == /\ prospective_record_offset' = physical_record_offset
                    /\ in_fragmented_record' = TRUE /\ Continue
           Same == UNCHANGED <<in_fragmented_record, prospective_record_offset>>
<1>9. CASE Full
  BY <1>1, <1>2, <1>5, <1>8, <1>9
<1>10. CASE First
  BY <1>1, <1>2, <1>6, <1>8, <1>10
<1>11. CASE Same /\ Continue
  BY <1>1, <1>3, <1>6, <1>8, <1>11
<1>12. CASE Same /\ in_fragmented_record /\ \E p : ReturnRecord(p, prospective_record_offset)
  BY <1>1, <1>3, <1>5, <1>8, <1>12
<1> QED BY <1>7, <1>9, <1>10, <1>11, <1>12

(* Reading a fragment, or giving up a block, leaves the reader at the      *)
(* start of a fragment or of a block.                                      *)
LEMMA ScanKeeps ==
    ASSUME NEW d, Chain(d), Left(d), ScanTypes, InFile, log_pc = "loop",
           BufferSize >= kHeaderSize, Where < kept => IsHeader(d, Where),
           ReadPhysicalRecord, Accepted(d) \/ Dropped
    PROVE  log_pc' \in {"call", "loop"} /\ Scanning(d)'
<1>1. PICK A \in Nat, B \in Nat : A = buffer_[1] /\ B = buffer_[2]
  BY DEF ScanTypes
<1>2. /\ BufferSize = B - A /\ A + 3 <= B /\ end_of_buffer_offset = B /\ file_pos = B
      /\ B <= Len(dest) /\ initial_offset \in Nat /\ eof \in BOOLEAN
      /\ kept \in Nat /\ Len(dest) \in Nat /\ kept <= Len(dest) /\ kept <= Len(d)
      /\ Len(d) \in Nat
  BY <1>1, SMTT(30) DEF BufferSize, kHeaderSize, InFile, ScanTypes, Left, Chain
<1>3. /\ dest' = dest /\ kept' = kept /\ damage' = damage /\ file_pos' = B /\ eof' = eof
      /\ end_of_buffer_offset' = B /\ initial_offset' = initial_offset
  BY <1>2 DEF ReadPhysicalRecord, writer, media
<1>4. Where = A
  BY <1>1, <1>2 DEF Where, kHeaderSize
<1> DEFINE Offsets ==
             /\ log_pc' \in {"call", "loop"}
             /\ in_fragmented_record' \in BOOLEAN /\ prospective_record_offset' \in Nat
             /\ last_record_offset' \in Nat /\ \E S : delivered' \in Seq(S)
             /\ log_pc' = "call" => last_record_offset' >= initial_offset
             /\ log_pc' = "loop" /\ in_fragmented_record' =>
                   prospective_record_offset' >= initial_offset
<1>5. Skip => Offsets
  <2>1. "loop" \in {"call", "loop"} /\ "call" /= "loop"
    OBVIOUS
  <2> QED BY <2>1 DEF Skip, ScanTypes
<1>6. \E e \in Nat : /\ buffer_' = <<e, B>> /\ e <= B /\ A <= e /\ Offsets
                     /\ \/ Dropped /\ e = B
                        \/ \E t \in Nat, n \in Nat : Accepts(d, t, n)
  <2>1. CASE Dropped
    <3>1. buffer_' = <<B, B>> /\ B <= B /\ A <= B
      BY <1>1, <1>2, <2>1 DEF Dropped
    <3>2. Offsets
      BY <1>5, <2>1 DEF Dropped
    <3> HIDE DEF Offsets
    <3> QED BY <2>1, <3>1, <3>2
  <2>2. ASSUME NEW t \in Nat, NEW n \in Nat, Accepts(d, t, n)
        PROVE  \E e \in Nat : /\ buffer_' = <<e, B>> /\ e <= B /\ A <= e /\ Offsets
                              /\ \E u \in Nat, k \in Nat : Accepts(d, u, k)
    <3>1. PICK e \in Nat : e = A + kHeaderSize + n
      BY DEF kHeaderSize
    <3>2. buffer_' = <<e, B>> /\ e <= B /\ A <= e
      BY <1>1, <2>2, <3>1 DEF Accepts, kHeaderSize
    <3>3. Offsets
      <4>1. CASE Skip
        BY <1>5, <4>1
      <4>2. ASSUME buffer_[1] >= initial_offset,
                   NEW size \in Int, OnRecord(t, FragmentCells(n), size)
            PROVE  Offsets
        BY <4>2, OffsetsKept, Zenon
      <4> QED BY <2>2, <4>1, <4>2 DEF Accepts
    <3> HIDE DEF Offsets
    <3> QED BY <2>2, <3>2, <3>3
  <2> HIDE DEF Offsets
  <2> QED BY <2>1, <2>2 DEF Accepted
<1>7. PICK e \in Nat : /\ buffer_' = <<e, B>> /\ e <= B /\ A <= e /\ Offsets
                       /\ \/ Dropped /\ e = B
                          \/ \E t \in Nat, n \in Nat : Accepts(d, t, n)
  BY <1>6, Zenon
<1>8. BufferSize' = B - e /\ buffer_'[1] = e /\ buffer_'[2] = B
  BY <1>7 DEF BufferSize
<1>9. physical_record_offset' = e
  <2>1. physical_record_offset' = B - (B - e)
    BY <1>3, <1>8 DEF ReadPhysicalRecord, TopOfLoop
  <2> QED BY <2>1
<1>10. Where' = IF e + 3 <= B THEN e ELSE B
  BY <1>3, <1>7, <1>8 DEF Where, kHeaderSize
<1>11. ScanTypes'
  BY <1>3, <1>7, <1>9, <1>2, SMTT(30) DEF ScanTypes
<1>12. eof \/ initial_offset + 2 <= B
  BY <1>1 DEF InFile
<1>13. InFile'
  <2>1. BufferSize' < kHeaderSize \/ BufferSize' >= kHeaderSize
    BY <1>8 DEF kHeaderSize
  <2>2. IF eof' THEN buffer_'[2] = Len(dest')
               ELSE Boundary(buffer_'[2]) /\ initial_offset' + 2 <= buffer_'[2]
    BY <1>1, <1>3, <1>8 DEF InFile
  <2>3. ASSUME BufferSize' >= kHeaderSize
        PROVE  \E m \in 0 .. e : /\ Boundary(m)
                                 /\ B = m + kBlockSize \/ (eof' /\ B < m + kBlockSize)
    <3>1. PICK m \in 0 .. A : /\ Boundary(m)
                              /\ B = m + kBlockSize \/ (eof /\ B < m + kBlockSize)
      BY <1>1, Zenon DEF InFile
    <3>2. m \in 0 .. e
      BY <1>7
    <3> QED BY <1>3, <3>1, <3>2
  <2>4. \/ physical_record_offset' >= initial_offset'
        \/ BufferSize' >= kHeaderSize /\ physical_record_offset' = buffer_'[1]
        \/ BufferSize' < kHeaderSize /\ eof'
    <3>1. CASE BufferSize' >= kHeaderSize
      BY <1>8, <1>9, <3>1
    <3>2. CASE BufferSize' < kHeaderSize /\ ~eof
      <4>1. B - e < 3
        BY <1>8, <3>2 DEF kHeaderSize
      <4>2. e >= initial_offset
        BY <1>2, <1>12, <3>2, <4>1
      <4> QED BY <1>3, <1>9, <4>2
    <3> QED BY <1>3, <2>1, <3>1, <3>2
  <2>5. file_pos' = buffer_'[2] /\ end_of_buffer_offset' = buffer_'[2]
        /\ buffer_'[1] <= buffer_'[2] /\ buffer_'[2] <= Len(dest')
    BY <1>2, <1>3, <1>7, <1>8
  <2>6. /\ log_pc' = "call" => last_record_offset' >= initial_offset'
        /\ log_pc' = "loop" /\ in_fragmented_record' =>
              prospective_record_offset' >= initial_offset'
    BY <1>3, <1>7
  <2>7. BufferSize' >= kHeaderSize =>
          \E m \in 0 .. buffer_'[1] :
             /\ Boundary(m)
             /\ buffer_'[2] = m + kBlockSize \/ (eof' /\ buffer_'[2] < m + kBlockSize)
    BY <1>8, <2>3
  <2> HIDE DEF Offsets
  <2> QED BY <2>2, <2>4, <2>5, <2>6, <2>7, Zenon DEF InFile
<1>14. ASSUME Where' < kept
       PROVE  IsHeader(d, Where')
  <2>1. eof => B = Len(dest)
    BY <1>1 DEF InFile
  <2>2. CASE Dropped /\ e = B
    <3>1. Where' = B /\ B < Len(d) /\ B < kept
      BY <1>2, <1>10, <1>14, <2>2
    <3>2. ~eof
      BY <1>2, <2>1, <3>1
    <3>3. Boundary(B)
      BY <1>1, <3>2 DEF InFile
    <3>4. IsHeader(d, B)
      BY <1>2, <3>1, <3>3 DEF Chain
    <3> QED BY <3>1, <3>4
  <2>3. ASSUME NEW t \in Nat, NEW n \in Nat, Accepts(d, t, n)
        PROVE  IsHeader(d, Where')
    <3>1. PICK m \in 0 .. A : InBlock(m, A)
      BY <1>1, InItsBlock
    <3>2. A < kept
      BY <1>2, <1>7, <1>10, <1>14
    <3>3. IsHeader(d, A)
      BY <1>4, <3>2
    <3>4. \/ Where' = NextStart(m, EndOf(d, A))
          \/ Where' >= kept
      <4>1. m \in Nat /\ file_pos' = file_pos
        BY <1>2, <1>3, <3>1
      <4> QED BY <1>1, <2>3, <3>1, <3>2, <3>3, <4>1, AfterFragment
    <3>5. Where' = NextStart(m, EndOf(d, A)) /\ Where' < Len(d)
      BY <1>2, <1>7, <1>10, <1>14, <3>4
    <3>6. Linked(d, A, m)
      <4>1. A \in 0 .. Len(d)
        BY <1>2, <3>2
      <4> QED BY <3>1, <3>3, <4>1 DEF Chain
    <3> QED BY <3>5, <3>6 DEF Linked
  <2> QED BY <1>7, <2>2, <2>3
<1>15. Where' < kept' => IsHeader(d, Where')
  BY <1>3, <1>14
<1> QED BY <1>7, <1>11, <1>13, <1>15 DEF Scanning

(* What the entry of a record holds.                                       *)
LEMMA RecordFields ==
    ASSUME RecordTypes, NEW r \in DOMAIN records
    PROVE  /\ records[r].len \in Nat /\ records[r].start \in Int
           /\ records[r].end \in Int /\ records[r].ok \in BOOLEAN
<1> DEFINE Rec == [len : Nat, start : Int, end : Int, ok : BOOLEAN]
<1>1. records \in Seq(Rec)
  BY DEF RecordTypes
<1> HIDE DEF Rec
<1>2. records[r] \in Rec
  BY <1>1
<1> QED BY <1>2 DEF Rec

(* Every cell is in a block, and a cell behind the start of a block is in  *)
(* no earlier block than the cells of that block.                          *)
LEMMA BlockExists ==
    ASSUME NEW s \in Nat
    PROVE  \E m \in 0 .. s : InBlock(m, s)
<1>1. kBlockSize \in Nat /\ kBlockSize > 0
  BY LogAssumption DEF kHeaderSize
<1>2. PICK B \in Nat : B = kBlockSize /\ B > 0
  BY <1>1
<1>3. PICK k \in Nat : k = s \div B
  BY <1>2
<1>4. k * B <= s /\ s < k * B + B
  BY <1>2, <1>3
<1>5. PICK m \in Int : m = k * B
  BY <1>2
<1>6. m = k * B /\ m <= s /\ s < m + B
  BY <1>4, <1>5
<1>7. k * B >= 0 /\ k <= k * B
  BY <1>2
<1>8. m \in 0 .. s /\ k \in 0 .. m
  BY <1>6, <1>7
<1>9. Boundary(m)
  BY <1>2, <1>6, <1>8 DEF Boundary
<1> QED BY <1>2, <1>6, <1>8, <1>9 DEF InBlock

LEMMA BlockOrder ==
    ASSUME NEW s \in Nat, NEW m \in Nat, InBlock(m, s), NEW i \in Nat, i > m
    PROVE  ~(BlockOf(i) < BlockOf(s + 1))
<1>1. PICK B \in Nat : B = kBlockSize /\ B > 0
  BY LogAssumption DEF kHeaderSize
<1>2. PICK k \in 0 .. m : m = k * B
  BY <1>1 DEF InBlock, Boundary
<1>3. PICK x \in Nat : x = i - 1
  OBVIOUS
<1>4. k * B <= x /\ s < k * B + B /\ k \in Nat
  BY <1>1, <1>2, <1>3 DEF InBlock
<1>5. x \div B >= k
  BY <1>1, <1>4
<1>6. s \div B <= k
  BY <1>1, <1>4
<1>7. BlockOf(i) = x \div B /\ BlockOf(s + 1) = s \div B
  <2>1. s + 1 - 1 = s
    OBVIOUS
  <2> QED BY <1>1, <1>3, <2>1 DEF BlockOf
<1>8. x \div B \in Int /\ s \div B \in Int
  BY <1>1
<1> QED BY <1>5, <1>6, <1>7, <1>8

(* No damage in what the property promises.                                *)
LEMMA Clean ==
    ASSUME NEW r, Undamaged(r), NEW s \in Nat, records[r].start = s,
           NEW m \in Nat, m <= s => InBlock(m, s),
           NEW i \in Nat, i > m, i <= records[r].end, records[r].end \in Int
    PROVE  i \notin damage
<1>1. ~(BlockOf(i) < BlockOf(s + 1))
  <2>1. CASE m <= s
    BY <2>1, BlockOrder
  <2>2. CASE ~(m <= s)
    <3>1. PICK o \in 0 .. s : InBlock(o, s)
      BY BlockExists
    <3>2. o \in Nat /\ i > o
      BY <2>2, <3>1
    <3> QED BY <3>1, <3>2, BlockOrder
  <2> QED BY <2>1, <2>2
<1>2. ~(i > records[r].end)
  OBVIOUS
<1> QED BY <1>1, <1>2 DEF Undamaged

(* A fragment that the property promises is read as it was written.        *)
LEMMA Reached ==
    ASSUME NEW d, Chain(d), Left(d), RecordTypes, ScanTypes, InFile, BufferSize >= kHeaderSize,
           NEW r \in DOMAIN records, Promised(r), IsHeader(d, buffer_[1]),
           EndOf(d, buffer_[1]) <= records[r].end, records[r].start \in Nat,
           NEW m \in Nat, InBlock(m, buffer_[1]),
           \/ records[r].start <= buffer_[1]
           \/ EndOf(d, buffer_[1]) <= records[r].start /\ InBlock(m, records[r].start)
    PROVE  Undisturbed(d)
<1>1. PICK A \in Nat, B \in Nat, s \in Nat : A = buffer_[1] /\ B = buffer_[2]
                                               /\ s = records[r].start
  BY DEF ScanTypes
<1>2. /\ kBlockSize \in Nat /\ kept \in Nat /\ Len(dest) \in Nat /\ kept <= Len(dest)
      /\ d \in Seq(Cells) /\ Len(d) \in Nat /\ records[r].end \in Int
  <2>2. records[r].end \in Int
    BY RecordFields
  <2>3. /\ kBlockSize \in Nat /\ kept \in Nat /\ Len(dest) \in Nat /\ kept <= Len(dest)
        /\ d \in Seq(Cells) /\ Len(d) \in Nat
    BY LogAssumption DEF Left, Chain
  <2> QED BY <2>2, <2>3
<1>3. PICK e \in Nat : e = EndOf(d, A)
  BY <1>1, <1>2, HeaderCells
<1>4. e <= records[r].end /\ records[r].end <= kept
  BY <1>1, <1>3 DEF Promised, Wrote
<1>5. A \in 0 .. Len(d)
  BY <1>1, <1>2 DEF IsHeader
<1>6. e <= m + kBlockSize
  <2>1. InBlock(m, A) /\ m \in 0 .. A
    BY <1>1 DEF InBlock
  <2> QED BY <1>1, <1>3, <1>5, <2>1 DEF Chain, Linked
<1>7. e <= B
  <2>1. PICK o \in 0 .. A : /\ InBlock(o, A)
                            /\ \/ B = o + kBlockSize
                               \/ eof /\ B = Len(dest) /\ B < o + kBlockSize
    BY <1>1, InItsBlock
  <2>2. o = m
    <3>1. o \in Nat /\ Boundary(o) /\ Boundary(m) /\ InBlock(m, A)
      BY <1>1, <2>1 DEF InBlock
    <3>2. o <= A /\ A < o + kBlockSize /\ m <= A /\ A < m + kBlockSize
      BY <2>1, <3>1 DEF InBlock
    <3>3. /\ o < m => o + kBlockSize <= m
          /\ m < o => m + kBlockSize <= o
      BY <3>1, Boundaries, Zenon
    <3>4. ~(o < m) /\ ~(m < o)
      BY <1>2, <3>1, <3>2, <3>3
    <3> QED BY <3>1, <3>4
  <2> QED BY <1>2, <1>4, <1>6, <2>1, <2>2
<1>8. ASSUME NEW i \in A + 1 .. e
      PROVE  i \notin damage
  <2>1. i \in Nat /\ i > A /\ i <= records[r].end
    BY <1>2, <1>4, <1>8
  <2>2. Undamaged(r)
    BY DEF Promised
  <2>3. CASE s <= A
    <3>1. PICK o \in 0 .. s : InBlock(o, s)
      BY BlockExists
    <3>2. o \in Nat /\ i > o
      BY <2>1, <2>3, <3>1
    <3> QED BY <1>1, <1>2, <2>1, <2>2, <3>1, <3>2, Clean
  <2>4. CASE InBlock(m, s)
    <3>1. i > m
      BY <1>1, <1>2, <2>1 DEF InBlock
    <3> QED BY <1>1, <1>2, <2>1, <2>2, <2>4, <3>1, Clean
  <2> QED BY <1>1, <2>3, <2>4
<1> QED BY <1>1, <1>2, <1>3, <1>4, <1>7, <1>8 DEF Undisturbed

(* The switch of ReadRecord, type by type.                                 *)
LEMMA Switch ==
    ASSUME NEW t \in Nat, NEW c, NEW size, OnRecord(t, c, size), ScanTypes
    PROVE  /\ t = kFullType => \E o : delivered' = Append(delivered, [payload |-> c, offset |-> o])
           /\ t = kFirstType => scratch' = c /\ in_fragmented_record' = TRUE /\ log_pc' = log_pc
           /\ t = kMiddleType /\ in_fragmented_record =>
                 scratch' = scratch \o c /\ in_fragmented_record' = TRUE /\ log_pc' = log_pc
           /\ t = kLastType /\ in_fragmented_record =>
                 \E o : delivered' = Append(delivered, [payload |-> scratch \o c, offset |-> o])
           /\ delivered' = delivered \/ \E z : delivered' = Append(delivered, z)
<1>1. in_fragmented_record \in BOOLEAN
  BY DEF ScanTypes
<1>2. /\ kFullType /= kFirstType /\ kFullType /= kMiddleType /\ kFullType /= kLastType
      /\ kFirstType /= kMiddleType /\ kFirstType /= kLastType /\ kMiddleType /= kLastType
  BY DEF kFullType, kFirstType, kMiddleType, kLastType
<1>3. \/ t = kFullType /\ ReturnRecord(c, physical_record_offset)
      \/ t = kFirstType /\ scratch' = c /\ in_fragmented_record' = TRUE /\ Continue
      \/ /\ t = kMiddleType
         /\ scratch' = IF in_fragmented_record THEN scratch \o c ELSE scratch
         /\ Continue /\ in_fragmented_record' = in_fragmented_record
      \/ /\ t = kLastType
         /\ IF in_fragmented_record
            THEN ReturnRecord(scratch \o c, prospective_record_offset) ELSE Continue
  <2>1. CASE /\ t = kFullType /\ ReturnRecord(c, physical_record_offset)
    BY <2>1
  <2>2. CASE t = kFirstType /\ scratch' = c /\ in_fragmented_record' = TRUE /\ Continue
    BY <2>2
  <2>3. CASE /\ t = kMiddleType
             /\ scratch' = IF in_fragmented_record THEN scratch \o c ELSE scratch
             /\ Continue /\ in_fragmented_record' = in_fragmented_record
    BY <2>3
  <2>4. CASE /\ t = kLastType
             /\ IF in_fragmented_record
                THEN ReturnRecord(IF in_fragmented_record THEN scratch \o c ELSE scratch,
                                  prospective_record_offset)
                ELSE Continue
    BY <2>4
  <2> QED BY <2>1, <2>2, <2>3, <2>4, Zenon DEF OnRecord
<1>4. \A p, o : ReturnRecord(p, o) => delivered' = Append(delivered, [payload |-> p, offset |-> o])
  BY DEF ReturnRecord
<1>5. Continue => log_pc' = log_pc /\ delivered' = delivered
  BY DEF Continue
<1>6. CASE t = kFullType /\ ReturnRecord(c, physical_record_offset)
  BY <1>2, <1>4, <1>6, Zenon
<1>7. CASE t = kFirstType /\ scratch' = c /\ in_fragmented_record' = TRUE /\ Continue
  BY <1>2, <1>5, <1>7, Zenon
<1>8. CASE /\ t = kMiddleType
           /\ scratch' = IF in_fragmented_record THEN scratch \o c ELSE scratch
           /\ Continue /\ in_fragmented_record' = in_fragmented_record
  <2>1. in_fragmented_record => scratch' = scratch \o c /\ in_fragmented_record' = TRUE
    BY <1>1, <1>8
  <2> QED BY <1>2, <1>5, <1>8, <2>1, Zenon
<1>9. CASE /\ t = kLastType
           /\ IF in_fragmented_record
              THEN ReturnRecord(scratch \o c, prospective_record_offset) ELSE Continue
  <2>1. CASE in_fragmented_record
    BY <1>2, <1>4, <1>9, <2>1, Zenon
  <2>2. CASE ~in_fragmented_record
    BY <1>2, <1>5, <1>9, <2>2, Zenon
  <2> QED BY <2>1, <2>2
<1> QED BY <1>3, <1>6, <1>7, <1>8, <1>9, Zenon

(* The fragment a record goes on with is where the reader is next.         *)
LEMMA GoesOn ==
    ASSUME NEW d, Chain(d), Left(d), RecordTypes, ScanTypes, InFile, BufferSize >= kHeaderSize,
           NEW t \in Nat, NEW n \in Nat, Accepts(d, t, n), IsHeader(d, buffer_[1]),
           buffer_[1] < kept, file_pos' = file_pos,
           NEW r \in DOMAIN records, records[r].end <= kept,
           NEW x, x.at = buffer_[1], NEW y \in Fragments, Follows(d, y, x), y.rec = r,
           FragmentIn(d, records, y)
    PROVE  Where' = y.at /\ y.at > x.at
<1>1. PICK A \in Nat : A = buffer_[1]
  BY DEF ScanTypes
<1>2. PICK z \in Nat : z = y.at
  BY DEF Fragments
<1>3. /\ kept \in Nat /\ d \in Seq(Cells) /\ kBlockSize \in Nat
  BY LogAssumption DEF Left, Chain
<1>4. PICK m \in 0 .. A : InBlock(m, A)
  BY <1>1, InItsBlock
<1>5. z = NextStart(m, EndOf(d, A))
  BY <1>1, <1>2, <1>4 DEF Follows
<1>6. z + kHeaderSize <= kept
  <2>1. IsHeader(d, z) /\ EndOf(d, z) <= records[r].end
    BY <1>2 DEF FragmentIn
  <2>2. EndOf(d, z) \in Nat /\ z + kHeaderSize <= EndOf(d, z)
    BY <1>3, <2>1, HeaderCells
  <2>3. records[r].end \in Int
    BY RecordFields
  <2> QED BY <1>3, <2>1, <2>2, <2>3 DEF kHeaderSize
<1>7. \/ Where' = NextStart(m, EndOf(d, A))
      \/ NextStart(m, EndOf(d, A)) + kHeaderSize > kept
  <2>1. m \in Nat
    BY <1>4
  <2> QED BY <1>1, <1>4, <2>1, AfterFragment
<1>8. Where' = z
  BY <1>3, <1>5, <1>6, <1>7 DEF kHeaderSize
<1>9. z > A
  <2>1. EndOf(d, A) \in Nat /\ EndOf(d, A) >= A + kHeaderSize
    BY <1>1, <1>3, HeaderCells
  <2> QED BY <1>3, <1>4, <1>5, <2>1 DEF NextStart, InBlock, kHeaderSize
<1> QED BY <1>1, <1>2, <1>8, <1>9

(* Taking a fragment of a promised record delivers the record or goes on   *)
(* inside it.                                                              *)
LEMMA Takes ==
    ASSUME NEW d, NEW F, Written(d, F), Left(d), RecordTypes, ScanTypes, InFile,
           BufferSize >= kHeaderSize, log_pc = "loop",
           NEW t \in Nat, NEW n \in Nat, Accepts(d, t, n), records' = records,
           file_pos' = file_pos,
           NEW r \in DOMAIN records, Promised(r), NEW x \in F, x.rec = r, x.at = buffer_[1],
           x.at /= records[r].start =>
              in_fragmented_record /\ scratch = PayloadCells(r, 0, x.from)
    PROVE  Delivers(delivered', r) \/ Inside(r, F)'
<1> DEFINE L == LengthAt(d, x.at)
           c == FragmentCells(n)
<1>1. /\ Chain(d) /\ x \in Fragments /\ FragmentIn(d, records, x)
      /\ records[r].ok /\ records[r].end <= kept
      /\ Ending(TypeAt(d, x.at)) \/ \E y \in F : Follows(d, y, x)
  BY DEF Written, Recorded, Promised, Wrote
<1>2. x.at \in Nat /\ x.from \in Nat /\ x.rec \in Nat
  BY <1>1 DEF Fragments
<1>3. /\ IsHeader(d, x.at) /\ PayloadAt(d, x.at) = PayloadCells(r, x.from, L)
      /\ 0 <= records[r].start /\ records[r].start <= x.at /\ EndOf(d, x.at) <= records[r].end
      /\ Starting(TypeAt(d, x.at)) <=> x.at = records[r].start
      /\ x.at = records[r].start => x.from = 0
      /\ Ending(TypeAt(d, x.at)) => x.from + L = records[r].len
  BY <1>1, Zenon DEF FragmentIn
<1>4. records[r].end \in Int /\ records[r].start \in Int /\ records[r].len \in Nat
  BY RecordFields
<1>5. /\ kept \in Nat /\ d \in Seq(Cells) /\ initial_offset \in Nat
      /\ records[r].start >= initial_offset
  BY <1>1 DEF Left, Chain, ScanTypes, Promised
<1>6. /\ TypeAt(d, x.at) \in Types /\ L \in Nat /\ EndOf(d, x.at) \in Nat
      /\ EndOf(d, x.at) >= x.at + kHeaderSize
  BY <1>2, <1>3, <1>5, HeaderCells DEF LengthAt
<1>7. x.at < kept /\ x.at >= initial_offset
  <2>1. PICK a \in Nat, e \in Nat, k \in Nat, i \in Nat, s \in Int, f \in Int :
           /\ a = x.at /\ e = EndOf(d, x.at) /\ k = kept /\ i = initial_offset
           /\ s = records[r].start /\ f = records[r].end
    BY <1>2, <1>4, <1>5, <1>6, Zenon
  <2>2. e >= a + 3 /\ e <= f /\ f <= k /\ s <= a /\ s >= i
    BY <1>1, <1>3, <1>5, <1>6, <2>1, Zenon DEF kHeaderSize
  <2>3. a < k /\ a >= i
    BY <2>2
  <2> QED BY <2>1, <2>3, Zenon
<1>8. /\ t = TypeAt(d, x.at) /\ c = PayloadCells(r, x.from, L)
      /\ \E size \in Int : OnRecord(t, c, size)
  <2>1. t = TypeAt(d, x.at) /\ c = PayloadAt(d, x.at)
    BY <1>7 DEF Accepts
  <2>2. ~(buffer_[1] < initial_offset)
    BY <1>2, <1>5, <1>7
  <2>3. \E size \in Int : OnRecord(t, c, size)
    BY <2>2, Zenon DEF Accepts
  <2> QED BY <1>3, <2>1, <2>3
<1>9. PICK size \in Int : OnRecord(t, c, size)
  BY <1>8
<1> HIDE DEF c, L
<1>10. /\ t = kFullType => \E o : delivered' = Append(delivered, [payload |-> c, offset |-> o])
       /\ t = kFirstType => scratch' = c /\ in_fragmented_record' = TRUE /\ log_pc' = log_pc
       /\ t = kMiddleType /\ in_fragmented_record =>
             scratch' = scratch \o c /\ in_fragmented_record' = TRUE /\ log_pc' = log_pc
       /\ t = kLastType /\ in_fragmented_record =>
             \E o : delivered' = Append(delivered, [payload |-> scratch \o c, offset |-> o])
  BY <1>9, Switch, Zenon
<1>11. ASSUME NEW p, NEW o, delivered' = Append(delivered, [payload |-> p, offset |-> o]),
              p = PayloadCells(r, 0, x.from + L), x.from + L = records[r].len
       PROVE  Delivers(delivered', r)
  <2>1. PICK S : delivered \in Seq(S)
    BY DEF ScanTypes
  <2> DEFINE z == [payload |-> p, offset |-> o]
  <2>2. z.payload = LogRecord(r)
    BY <1>11 DEF LogRecord
  <2> HIDE DEF z
  <2>3. /\ Len(delivered) + 1 \in DOMAIN Append(delivered, z)
        /\ Append(delivered, z)[Len(delivered) + 1] = z
    BY <2>1
  <2>4. delivered' = Append(delivered, z)
    BY <1>11 DEF z
  <2> QED BY <2>2, <2>3, <2>4 DEF Delivers
<1>12. ASSUME ~Ending(t), scratch' = PayloadCells(r, 0, x.from + L),
              in_fragmented_record' = TRUE, log_pc' = log_pc
       PROVE  Inside(r, F)'
  <2>1. PICK y \in F : Follows(d, y, x)
    BY <1>1, <1>8, <1>12
  <2>2. y \in Fragments /\ FragmentIn(d, records, y)
    BY DEF Written, Recorded
  <2>3. y.rec = r /\ y.from = x.from + L
    BY <2>1 DEF Follows, L
  <2>4. Where' = y.at /\ y.at > x.at
    BY <1>1, <1>3, <1>7, <2>1, <2>2, <2>3, GoesOn
  <2>5. y.at \in Nat
    BY <2>2 DEF Fragments
  <2>6. y.at /= records[r].start
    BY <1>2, <1>3, <1>4, <2>4, <2>5
  <2> QED BY <1>12, <2>3, <2>4, <2>6 DEF Inside
<1>13. CASE x.at = records[r].start
  <2>1. x.from = 0 /\ c = PayloadCells(r, 0, x.from + L) /\ x.from + L = L
    BY <1>3, <1>6, <1>8, <1>13
  <2>2. t \in {kFullType, kFirstType}
    BY <1>3, <1>8, <1>13 DEF Starting
  <2>3. CASE t = kFullType
    <3>1. Ending(t)
      BY <2>3 DEF Ending
    <3> QED BY <1>3, <1>8, <1>10, <1>11, <2>1, <2>3, <3>1
  <2>4. CASE t = kFirstType
    <3>1. ~Ending(t)
      BY <2>4 DEF Ending, kFirstType, kFullType, kLastType
    <3> QED BY <1>10, <1>12, <2>1, <2>4, <3>1
  <2> QED BY <2>2, <2>3, <2>4
<1>14. CASE x.at /= records[r].start
  <2>1. in_fragmented_record /\ scratch = PayloadCells(r, 0, x.from)
    BY <1>14
  <2>2. scratch \o c = PayloadCells(r, 0, x.from + L)
    <3>1. r \in Nat
      BY <1>2
    <3> QED BY <1>2, <1>6, <1>8, <2>1, <3>1, PayloadsJoin, ZenonT(60)
  <2>3. t \in {kMiddleType, kLastType}
    BY <1>3, <1>6, <1>8, <1>14 DEF Starting, Types, kFullType, kFirstType, kMiddleType, kLastType
  <2>4. CASE t = kMiddleType
    <3>1. ~Ending(t)
      BY <2>4 DEF Ending, kMiddleType, kFullType, kLastType
    <3> QED BY <1>10, <1>12, <2>1, <2>2, <2>4, <3>1
  <2>5. CASE t = kLastType
    <3>1. Ending(t)
      BY <2>5 DEF Ending
    <3> QED BY <1>3, <1>8, <1>10, <1>11, <2>1, <2>2, <2>5, <3>1
  <2> QED BY <2>3, <2>4, <2>5
<1> QED BY <1>13, <1>14

(* The reader passes a promised record only by delivering it.              *)
LEMMA PassesNothing ==
    ASSUME NEW d, NEW F, Written(d, F), Left(d), RecordTypes, ScanTypes, InFile,
           BufferSize >= kHeaderSize, log_pc = "loop", Where < kept => IsHeader(d, Where),
           records' = records, file_pos' = file_pos, log_pc' \in {"call", "loop"},
           Accepted(d) \/ Dropped, Undisturbed(d) => Accepted(d),
           NEW r \in DOMAIN records, Promised(r), NEW x \in F, x.rec = r,
           x.at = records[r].start, Where < x.at
    PROVE  Where' <= x.at
<1>1. PICK A \in Nat, B \in Nat : A = buffer_[1] /\ B = buffer_[2]
  BY DEF ScanTypes
<1>2. /\ x \in Fragments /\ FragmentIn(d, records, x) /\ Chain(d)
      /\ records[r].end <= kept
  BY DEF Written, Recorded, Promised, Wrote
<1>3. PICK s \in Nat : s = x.at
  BY <1>2 DEF Fragments
<1>4. IsHeader(d, s) /\ EndOf(d, s) <= records[r].end /\ s = records[r].start
  BY <1>2, <1>3 DEF FragmentIn
<1>5. /\ kept \in Nat /\ d \in Seq(Cells) /\ kBlockSize \in Nat /\ Len(dest) \in Nat
      /\ kept <= Len(dest) /\ Len(d) \in Nat /\ kept <= Len(d)
  BY <1>2, LogAssumption DEF Left, Chain
<1>6. records[r].end \in Int
  BY RecordFields
<1>7. EndOf(d, s) \in Nat /\ s + 3 <= EndOf(d, s) /\ EndOf(d, s) <= kept
  <2>1. EndOf(d, s) \in Nat /\ s + 3 <= EndOf(d, s)
    BY <1>4, <1>5, HeaderCells DEF kHeaderSize
  <2> QED BY <1>2, <1>4, <1>5, <1>6, <2>1
<1>8. A + 3 <= B /\ Where = A
  <2>1. A + 3 <= B
    BY <1>1 DEF BufferSize, kHeaderSize
  <2>2. Where = buffer_[1]
    BY Zenon DEF Where
  <2> QED BY <1>1, <2>1, <2>2
<1>9. A < s /\ A < kept /\ IsHeader(d, A)
  <2>1. A < s
    BY <1>3, <1>8
  <2>2. A < kept
    BY <1>5, <1>7, <2>1
  <2> QED BY <1>8, <2>1, <2>2
<1>10. EndOf(d, A) <= s
  BY <1>2, <1>4, <1>9, Apart
<1>11. PICK m \in 0 .. A : /\ InBlock(m, A)
                           /\ \/ B = m + kBlockSize
                              \/ eof /\ B = Len(dest) /\ B < m + kBlockSize
  BY <1>1, InItsBlock
<1>12. file_pos = B
  BY <1>1 DEF InFile
<1>13. EndOf(d, A) \in Nat /\ A + 3 <= EndOf(d, A)
  BY <1>5, <1>9, HeaderCells DEF kHeaderSize
<1>14. CASE m + kBlockSize <= s
  <2>1. B <= s
    BY <1>5, <1>11, <1>14
  <2>2. PICK e : buffer_' = <<e, B>> /\ e \in Nat /\ e <= B
    <3>1. CASE Dropped
      BY <1>1, <3>1 DEF Dropped
    <3>2. ASSUME NEW t \in Nat, NEW n \in Nat, Accepts(d, t, n)
          PROVE  \E e : buffer_' = <<e, B>> /\ e \in Nat /\ e <= B
      <4>1. buffer_' = <<A + kHeaderSize + n, B>> /\ A + kHeaderSize + n <= B
        BY <1>1, <3>2 DEF Accepts
      <4>2. A + kHeaderSize + n \in Nat
        BY DEF kHeaderSize
      <4> QED BY <4>1, <4>2
    <3> QED BY <3>1, <3>2 DEF Accepted
  <2>3. Where' = e \/ Where' = B
    BY <1>12, <2>2 DEF Where
  <2> QED BY <1>3, <2>1, <2>2, <2>3
<1>15. CASE s < m + kBlockSize
  <2>1. InBlock(m, s)
    BY <1>5, <1>9, <1>11, <1>15 DEF InBlock
  <2>2. m \in Nat /\ Undisturbed(d)
    <3>1. m \in Nat
      BY <1>11
    <3>2. EndOf(d, A) <= records[r].end
      BY <1>4, <1>6, <1>7, <1>10, <1>13
    <3> QED BY <1>1, <1>2, <1>3, <1>4, <1>9, <1>10, <1>11, <2>1, <3>1, <3>2, Reached
  <2>3. PICK t \in Nat, n \in Nat : Accepts(d, t, n)
    BY <2>2 DEF Accepted
  <2>4. \/ Where' = NextStart(m, EndOf(d, A))
        \/ NextStart(m, EndOf(d, A)) + kHeaderSize > kept
    BY <1>1, <1>2, <1>9, <1>11, <2>2, <2>3, AfterFragment
  <2>5. EndOf(d, s) <= m + kBlockSize
    <3>1. m \in 0 .. s /\ s \in 0 .. Len(d)
      BY <1>4, <1>5, <2>1, <2>2 DEF InBlock, IsHeader
    <3> QED BY <1>2, <1>4, <2>1, <3>1 DEF Chain, Linked
  <2>6. NextStart(m, EndOf(d, A)) = EndOf(d, A)
    BY <1>5, <1>7, <1>10, <1>13, <2>2, <2>5, SMTT(30) DEF NextStart, kHeaderSize
  <2>7. Where' = EndOf(d, A)
    BY <1>5, <1>7, <1>10, <1>13, <2>4, <2>6 DEF kHeaderSize
  <2> QED BY <1>3, <1>10, <2>7
<1> QED BY <1>5, <1>14, <1>15

(* What a promised record consists of.                                     *)
LEMMA PromisedIn ==
    ASSUME NEW d, NEW F, Written(d, F), Left(d), RecordTypes,
           NEW r \in DOMAIN records, Promised(r)
    PROVE  /\ records[r].end \in Int /\ records[r].start \in Nat
           /\ \E x \in F : x.rec = r /\ x.at = records[r].start
           /\ \A x \in F : x.rec = r => /\ x.at + 3 <= kept /\ IsHeader(d, x.at)
                                        /\ EndOf(d, x.at) <= records[r].end
                                        /\ x.at >= records[r].start /\ x.at \in Nat
<1>1. records[r].ok /\ records[r].end <= kept
  BY DEF Promised, Wrote
<1>2. \E x \in F : x.rec = r /\ x.at = records[r].start
  BY <1>1 DEF Written, Recorded
<1>3. /\ records[r].end \in Int /\ records[r].start \in Int
      /\ kept \in Nat /\ d \in Seq(Cells)
  <2>1. records[r].end \in Int /\ records[r].start \in Int
    BY RecordFields
  <2> QED BY <2>1 DEF Written, Left, Chain
<1>4. ASSUME NEW x \in F, x.rec = r
      PROVE  /\ x.at + 3 <= kept /\ IsHeader(d, x.at) /\ EndOf(d, x.at) <= records[r].end
             /\ x.at >= records[r].start /\ x.at \in Nat /\ records[r].start \in Nat
  <2>1. x \in Fragments /\ FragmentIn(d, records, x)
    BY DEF Written, Recorded
  <2>2. x.at \in Nat
    BY <2>1 DEF Fragments
  <2>3. /\ IsHeader(d, x.at) /\ EndOf(d, x.at) <= records[r].end
        /\ 0 <= records[r].start /\ records[r].start <= x.at
    BY <1>4, <2>1 DEF FragmentIn
  <2>4. EndOf(d, x.at) \in Nat /\ x.at + 3 <= EndOf(d, x.at)
    BY <1>3, <2>2, <2>3, HeaderCells DEF kHeaderSize
  <2> QED BY <1>1, <1>3, <2>2, <2>3, <2>4
<1> QED BY <1>2, <1>3, <1>4

(* Reading the buffer keeps what has been promised.                        *)
LEMMA ReadsOn ==
    ASSUME NEW d, NEW F, Quiet(d, F), Scanning(d), log_pc = "loop", ReadPhysicalRecord
    PROVE  Quiet(d, F)'
<1>1. /\ RecordTypes /\ Written(d, F) /\ Left(d) /\ Progress(F) /\ Chain(d)
      /\ ScanTypes /\ (Unread \/ InFile \/ PastFile) /\ (Where < kept => IsHeader(d, Where))
  BY DEF Quiet, Scanning, Written
<1>2. /\ records' = records /\ dest' = dest /\ kept' = kept /\ damage' = damage
      /\ file_pos' = file_pos /\ initial_offset' = initial_offset
  BY DEF ReadPhysicalRecord, writer, media
<1>3. RecordTypes' /\ Written(d, F)' /\ Left(d)'
  <2>1. RecordTypes' /\ Left(d)'
    BY <1>1, <1>2 DEF RecordTypes, Left
  <2>2. Written(d, F)'
    BY <1>1, <1>2 DEF Written
  <2> QED BY <2>1, <2>2
<1>4. ASSUME NEW r
      PROVE  /\ Promised(r)' <=> Promised(r)
             /\ Delivers(delivered, r)' <=> Delivers(delivered', r)
  <2>1. Promised(r)' <=> Promised(r)
    BY <1>2 DEF Promised, Wrote, Undamaged
  <2>2. Delivers(delivered, r)' <=> Delivers(delivered', r)
    BY <1>2 DEF Delivers, LogRecord
  <2> QED BY <2>1, <2>2
<1>5. PICK A \in Nat, B \in Nat : A = buffer_[1] /\ B = buffer_[2]
  BY <1>1 DEF ScanTypes
<1>6. /\ kept \in Nat /\ d \in Seq(Cells) /\ Len(dest) \in Nat /\ kept <= Len(dest)
      /\ file_pos \in Nat /\ Len(d) \in Nat
  BY <1>1 DEF Left, Chain, ScanTypes
<1>7. BufferSize = B - A
  BY <1>5 DEF BufferSize
<1>8. ASSUME NEW r \in DOMAIN records, Promised(r)
      PROVE  /\ records[r].end \in Int /\ records[r].start \in Nat
             /\ \E x \in F : x.rec = r /\ x.at = records[r].start
             /\ \A x \in F : x.rec = r => /\ x.at + 3 <= kept /\ IsHeader(d, x.at)
                                          /\ EndOf(d, x.at) <= records[r].end
                                          /\ x.at >= records[r].start /\ x.at \in Nat
  BY <1>1, <1>8, PromisedIn
<1>9. CASE BufferSize < kHeaderSize
  <2>1. eof /\ OnEof(reports) /\ B - A < 3
    <3>1. ~(BufferSize >= kHeaderSize)
      BY <1>7, <1>9 DEF kHeaderSize
    <3> QED BY <1>7, <1>9, <3>1 DEF ReadPhysicalRecord, kHeaderSize
  <2>2. log_pc' = "done" /\ delivered' = delivered
    BY <2>1 DEF OnEof
  <2>3. Where >= kept
    <3>1. Where = file_pos
      BY <1>7, <2>1 DEF Where, kHeaderSize
    <3>2. InFile \/ PastFile
      BY <1>1, <2>1 DEF Unread
    <3>3. InFile => file_pos = Len(dest)
      BY <2>1 DEF InFile
    <3>4. PastFile => file_pos > Len(dest)
      BY DEF PastFile
    <3> QED BY <1>6, <3>1, <3>2, <3>3, <3>4
  <2>4. ASSUME NEW r \in DOMAIN records, Promised(r)
        PROVE  Delivers(delivered, r)
    <3>1. Where \in Nat
      BY <1>5, <1>6 DEF Where
    <3>2. ~(Where <= records[r].start)
      <4>1. PICK x \in F : x.rec = r /\ x.at = records[r].start
        BY <1>8, <2>4
      <4>2. records[r].start + 3 <= kept /\ records[r].start \in Nat
        BY <1>8, <2>4, <4>1
      <4> QED BY <1>6, <2>3, <3>1, <4>2
    <3>3. ~Inside(r, F)
      <4>1. SUFFICES ASSUME NEW x \in F, x.rec = r, x.at = Where PROVE FALSE
        BY DEF Inside
      <4>2. Where + 3 <= kept
        BY <1>8, <2>4, <4>1
      <4> QED BY <1>6, <2>3, <3>1, <4>2
    <3> QED BY <1>1, <2>4, <3>2, <3>3 DEF Progress
  <2>5. Progress(F)'
    BY <1>2, <1>4, <2>2, <2>4 DEF Progress
  <2> QED BY <1>3, <2>2, <2>5 DEF Quiet
<1>10. CASE BufferSize >= kHeaderSize
  <2>1. InFile
    <3>1. B - A >= 3
      BY <1>7, <1>10 DEF kHeaderSize
    <3>2. ~Unread
      BY <1>5, <3>1 DEF Unread
    <3>3. ~PastFile
      BY <1>7, <3>1 DEF PastFile
    <3> QED BY <1>1, <3>2, <3>3
  <2>2. /\ Accepted(d) \/ Dropped \/ Ended
        /\ Undisturbed(d) => Accepted(d)
    BY <1>1, <1>10, <2>1, Outcomes
  <2>3. Accepted(d) \/ Dropped => log_pc' \in {"call", "loop"} /\ Scanning(d)'
    BY <1>1, <1>10, <2>1, ScanKeeps
  <2>4. \A r : Delivers(delivered, r) => Delivers(delivered', r)
    <3>1. delivered' = delivered \/ \E z : delivered' = Append(delivered, z)
      <4>1. ASSUME NEW t \in Nat, NEW c, NEW size, OnRecord(t, c, size)
            PROVE  delivered' = delivered \/ \E z : delivered' = Append(delivered, z)
        BY <1>1, <4>1, Switch, Zenon
      <4> QED BY <2>2, <4>1, Zenon DEF Accepted, Accepts, Dropped, Skip, Ended
    <3>2. PICK S : delivered \in Seq(S)
      BY <1>1 DEF ScanTypes
    <3>3. ASSUME NEW r, NEW z, NEW i \in DOMAIN delivered, delivered[i].payload = LogRecord(r),
                 delivered' = Append(delivered, z)
          PROVE  i \in DOMAIN delivered' /\ delivered'[i] = delivered[i]
      BY <3>2, <3>3
    <3> QED BY <3>1, <3>3 DEF Delivers
  <2>5. ASSUME NEW r \in DOMAIN records, Promised(r)
        PROVE  \/ Delivers(delivered', r)
               \/ log_pc' /= "done" /\ Where' <= records[r].start
               \/ Inside(r, F)'
    <3>1. ASSUME NEW x \in F, x.rec = r, x.at = A,
                 x.at /= records[r].start =>
                    in_fragmented_record /\ scratch = PayloadCells(r, 0, x.from)
          PROVE  Delivers(delivered', r) \/ Inside(r, F)'
      <4>1. PICK m \in 0 .. A : InBlock(m, A)
        BY <1>1, <1>5, <1>10, <2>1, InItsBlock
      <4>2. Undisturbed(d)
        <5>1. m \in Nat /\ records[r].start <= A /\ IsHeader(d, A)
              /\ EndOf(d, A) <= records[r].end /\ records[r].start \in Nat
          BY <1>8, <2>5, <3>1, <4>1
        <5> QED BY <1>1, <1>5, <1>10, <2>1, <2>5, <4>1, <5>1, Reached
      <4>3. PICK t \in Nat, n \in Nat : Accepts(d, t, n)
        BY <2>2, <4>2 DEF Accepted
      <4> QED BY <1>1, <1>2, <1>5, <1>10, <2>1, <2>5, <3>1, <4>3, Takes
    <3>2. Where = A
      <4>1. Where = buffer_[1]
        BY <1>10, Zenon DEF Where
      <4> QED BY <1>5, <4>1
    <3>3. CASE Delivers(delivered, r)
      BY <2>4, <3>3
    <3>4. CASE Inside(r, F)
      <4>1. PICK x \in F : /\ x.rec = r /\ x.at = Where /\ x.at /= records[r].start
                           /\ scratch = PayloadCells(r, 0, x.from)
        BY <3>4 DEF Inside
      <4>2. in_fragmented_record
        BY <3>4 DEF Inside
      <4> QED BY <3>1, <3>2, <4>1, <4>2
    <3>5. CASE Where <= records[r].start
      <4>1. PICK x \in F : x.rec = r /\ x.at = records[r].start
        BY <1>8, <2>5
      <4>2. x.at \in Nat /\ x.at + 3 <= kept
        BY <1>8, <2>5, <4>1
      <4>3. CASE A = x.at
        BY <3>1, <4>1, <4>3
      <4>4. CASE A < x.at
        <5>1. Accepted(d) \/ Dropped
          <6>1. SUFFICES ASSUME Ended PROVE Accepted(d)
            BY <2>2
          <6>2. A < kept /\ IsHeader(d, A)
            BY <1>1, <1>6, <3>2, <4>2, <4>4
          <6>3. B = Len(dest) /\ eof
            BY <1>5, <2>1, <6>1 DEF Ended, InFile
          <6>4. PICK m \in 0 .. A : InBlock(m, A) /\ B <= m + kBlockSize
            <7>1. kBlockSize \in Nat
              BY LogAssumption
            <7>2. PICK m \in 0 .. A : /\ InBlock(m, A)
                                      /\ B = m + kBlockSize \/ B < m + kBlockSize
              BY <1>1, <1>5, <1>10, <2>1, InItsBlock
            <7> QED BY <7>1, <7>2
          <6>5. PICK s \in Nat : s = x.at
            BY <4>2
          <6>6. InBlock(m, s) /\ m \in Nat
            <7>1. kBlockSize \in Nat
              BY LogAssumption
            <7>2. s < m + kBlockSize /\ m <= s
              BY <1>6, <4>2, <4>4, <6>3, <6>4, <6>5, <7>1
            <7>3. Boundary(m)
              BY <6>4 DEF InBlock
            <7> QED BY <6>4, <7>2, <7>3 DEF InBlock
          <6>7. IsHeader(d, s) /\ s = records[r].start
            BY <1>8, <2>5, <4>1, <6>5
          <6>8. EndOf(d, A) <= s
            BY <1>1, <4>4, <6>2, <6>5, <6>7, Apart
          <6>9. EndOf(d, A) <= records[r].end
            <7>1. EndOf(d, A) \in Nat
              BY <1>6, <6>2, HeaderCells
            <7>2. EndOf(d, s) \in Nat /\ s <= EndOf(d, s)
              BY <1>6, <6>7, HeaderCells DEF kHeaderSize
            <7>3. EndOf(d, s) <= records[r].end /\ records[r].end \in Int
              BY <1>8, <2>5, <4>1, <6>5
            <7> QED BY <6>8, <7>1, <7>2, <7>3
          <6>10. Undisturbed(d)
            BY <1>1, <1>5, <1>10, <2>1, <2>5, <6>2, <6>4, <6>5, <6>6, <6>7, <6>8, <6>9, Reached
          <6> QED BY <2>2, <6>10
        <5>2. log_pc' \in {"call", "loop"} /\ "call" /= "done" /\ "loop" /= "done"
          BY <2>3, <5>1
        <5>3. Where' <= x.at
          BY <1>1, <1>2, <1>10, <2>1, <2>2, <2>5, <3>2, <4>1, <4>4, <5>1, <5>2, PassesNothing
        <5> QED BY <4>1, <5>2, <5>3
      <4> QED BY <3>2, <3>5, <4>1, <4>2, <4>3, <4>4
    <3> QED BY <1>1, <2>5, <3>3, <3>4, <3>5 DEF Progress
  <2>6. Progress(F)'
    BY <1>2, <1>4, <2>5 DEF Progress
  <2>7. log_pc' \in {"call", "loop"} => Scanning(d)'
    <3>1. Ended => log_pc' = "done"
      BY DEF Ended
    <3>2. "done" \notin {"call", "loop"}
      OBVIOUS
    <3> QED BY <2>2, <2>3, <3>1, <3>2
  <2> QED BY <1>3, <2>6, <2>7 DEF Quiet
<1> QED BY <1>7, <1>9, <1>10 DEF kHeaderSize

(* A step that delivers nothing, and moves the reader neither past a       *)
(* promised record nor away from one it is inside, keeps the promises.     *)
LEMMA Waits ==
    ASSUME NEW d, NEW F, Written(d, F), Left(d), RecordTypes, Progress(F), Chain(d),
           Where \in Nat, Where' \in Nat, log_pc' = "loop", delivered' = delivered,
           UNCHANGED <<records, dest, kept, damage, initial_offset>>,
           \A r \in DOMAIN records : Promised(r) /\ Where <= records[r].start
                => Where' <= records[r].start,
           Where + 3 <= kept /\ log_pc = "loop" =>
              Where' = Where /\ UNCHANGED <<scratch, in_fragmented_record>>
    PROVE  RecordTypes' /\ Written(d, F)' /\ Left(d)' /\ Progress(F)'
<1>1. RecordTypes' /\ Written(d, F)' /\ Left(d)'
  BY DEF RecordTypes, Written, Left
<1>2. ASSUME NEW r
      PROVE  /\ Promised(r)' <=> Promised(r)
             /\ Delivers(delivered, r)' <=> Delivers(delivered, r)
  <2>1. Promised(r)' <=> Promised(r)
    BY DEF Promised, Wrote, Undamaged
  <2>2. Delivers(delivered, r)' <=> Delivers(delivered, r)
    BY DEF Delivers, LogRecord
  <2> QED BY <2>1, <2>2
<1>3. ASSUME NEW r \in DOMAIN records, Promised(r)
      PROVE  \/ Delivers(delivered, r)
             \/ log_pc' /= "done" /\ Where' <= records[r].start
             \/ Inside(r, F)'
  <2>1. CASE Delivers(delivered, r)
    BY <2>1
  <2>2. CASE Where <= records[r].start
    BY <1>3, <2>2
  <2>3. CASE Inside(r, F)
    <3>1. PICK x \in F : x.rec = r /\ x.at = Where
      BY <2>3 DEF Inside
    <3>2. Where + 3 <= kept
      BY <1>3, <3>1, PromisedIn
    <3>3. log_pc = "loop"
      BY <2>3 DEF Inside
    <3>4. Where' = Where /\ UNCHANGED <<scratch, in_fragmented_record>>
      BY <3>2, <3>3
    <3> QED BY <2>3, <3>3, <3>4 DEF Inside
  <2> QED BY <1>3, <2>1, <2>2, <2>3 DEF Progress
<1>4. Progress(F)'
  BY <1>2, <1>3 DEF Progress
<1> QED BY <1>1, <1>4

(* The next block comes into the buffer.                                   *)
LEMMA RefillsOn ==
    ASSUME NEW d, NEW F, Quiet(d, F), Scanning(d), Refill,
           log_failures \in Nat, log_failures' = log_failures
    PROVE  Quiet(d, F)'
<1>1. /\ RecordTypes /\ Written(d, F) /\ Left(d) /\ Progress(F) /\ Chain(d)
      /\ ScanTypes /\ (Unread \/ InFile \/ PastFile) /\ (Where < kept => IsHeader(d, Where))
  BY DEF Quiet, Scanning, Written
<1> DEFINE from == IF file_pos > Len(dest) THEN Len(dest) ELSE file_pos
           to   == IF Len(dest) - from < kBlockSize THEN Len(dest) ELSE from + kBlockSize
<1>2. /\ log_pc = "loop" /\ BufferSize < kHeaderSize /\ ~eof
      /\ buffer_' = <<from, to>>
      /\ file_pos' = IF file_pos > Len(dest) THEN file_pos ELSE to
      /\ end_of_buffer_offset' = end_of_buffer_offset + (to - from)
      /\ eof' = AtEof(to - from)
      /\ UNCHANGED <<log_pc, last_record_offset, delivered, in_fragmented_record, scratch,
                     prospective_record_offset>>
      /\ UNCHANGED <<writer, media, initial_offset, physical_record_offset>>
  BY DEF Refill
<1>3. /\ records' = records /\ dest' = dest /\ kept' = kept /\ damage' = damage
      /\ initial_offset' = initial_offset /\ physical_record_offset' = physical_record_offset
      /\ log_pc' = "loop" /\ delivered' = delivered
      /\ last_record_offset' = last_record_offset
      /\ in_fragmented_record' = in_fragmented_record /\ scratch' = scratch
      /\ prospective_record_offset' = prospective_record_offset
  BY <1>2 DEF writer, media
<1>4. PICK L \in Nat, K \in Nat, p \in Nat, A \in Nat, b \in Nat, B \in Nat :
         /\ L = Len(dest) /\ K = kept /\ p = file_pos /\ A = buffer_[1] /\ b = buffer_[2]
         /\ B = kBlockSize
  <2>1. /\ Len(dest) \in Nat /\ kept \in Nat /\ file_pos \in Nat /\ buffer_[1] \in Nat
        /\ buffer_[2] \in Nat /\ kBlockSize \in Nat
    BY <1>1, LogAssumption DEF Left, Chain, ScanTypes
  <2> QED BY <2>1
<1>5. B > 6 /\ K <= L /\ K <= Len(d) /\ initial_offset \in Nat
  BY <1>1, <1>4, LogAssumption DEF Left, Chain, ScanTypes, kHeaderSize
<1>6. Where = p
  <2>1. BufferSize = b - A
    BY <1>4 DEF BufferSize
  <2> QED BY <1>2, <1>4, <2>1 DEF Where, kHeaderSize
<1>7. Unread \/ InFile
  BY <1>1, <1>2 DEF PastFile
<1>8. /\ end_of_buffer_offset = p /\ Boundary(p)
      /\ initial_offset + 2 <= p + B
      /\ in_fragmented_record => prospective_record_offset >= initial_offset
      /\ physical_record_offset >= initial_offset \/ physical_record_offset = p
  <2>1. CASE Unread
    BY <1>2, <1>4, <2>1 DEF Unread
  <2>2. CASE InFile
    <3>1. ~(BufferSize >= kHeaderSize)
      <4>1. BufferSize = b - A
        BY <1>4 DEF BufferSize
      <4> QED BY <1>2, <4>1 DEF kHeaderSize
    <3>2. p = b /\ end_of_buffer_offset = b /\ Boundary(b) /\ initial_offset + 2 <= b
      BY <1>2, <1>4, <2>2 DEF InFile
    <3>3. /\ in_fragmented_record => prospective_record_offset >= initial_offset
          /\ physical_record_offset >= initial_offset
      BY <1>2, <2>2, <3>1 DEF InFile
    <3>4. initial_offset + 2 <= p + B
      BY <1>5, <3>2
    <3> QED BY <3>2, <3>3, <3>4
  <2> QED BY <1>7, <2>1, <2>2
<1>9. CASE p > L
  <2>1. from = L /\ to = L
    BY <1>4, <1>5, <1>9
  <2> HIDE DEF from, to
  <2>2. buffer_' = <<L, L>> /\ file_pos' = p /\ BufferSize' = 0 /\ eof' = TRUE
        /\ end_of_buffer_offset' = p
    <3>1. buffer_' = <<L, L>> /\ file_pos' = p
      BY <1>2, <1>4, <1>9, <2>1
    <3>2. end_of_buffer_offset' = p + (L - L)
      BY <1>2, <1>8, <2>1
    <3>3. eof' = (L - L < B)
      BY <1>2, <1>4, <2>1 DEF AtEof
    <3>4. (L - L < B) = TRUE
      BY <1>5
    <3>5. eof' = TRUE
      BY <3>3, <3>4, Zenon
    <3>6. p + (L - L) = p /\ L - L = 0
      OBVIOUS
    <3> QED BY <3>1, <3>2, <3>5, <3>6 DEF BufferSize
  <2>3. Where' = p
    BY <2>2 DEF Where, kHeaderSize
  <2>4. PastFile'
    BY <1>3, <1>4, <1>9, <2>2 DEF PastFile
  <2>5. ScanTypes'
    BY <1>1, <1>3, <2>2 DEF ScanTypes
  <2>6. Scanning(d)'
    BY <1>1, <1>3, <1>6, <2>3, <2>4, <2>5 DEF Scanning
  <2>7. RecordTypes' /\ Written(d, F)' /\ Left(d)' /\ Progress(F)'
    BY <1>1, <1>3, <1>6, <2>3, Waits
  <2> QED BY <2>6, <2>7 DEF Quiet
<1>10. CASE p <= L
  <2>1. from = p /\ to = IF L - p < B THEN L ELSE p + B
    BY <1>4, <1>10
  <2> HIDE DEF from, to
  <2>2. PICK q \in Nat : q = to
    BY <1>10, <2>1
  <2>3. p <= q /\ q <= L /\ (q = L \/ q = p + B) /\ (q < p + B => q = L)
        /\ q <= p + B
    BY <1>10, <2>1, <2>2
  <2>4. /\ buffer_' = <<p, q>> /\ file_pos' = q /\ end_of_buffer_offset' = q
        /\ eof' \in BOOLEAN /\ (eof' <=> q - p < B) /\ BufferSize' = q - p
    <3>1. file_pos' = q /\ buffer_' = <<p, q>>
      BY <1>2, <1>4, <1>10, <2>1, <2>2
    <3>2. end_of_buffer_offset' = p + (q - p)
      BY <1>2, <1>8, <2>1, <2>2
    <3>3. eof' = (q - p < B)
      BY <1>2, <1>4, <2>1, <2>2 DEF AtEof
    <3>4. eof' \in BOOLEAN /\ (eof' <=> q - p < B)
      <4>1. CASE q - p < B
        <5>1. (q - p < B) = TRUE
          BY <4>1
        <5>2. eof' = TRUE
          BY <3>3, <5>1, Zenon
        <5> QED BY <4>1, <5>2
      <4>2. CASE ~(q - p < B)
        <5>1. (q - p < B) = FALSE
          BY <4>2
        <5>2. eof' = FALSE
          BY <3>3, <5>1, Zenon
        <5> QED BY <4>2, <5>2
      <4> QED BY <4>1, <4>2
    <3> QED BY <3>1, <3>2, <3>4 DEF BufferSize
  <2>5. Where' = IF q - p >= 3 THEN p ELSE q
    BY <2>4 DEF Where, kHeaderSize
  <2>6. ~eof' => q = p + B
    BY <2>3, <2>4
  <2>7. InFile'
    <3>1. IF eof' THEN buffer_'[2] = Len(dest')
                 ELSE Boundary(buffer_'[2]) /\ initial_offset' + 2 <= buffer_'[2]
      <4>1. CASE eof'
        BY <1>3, <1>4, <2>3, <2>4, <4>1
      <4>2. CASE ~eof'
        <5>1. q = p + B /\ Boundary(p + B)
          BY <1>4, <1>8, <2>6, <4>2, Boundaries
        <5> QED BY <1>3, <1>8, <2>4, <4>2, <5>1
      <4> QED BY <4>1, <4>2
    <3>2. \E m \in 0 .. buffer_'[1] :
             /\ Boundary(m)
             /\ buffer_'[2] = m + kBlockSize \/ (eof' /\ buffer_'[2] < m + kBlockSize)
      BY <1>4, <1>8, <2>3, <2>4
    <3>3. \/ physical_record_offset' >= initial_offset'
          \/ BufferSize' >= kHeaderSize /\ physical_record_offset' = buffer_'[1]
          \/ BufferSize' < kHeaderSize /\ eof'
      <4>1. CASE q - p >= 3
        BY <1>3, <1>8, <2>4, <4>1 DEF kHeaderSize
      <4>2. CASE ~(q - p >= 3)
        BY <1>5, <2>4, <4>2 DEF kHeaderSize
      <4> QED BY <4>1, <4>2
    <3>4. /\ file_pos' = buffer_'[2] /\ end_of_buffer_offset' = buffer_'[2]
          /\ buffer_'[1] <= buffer_'[2] /\ buffer_'[2] <= Len(dest')
      BY <1>3, <1>4, <2>3, <2>4
    <3>5. /\ in_fragmented_record' => prospective_record_offset' >= initial_offset'
          /\ log_pc' /= "call"
      BY <1>3, <1>8
    <3> QED BY <3>1, <3>2, <3>3, <3>4, <3>5, Zenon DEF InFile
  <2>8. ScanTypes'
    BY <1>1, <1>3, <2>4 DEF ScanTypes
  <2>9. p + 3 <= K => Where' = p
    BY <1>5, <2>3, <2>5
  <2>10. Where' < kept' => Where' = p
    BY <1>3, <1>4, <1>5, <2>3, <2>5, <1>10
  <2>11. Scanning(d)'
    <3>1. Where' < kept' => IsHeader(d, Where')
      BY <1>1, <1>3, <1>6, <2>10
    <3> QED BY <2>7, <2>8, <3>1 DEF Scanning
  <2>12. \A r \in DOMAIN records : Promised(r) /\ Where <= records[r].start
                => Where' <= records[r].start
    <3> SUFFICES ASSUME NEW r \in DOMAIN records, Promised(r), p <= records[r].start
                 PROVE  Where' <= records[r].start
      BY <1>6
    <3>1. records[r].start \in Nat /\ records[r].start + 3 <= K
      BY <1>1, <1>4, PromisedIn
    <3> QED BY <2>9, <3>1
  <2>13. RecordTypes' /\ Written(d, F)' /\ Left(d)' /\ Progress(F)'
    <3>1. Where \in Nat /\ Where' \in Nat
      BY <1>6, <2>5
    <3>2. Where + 3 <= kept => Where' = Where
      BY <1>4, <1>6, <2>9
    <3> QED BY <1>1, <1>3, <2>12, <3>1, <3>2, Waits
  <2> QED BY <2>11, <2>13 DEF Quiet
<1> QED BY <1>9, <1>10

(* The block the reader skips to: what starts at or after the offset, and  *)
(* leaves room for its header, is not before that block.                   *)
LEMMA SkipsTo ==
    ASSUME initial_offset \in Nat
    PROVE  /\ SkipToInitialBlock \in Nat /\ Boundary(SkipToInitialBlock)
           /\ initial_offset + 2 <= SkipToInitialBlock + kBlockSize
           /\ \A m, s \in Nat : InBlock(m, s) /\ s + 3 <= m + kBlockSize /\ s >= initial_offset
                 => SkipToInitialBlock <= s
<1>1. PICK B \in Nat : B = kBlockSize /\ B > 6
  BY LogAssumption DEF kHeaderSize
<1>2. PICK i \in Nat : i = initial_offset
  OBVIOUS
<1>3. PICK o \in Int : o = initial_offset % kBlockSize /\ o = i % B
  BY <1>1, <1>2
<1>4. o \in 0 .. B - 1
  BY <1>1, <1>3
<1>5. PICK m \in 0 .. i : InBlock(m, i)
  BY BlockExists
<1>6. PICK k \in Nat : m = k * B
  BY <1>1, <1>5 DEF InBlock, Boundary
<1>7. m <= i /\ i < m + B /\ Boundary(m)
  BY <1>1, <1>5 DEF InBlock
<1>8. o = i - m
  <2>1. k * B <= i /\ i < k * B + B
    BY <1>6, <1>7
  <2>2. PICK q \in Nat : q = i \div B
    BY <1>1
  <2>3. q >= k /\ q <= k
    BY <1>1, <2>1, <2>2
  <2>4. i % B = i - B * q
    BY <1>1, <2>2
  <2>5. q = k
    BY <2>3
  <2>6. i % B = i - k * B
    BY <1>1, <2>4, <2>5
  <2> QED BY <1>3, <1>6, <2>6
<1>9. SkipToInitialBlock = IF o > B - 2 THEN m + B ELSE m
  <2>1. SkipToInitialBlock = IF o > kBlockSize - (kHeaderSize - 1)
                             THEN initial_offset - o + kBlockSize ELSE initial_offset - o
    BY <1>3, Zenon DEF SkipToInitialBlock
  <2>2. SkipToInitialBlock = IF o > B - 2 THEN i - o + B ELSE i - o
    BY <1>1, <1>2, <2>1 DEF kHeaderSize
  <2> QED BY <1>1, <1>5, <1>8, <2>2
<1>10. PICK S \in Nat : S = SkipToInitialBlock
  BY <1>1, <1>5, <1>9
<1>11. S = m \/ (S = m + B /\ o = B - 1)
  BY <1>1, <1>4, <1>9, <1>10
<1>12. Boundary(S)
  <2>1. Boundary(m + B)
    BY <1>1, <1>5, <1>7, Boundaries
  <2> QED BY <1>7, <1>11, <2>1
<1>13. i + 2 <= S + B
  BY <1>1, <1>4, <1>5, <1>8, <1>9, <1>10
<1>14. ASSUME NEW n \in Nat, NEW s \in Nat, InBlock(n, s), s + 3 <= n + B, s >= i
       PROVE  S <= s
  <2>1. CASE S = m
    BY <1>7, <1>14, <2>1
  <2>2. CASE S = m + B /\ o = B - 1
    <3>1. SUFFICES ASSUME s < m + B PROVE FALSE
      BY <1>1, <1>5, <2>2
    <3>2. s >= m + B - 1
      BY <1>1, <1>5, <1>8, <1>14, <2>2
    <3>3. Boundary(n) /\ n <= s /\ n \in Nat /\ m \in Nat
      BY <1>5, <1>14 DEF InBlock
    <3>4. m < n => m + B <= n
      BY <1>1, <1>7, <3>3, Boundaries
    <3> QED BY <1>1, <1>14, <3>1, <3>2, <3>3, <3>4
  <2> QED BY <1>11, <2>1, <2>2
<1>15. \A n, s \in Nat : InBlock(n, s) /\ s + 3 <= n + B /\ s >= i => S <= s
  BY <1>14
<1> QED BY <1>1, <1>2, <1>10, <1>12, <1>13, <1>15

(* A new call of ReadRecord.                                               *)
LEMMA CallsOn ==
    ASSUME NEW d, NEW F, Quiet(d, F), Scanning(d), ReadRecord,
           log_failures \in Nat, log_failures' = log_failures
    PROVE  Quiet(d, F)'
<1>1. /\ RecordTypes /\ Written(d, F) /\ Left(d) /\ Progress(F) /\ Chain(d)
      /\ ScanTypes /\ (Unread \/ InFile \/ PastFile) /\ (Where < kept => IsHeader(d, Where))
  BY DEF Quiet, Scanning, Written
<1>2. /\ log_pc = "call" /\ in_fragmented_record' = FALSE /\ prospective_record_offset' = 0
      /\ UNCHANGED <<writer, media, buffer_, eof, last_record_offset, initial_offset,
                     delivered>>
      /\ TopOfLoop
      /\ \/ /\ last_record_offset < initial_offset
            /\ end_of_buffer_offset' = SkipToInitialBlock
            /\ file_pos' = file_pos + SkipToInitialBlock /\ log_pc' = "loop"
         \/ /\ ~(last_record_offset < initial_offset)
            /\ log_pc' = "loop" /\ UNCHANGED <<end_of_buffer_offset, file_pos>>
  <2>1. log_failures' /= log_failures + 1
    OBVIOUS
  <2> QED BY <2>1 DEF ReadRecord
<1>3. /\ records' = records /\ dest' = dest /\ kept' = kept /\ damage' = damage
      /\ buffer_' = buffer_ /\ eof' = eof /\ last_record_offset' = last_record_offset
      /\ initial_offset' = initial_offset /\ delivered' = delivered /\ log_pc' = "loop"
      /\ in_fragmented_record' = FALSE /\ prospective_record_offset' = 0
  BY <1>2 DEF writer, media
<1>4. PICK K \in Nat, p \in Nat, A \in Nat, b \in Nat, I \in Nat :
         K = kept /\ p = file_pos /\ A = buffer_[1] /\ b = buffer_[2] /\ I = initial_offset
  <2>1. /\ kept \in Nat /\ file_pos \in Nat /\ buffer_[1] \in Nat /\ buffer_[2] \in Nat
        /\ initial_offset \in Nat
    BY <1>1 DEF Left, Chain, ScanTypes
  <2> QED BY <2>1
<1>5. BufferSize = b - A /\ BufferSize' = b - A
  BY <1>3, <1>4 DEF BufferSize
<1>6. "call" /= "loop"
  OBVIOUS
<1>7. ~PastFile /\ (Unread \/ InFile)
  BY <1>1, <1>2, <1>6 DEF PastFile
<1>8. physical_record_offset' = end_of_buffer_offset' - (b - A)
  BY <1>2, <1>3, <1>4 DEF TopOfLoop
<1>9. kBlockSize \in Nat /\ kBlockSize > 6 /\ d \in Seq(Cells) /\ Len(d) \in Nat
      /\ K <= Len(d)
  BY <1>1, <1>4, LogAssumption DEF kHeaderSize, Chain, Left
<1>13. ASSUME file_pos' \in Nat, physical_record_offset' \in Int
       PROVE  ScanTypes'
  <2>1. /\ buffer_ \in Nat \X Nat /\ eof \in BOOLEAN /\ last_record_offset \in Nat
        /\ initial_offset \in Nat
    BY <1>1 DEF ScanTypes
  <2>2. PICK S : delivered \in Seq(S)
    BY <1>1 DEF ScanTypes
  <2>3. delivered' \in Seq(S)
    BY <1>3, <2>2
  <2>4. /\ buffer_' \in Nat \X Nat /\ eof' \in BOOLEAN /\ last_record_offset' \in Nat
        /\ initial_offset' \in Nat /\ in_fragmented_record' \in BOOLEAN
        /\ prospective_record_offset' \in Nat
    BY <1>3, <2>1
  <2> QED BY <1>13, <2>3, <2>4, Zenon DEF ScanTypes
<1>10. Where \in Nat
  BY <1>4 DEF Where
<1>11. CASE last_record_offset < initial_offset
  <2>1. Unread
    <3>1. InFile => last_record_offset >= initial_offset
      BY <1>2 DEF InFile
    <3>2. ~(last_record_offset >= initial_offset)
      BY <1>1, <1>11 DEF ScanTypes
    <3> QED BY <1>7, <3>1, <3>2
  <2>2. buffer_ = <<0, 0>> /\ ~eof /\ p = 0 /\ A = 0 /\ b = 0
    BY <1>2, <1>4, <2>1 DEF Unread
  <2>3. PICK S \in Nat : S = SkipToInitialBlock
    BY <1>1, SkipsTo DEF ScanTypes
  <2>4. /\ Boundary(S) /\ I + 2 <= S + kBlockSize
        /\ \A m, s \in Nat : InBlock(m, s) /\ s + 3 <= m + kBlockSize /\ s >= I => S <= s
    BY <1>4, <2>3, SkipsTo
  <2>5. file_pos' = S /\ end_of_buffer_offset' = S /\ physical_record_offset' = S
    BY <1>2, <1>4, <1>8, <1>11, <2>2, <2>3
  <2>6. Unread'
    BY <1>2, <1>3, <1>4, <1>6, <2>2, <2>4, <2>5 DEF Unread
  <2>7. Where' = S
    BY <1>5, <2>2, <2>5 DEF Where, kHeaderSize
  <2>8. ScanTypes'
    BY <1>13, <2>5
  <2>9. S < K => IsHeader(d, S)
    BY <1>1, <1>9, <2>4 DEF Chain
  <2>10. Scanning(d)'
    BY <1>3, <1>4, <2>6, <2>7, <2>8, <2>9 DEF Scanning
  <2>11. ASSUME NEW r \in DOMAIN records, Promised(r)
         PROVE  S <= records[r].start
    <3>1. PICK x \in F : x.rec = r /\ x.at = records[r].start
      BY <1>1, <2>11, PromisedIn
    <3>2. PICK s \in Nat : s = records[r].start
      BY <1>1, <2>11, PromisedIn
    <3>3. IsHeader(d, s)
      BY <1>1, <2>11, <3>1, <3>2, PromisedIn
    <3>4. PICK m \in 0 .. s : InBlock(m, s)
      BY BlockExists
    <3>5. EndOf(d, s) <= m + kBlockSize
      <4>1. s \in 0 .. Len(d)
        BY <1>9, <3>3 DEF IsHeader
      <4> QED BY <1>1, <3>3, <3>4, <4>1 DEF Chain, Linked
    <3>6. EndOf(d, s) \in Nat /\ s + 3 <= EndOf(d, s)
      BY <1>9, <3>3, HeaderCells DEF kHeaderSize
    <3>7. s >= I
      BY <1>4, <2>11, <3>2 DEF Promised
    <3> QED BY <1>9, <2>4, <3>2, <3>4, <3>5, <3>6, <3>7
  <2>12. RecordTypes' /\ Written(d, F)' /\ Left(d)' /\ Progress(F)'
    BY <1>1, <1>2, <1>3, <1>6, <1>10, <2>7, <2>11, Waits
  <2> QED BY <2>10, <2>12 DEF Quiet
<1>12. CASE ~(last_record_offset < initial_offset)
  <2>1. file_pos' = p /\ end_of_buffer_offset' = end_of_buffer_offset
    BY <1>2, <1>4, <1>12
  <2>2. Where' = Where
    BY <1>3, <1>4, <1>5, <2>1 DEF Where
  <2>3. CASE Unread
    <3>1. /\ buffer_ = <<0, 0>> /\ ~eof /\ Boundary(file_pos) /\ file_pos = 0 /\ A = 0 /\ b = 0
          /\ end_of_buffer_offset = 0 /\ last_record_offset = 0 /\ p = 0
      BY <1>2, <1>4, <2>3 DEF Unread
    <3>2. physical_record_offset' = 0 /\ I = 0
      BY <1>4, <1>8, <1>12, <2>1, <3>1
    <3>3. Unread'
      BY <1>2, <1>3, <1>4, <1>6, <1>9, <2>1, <3>1, <3>2 DEF Unread
    <3>4. ScanTypes'
      BY <1>4, <1>13, <2>1, <3>2
    <3>5. Scanning(d)'
      BY <1>1, <1>3, <2>2, <3>3, <3>4 DEF Scanning
    <3>6. RecordTypes' /\ Written(d, F)' /\ Left(d)' /\ Progress(F)'
      BY <1>1, <1>2, <1>3, <1>6, <1>10, <2>2, Waits
    <3> QED BY <3>5, <3>6 DEF Quiet
  <2>4. CASE InFile
    <3>1. /\ p = b /\ end_of_buffer_offset = b /\ A <= b /\ b <= Len(dest)
          /\ IF eof THEN b = Len(dest) ELSE Boundary(b) /\ I + 2 <= b
      BY <1>4, <2>4 DEF InFile
    <3>2. physical_record_offset' = A
      BY <1>8, <2>1, <3>1
    <3>3. InFile'
      <4>1. \/ physical_record_offset' >= initial_offset'
            \/ BufferSize' >= kHeaderSize /\ physical_record_offset' = buffer_'[1]
            \/ BufferSize' < kHeaderSize /\ eof'
        <5>1. CASE b - A >= 3
          BY <1>3, <1>4, <1>5, <3>2, <5>1 DEF kHeaderSize
        <5>2. CASE ~(b - A >= 3) /\ eof
          BY <1>3, <1>5, <5>2 DEF kHeaderSize
        <5>3. CASE ~(b - A >= 3) /\ ~eof
          <6>1. A >= I
            BY <3>1, <5>3
          <6> QED BY <1>3, <1>4, <3>2, <6>1
        <5> QED BY <5>1, <5>2, <5>3
      <4>2. BufferSize' >= kHeaderSize =>
               \E m \in 0 .. buffer_'[1] :
                  /\ Boundary(m)
                  /\ buffer_'[2] = m + kBlockSize \/ (eof' /\ buffer_'[2] < m + kBlockSize)
        <5>1. BufferSize' = BufferSize
          BY <1>5
        <5> QED BY <1>3, <2>4, <5>1, Zenon DEF InFile
      <4>3. /\ file_pos' = buffer_'[2] /\ end_of_buffer_offset' = buffer_'[2]
            /\ buffer_'[1] <= buffer_'[2] /\ buffer_'[2] <= Len(dest')
            /\ IF eof' THEN buffer_'[2] = Len(dest')
                       ELSE Boundary(buffer_'[2]) /\ initial_offset' + 2 <= buffer_'[2]
        BY <1>3, <1>4, <2>1, <3>1
      <4>4. log_pc' = "loop" /\ log_pc' /= "call" /\ ~in_fragmented_record'
        BY <1>2, <1>3, <1>6
      <4> QED BY <4>1, <4>2, <4>3, <4>4, Zenon DEF InFile
    <3>4. ScanTypes'
      BY <1>4, <1>13, <2>1, <3>2
    <3>5. Scanning(d)'
      BY <1>1, <1>3, <2>2, <3>3, <3>4 DEF Scanning
    <3>6. RecordTypes' /\ Written(d, F)' /\ Left(d)' /\ Progress(F)'
      BY <1>1, <1>2, <1>3, <1>6, <1>10, <2>2, Waits
    <3> QED BY <3>5, <3>6 DEF Quiet
  <2> QED BY <1>7, <2>3, <2>4
<1> QED BY <1>11, <1>12

(* The machine stops and the file is read again.                           *)
LEMMA CutsOff ==
    ASSUME WriterTypes, Chain(dest), NEW F, Writing(F), CutShort,
           damage = {}, eof = FALSE, delivered = <<>>
    PROVE  \E d : Quiet(d, F)'
<1>1. PICK d \in Seq(Cells) : d = dest
  BY DEF Chain
<1>2. PICK k \in 0 .. Len(d), f \in BOOLEAN : kept' = k /\ padded' = f
  <2>1. kept' \in 0 .. Len(d) /\ padded' \in {FALSE, kept' < Len(d)}
    BY <1>1 DEF CutShort
  <2>2. (kept' < Len(d)) \in BOOLEAN
    BY <2>1, <1>1
  <2>3. padded' \in BOOLEAN
    BY <2>1, <2>2, Zenon
  <2> QED BY <2>1, <2>3
<1> DEFINE zeros == IF f THEN [i \in 1 .. Len(d) - k |-> Zero] ELSE <<>>
           front == SubSeq(d, 1, k)
<1>3. dest' = front \o zeros
  BY <1>1, <1>2, Zenon DEF CutShort
<1>4. /\ log_pc' = "call" /\ records' = records /\ damage' = {} /\ file_pos' = 0
      /\ buffer_' = <<0, 0>> /\ eof' = FALSE /\ last_record_offset' = 0
      /\ end_of_buffer_offset' = 0 /\ in_fragmented_record' = FALSE
      /\ prospective_record_offset' = 0 /\ physical_record_offset' = 0
      /\ delivered' = <<>> /\ initial_offset' \in Nat
  BY LogAssumption DEF CutShort, WriterTypes
<1>5. Left(d)'
  <2>1. front \in Seq(Cells) /\ Len(front) = k /\ \A i \in 1 .. k : front[i] = d[i]
    BY <1>1, <1>2
  <2>2. zeros \in Seq(Cells)
    <3>1. Zero \in Cells
      BY DEF Cells
    <3>2. Len(d) - k \in Nat
      BY <1>1, <1>2
    <3>3. <<>> \in Seq(Cells)
      OBVIOUS
    <3> QED BY <3>1, <3>2, <3>3
  <2> HIDE DEF front, zeros
  <2>3. /\ front \o zeros \in Seq(Cells) /\ Len(front \o zeros) = k + Len(zeros)
        /\ \A i \in 1 .. Len(front) + Len(zeros) :
              (front \o zeros)[i] = IF i <= Len(front) THEN front[i] ELSE zeros[i - Len(front)]
    BY <2>1, <2>2, ConcatProperties, Zenon
  <2>4. Len(zeros) \in Nat /\ k \in Nat
    BY <1>2, <2>2
  <2>5. k <= k + Len(zeros)
    BY <2>4
  <2>6. ASSUME NEW i \in 1 .. k
        PROVE  (front \o zeros)[i] = d[i]
    <3>1. i \in 1 .. Len(front) + Len(zeros) /\ i <= Len(front)
      BY <2>1, <2>4
    <3> QED BY <2>1, <2>3, <3>1
  <2> QED BY <1>2, <1>3, <1>4, <2>3, <2>5, <2>6 DEF Left
<1>6. Written(d, F)'
  <2>1. Recorded(d, records, F)
    BY <1>1 DEF Writing
  <2>2. ASSUME NEW x \in F
        PROVE  Ending(TypeAt(d, x.at)) \/ ~records[x.rec].ok \/ \E y \in F : Follows(d, y, x)
    <3>1. Unfinished(d, x) => ~records[x.rec].ok
      <4>1. SUFFICES ASSUME Unfinished(d, x) PROVE ~records[x.rec].ok
        OBVIOUS
      <4>2. remaining /= NoCall /\ x.rec = Len(records)
        BY <4>1 DEF Unfinished, Begun
      <4> QED BY <4>2 DEF Writing
    <3> QED BY <1>1, <3>1 DEF Writing
  <2>3. Written(d, F)
    BY <1>1, <2>1, <2>2 DEF Written
  <2> QED BY <1>4, <2>3 DEF Written
<1>7. RecordTypes'
  BY <1>4 DEF WriterTypes, RecordTypes
<1>8. Where' = 0
  BY <1>4 DEF Where, BufferSize, kHeaderSize
<1>9. Progress(F)'
  <2>1. \A r \in DOMAIN records : Promised(r)' => 0 <= records[r].start
    <3> SUFFICES ASSUME NEW r \in DOMAIN records, Promised(r)'
                 PROVE  0 <= records[r].start
      OBVIOUS
    <3>1. records[r].ok
      BY <1>4 DEF Promised, Wrote
    <3>2. PICK x \in F : x.rec = r /\ FragmentIn(dest, records, x)
      BY <3>1 DEF Writing, Recorded
    <3> QED BY <3>2 DEF FragmentIn
  <2>2. log_pc' /= "done"
    BY <1>4
  <2> QED BY <1>4, <1>8, <2>1, <2>2 DEF Progress
<1>10. Scanning(d)'
  <2>1. ScanTypes'
    <3>1. <<>> \in Seq({})
      OBVIOUS
    <3>2. delivered' \in Seq({})
      BY <1>4, <3>1
    <3>3. /\ buffer_' \in Nat \X Nat /\ file_pos' \in Nat /\ eof' \in BOOLEAN
          /\ in_fragmented_record' \in BOOLEAN /\ prospective_record_offset' \in Nat
          /\ physical_record_offset' \in Int /\ last_record_offset' \in Nat
          /\ initial_offset' \in Nat
      <4>1. <<0, 0>> \in Nat \X Nat /\ 0 \in Nat /\ 0 \in Int
        OBVIOUS
      <4>2. FALSE \in BOOLEAN
        OBVIOUS
      <4> QED BY <1>4, <4>1, <4>2, Zenon
    <3> QED BY <3>2, <3>3, Zenon DEF ScanTypes
  <2>2. Unread'
    <3>1. Boundary(0) /\ "call" /= "loop"
      BY Boundaries
    <3> QED BY <1>4, <3>1 DEF Unread
  <2>3. Where' < kept' => IsHeader(d, Where')
    <3>1. Chain(d) /\ kept' \in 0 .. Len(d) /\ Len(d) \in Nat
      BY <1>1, <1>2
    <3>2. 0 < kept' => IsHeader(d, 0)
      BY <3>1 DEF Chain
    <3> QED BY <1>8, <3>2
  <2> QED BY <2>1, <2>2, <2>3 DEF Scanning
<1>11. Quiet(d, F)'
  BY <1>5, <1>6, <1>7, <1>9, <1>10 DEF Quiet
<1> QED BY <1>11

(* A cell goes bad before the file is read.                                *)
LEMMA DecaysOn ==
    ASSUME NEW d, NEW F, Quiet(d, F), Scanning(d), Decay
    PROVE  Quiet(d, F)'
<1>1. /\ RecordTypes /\ Written(d, F) /\ Left(d) /\ Progress(F) /\ Chain(d)
      /\ ScanTypes /\ (Unread \/ InFile \/ PastFile) /\ (Where < kept => IsHeader(d, Where))
  BY DEF Quiet, Scanning, Written
<1>2. PICK i \in 1 .. kept : damage' = damage \cup {i} /\ dest' = [dest EXCEPT ![i] = Damaged]
  BY DEF Decay
<1>3. log_pc = "call" /\ UNCHANGED <<records, kept, log_pc, reader>>
  BY DEF Decay
<1>4. /\ dest \in Seq(Cells) /\ kept \in Nat /\ kept <= Len(dest) /\ Len(dest) \in Nat
      /\ damage \subseteq 1 .. kept
  BY <1>1 DEF Left, Chain
<1>5. DOMAIN dest = 1 .. Len(dest) /\ 1 .. kept \subseteq DOMAIN dest
  BY <1>4
<1>6. /\ Len(dest') = Len(dest) /\ dest' \in Seq(Cells) /\ dest'[i] = Damaged
      /\ \A j \in 1 .. kept : j /= i => dest'[j] = dest[j]
  <2>1. Damaged \in Cells
    BY DEF Cells
  <2> QED BY <1>2, <1>4, <1>5, <2>1
<1>7. Left(d)'
  <2>1. \A j \in 1 .. kept : j \notin damage' => dest'[j] = d[j]
    BY <1>1, <1>2, <1>6 DEF Left
  <2>2. \A j \in damage' : dest'[j] = Damaged
    BY <1>1, <1>2, <1>4, <1>6 DEF Left
  <2>3. damage' \subseteq 1 .. kept
    BY <1>2, <1>4
  <2> QED BY <1>1, <1>3, <1>4, <1>6, <2>1, <2>2, <2>3 DEF Left
<1>8. RecordTypes' /\ Written(d, F)'
  BY <1>1, <1>3 DEF RecordTypes, Written
<1>9. /\ buffer_' = buffer_ /\ file_pos' = file_pos /\ eof' = eof
      /\ end_of_buffer_offset' = end_of_buffer_offset /\ initial_offset' = initial_offset
      /\ in_fragmented_record' = in_fragmented_record /\ log_pc' = log_pc
      /\ prospective_record_offset' = prospective_record_offset
      /\ physical_record_offset' = physical_record_offset /\ delivered' = delivered
      /\ last_record_offset' = last_record_offset /\ scratch' = scratch
      /\ records' = records /\ kept' = kept
  BY <1>3 DEF reader
<1>10. Where' = Where
  BY <1>9 DEF Where, BufferSize
<1>11. Progress(F)'
  <2> SUFFICES ASSUME NEW r \in DOMAIN records, Promised(r)'
               PROVE  \/ Delivers(delivered, r)'
                      \/ log_pc' /= "done" /\ Where' <= records[r].start
    BY <1>9 DEF Progress
  <2>1. Promised(r)
    BY <1>2, <1>9 DEF Promised, Wrote, Undamaged
  <2>2. ~Inside(r, F)
    <3>1. "call" /= "loop"
      OBVIOUS
    <3> QED BY <1>3, <3>1 DEF Inside
  <2>3. Delivers(delivered, r) => Delivers(delivered, r)'
    BY <1>9 DEF Delivers, LogRecord
  <2> QED BY <1>1, <1>9, <1>10, <2>1, <2>2, <2>3 DEF Progress
<1>12. Scanning(d)'
  <2>1. ScanTypes'
    BY <1>1, <1>9 DEF ScanTypes
  <2>2. Unread => Unread'
    BY <1>9 DEF Unread
  <2>3. InFile => InFile'
    <3>1. BufferSize' = BufferSize
      BY <1>9 DEF BufferSize
    <3> QED BY <1>6, <1>9, <3>1 DEF InFile
  <2>4. ~PastFile
    <3>1. "call" /= "loop"
      OBVIOUS
    <3> QED BY <1>3, <3>1 DEF PastFile
  <2> QED BY <1>1, <1>9, <1>10, <2>1, <2>2, <2>3, <2>4 DEF Scanning
<1> QED BY <1>7, <1>8, <1>11, <1>12 DEF Quiet

ContainedInvariant ==
    /\ log_pc = "write" => damage = {} /\ eof = FALSE /\ delivered = <<>>
    /\ log_failures = 0 =>
          /\ log_pc = "write" => \E F : Writing(F)
          /\ log_pc /= "write" => \E d, F : Quiet(d, F)

LEMMA ContainedInit == LogInit => ContainedInvariant
<1> SUFFICES ASSUME LogInit PROVE ContainedInvariant
  OBVIOUS
<1>1. /\ records = <<>> /\ remaining = NoCall /\ log_pc = "write" /\ damage = {}
      /\ eof = FALSE /\ delivered = <<>>
  BY DEF LogInit
<1>2. Writing({})
  <2>1. DOMAIN records = {}
    BY <1>1
  <2>2. Recorded(dest, records, {})
    BY <2>1 DEF Recorded
  <2> QED BY <1>1, <2>2 DEF Writing
<1> QED BY <1>1, <1>2 DEF ContainedInvariant

(* While the file is written the invariant of CrashReportsNothing applies. *)
LEMMA WhileWriting ==
    ASSUME IntactInvariant, ContainedInvariant, log_pc = "write", log_failures = 0
    PROVE  WriterTypes /\ Chain(dest) /\ Whole(dest, block_offset, Begun)
BY DEF IntactInvariant, ContainedInvariant, Intact

LEMMA ContainedStep ==
    IntactInvariant /\ IntactInvariant' /\ ContainedInvariant /\ [LogNext]_logVars
       => ContainedInvariant'
<1> SUFFICES ASSUME IntactInvariant, IntactInvariant', ContainedInvariant, [LogNext]_logVars
             PROVE  ContainedInvariant'
  OBVIOUS
<1>1. /\ log_failures \in Nat /\ log_failures' \in Nat
      /\ log_pc \in {"write", "call", "loop", "done"}
  BY DEF IntactInvariant
<1>2. ASSUME NEW n \in Lengths, BeginRecord(n)
      PROVE  ContainedInvariant'
  <2>1. /\ log_pc = "write" /\ log_pc' = "write" /\ log_failures' = log_failures
        /\ UNCHANGED <<media, reader>>
    BY <1>2 DEF BeginRecord
  <2>2. UNCHANGED <<damage, eof, delivered>>
    BY <2>1 DEF media, reader
  <2>3. ASSUME log_failures = 0
        PROVE  \E F : Writing(F)'
    <3>1. PICK F : Writing(F)
      BY <2>1, <2>3 DEF ContainedInvariant
    <3>2. Writing(F)'
      BY <1>2, <2>1, <2>3, <3>1, WhileWriting, BeginRecords
    <3> QED BY <3>2
  <2> QED BY <2>1, <2>2, <2>3 DEF ContainedInvariant
<1>3. ASSUME EmitFragment
      PROVE  ContainedInvariant'
  <2>1. /\ log_pc = "write" /\ log_pc' = "write" /\ UNCHANGED <<media, reader>>
    BY <1>3 DEF EmitFragment
  <2>2. UNCHANGED <<damage, eof, delivered>>
    BY <2>1 DEF media, reader
  <2>3. log_failures' = log_failures \/ log_failures' = log_failures + 1
    BY <1>3, Zenon DEF EmitFragment
  <2>4. ASSUME log_failures' = 0
        PROVE  \E F : Writing(F)'
    <3>1. log_failures = 0 /\ log_failures' = log_failures
      BY <1>1, <2>3, <2>4
    <3>2. PICK F : Writing(F)
      BY <2>1, <3>1 DEF ContainedInvariant
    <3>3. WriterTypes /\ Chain(dest) /\ Whole(dest, block_offset, Begun)
      BY <2>1, <3>1, WhileWriting
    <3>4. WriterTypes' /\ Chain(dest') /\ \E base \in Nat, c \in Seq(Data) : EmitsAt(base, c)
      BY <1>1, <1>3, <3>1, <3>3, EmitKeeps
    <3>5. PICK base \in Nat, c \in Seq(Data) : EmitsAt(base, c)
      BY <3>4
    <3>6. \E G : Writing(G)'
      BY <3>2, <3>3, <3>4, <3>5, EmitRecords
    <3> QED BY <3>6
  <2> QED BY <2>1, <2>2, <2>4 DEF ContainedInvariant
<1>4. ASSUME CutShort
      PROVE  ContainedInvariant'
  <2>1. log_pc = "write" /\ log_pc' = "call" /\ log_failures' = log_failures
    BY <1>4 DEF CutShort
  <2>2. ASSUME log_failures = 0
        PROVE  \E d, F : Quiet(d, F)'
    <3>1. PICK F : Writing(F)
      BY <2>1, <2>2 DEF ContainedInvariant
    <3>2. WriterTypes /\ Chain(dest)
      BY <2>1, <2>2, WhileWriting
    <3>3. damage = {} /\ eof = FALSE /\ delivered = <<>>
      BY <2>1 DEF ContainedInvariant
    <3>4. \E d : Quiet(d, F)'
      BY <1>4, <3>1, <3>2, <3>3, CutsOff
    <3> QED BY <3>4
  <2> QED BY <2>1, <2>2 DEF ContainedInvariant
<1>5. ASSUME log_pc /= "write", log_pc' /= "write",
             \A d, F : log_failures = 0 /\ log_failures' = log_failures /\ Quiet(d, F)
                         => Quiet(d, F)',
             log_failures' = 0 => log_failures = 0
      PROVE  ContainedInvariant'
  <2>1. ASSUME log_failures' = 0
        PROVE  \E d, F : Quiet(d, F)'
    <3>1. log_failures = 0 /\ log_failures' = log_failures
      BY <1>5, <2>1
    <3>2. PICK d, F : Quiet(d, F)
      BY <1>5, <3>1 DEF ContainedInvariant
    <3>3. Quiet(d, F)'
      BY <1>5, <3>1, <3>2
    <3> QED BY <3>3
  <2> QED BY <1>5, <2>1 DEF ContainedInvariant
<1>6. \A d, F : Quiet(d, F) /\ log_pc \in {"call", "loop"} => Scanning(d)
  BY DEF Quiet
<1>7. /\ "call" /= "write" /\ "loop" /= "write" /\ "done" /= "write"
      /\ "call" \in {"call", "loop"} /\ "loop" \in {"call", "loop"}
  OBVIOUS
<1>8. ASSUME Decay
      PROVE  ContainedInvariant'
  <2>1. log_pc = "call" /\ log_pc' = log_pc /\ log_failures' = log_failures
    BY <1>8 DEF Decay
  <2>2. \A d, F : Quiet(d, F) => Quiet(d, F)'
    BY <1>6, <1>7, <1>8, <2>1, DecaysOn
  <2> QED BY <1>5, <1>7, <2>1, <2>2
<1>9. ASSUME ReadRecord
      PROVE  ContainedInvariant'
  <2>1. /\ log_pc = "call" /\ log_pc' \in {"loop", "done"}
        /\ log_failures' = log_failures \/ log_failures' = log_failures + 1
    BY <1>9, Zenon DEF ReadRecord
  <2>2. ASSUME NEW d, NEW F, Quiet(d, F), log_failures' = log_failures
        PROVE  Quiet(d, F)'
    BY <1>1, <1>6, <1>7, <1>9, <2>1, <2>2, CallsOn
  <2>3. log_failures' = 0 => log_failures = 0
    BY <1>1, <2>1
  <2> QED BY <1>5, <1>7, <2>1, <2>2, <2>3
<1>10. ASSUME Refill
       PROVE  ContainedInvariant'
  <2>1. /\ log_pc = "loop" /\ log_pc' \in {"loop", "done"}
        /\ log_failures' = log_failures \/ log_failures' = log_failures + 1
    BY <1>10, Zenon DEF Refill, OnEof
  <2>2. ASSUME NEW d, NEW F, Quiet(d, F), log_failures' = log_failures
        PROVE  Quiet(d, F)'
    BY <1>1, <1>6, <1>7, <1>10, <2>1, <2>2, RefillsOn
  <2>3. log_failures' = 0 => log_failures = 0
    BY <1>1, <2>1
  <2> QED BY <1>5, <1>7, <2>1, <2>2, <2>3
<1>11. ASSUME ReadPhysicalRecord
       PROVE  ContainedInvariant'
  <2>1. log_pc = "loop" /\ log_failures' = log_failures
    BY <1>11 DEF ReadPhysicalRecord
  <2>2. log_pc' \in {"call", "loop", "done"}
    BY <1>11, <2>1, Zenon DEF ReadPhysicalRecord, OnEof, TooLong, OnBadRecord, OnRecord, Continue,
                      ReturnRecord
  <2>3. ASSUME NEW d, NEW F, Quiet(d, F)
        PROVE  Quiet(d, F)'
    BY <1>6, <1>7, <1>11, <2>1, <2>3, ReadsOn
  <2> QED BY <1>5, <1>7, <2>1, <2>2, <2>3
<1>12. ASSUME UNCHANGED logVars
       PROVE  ContainedInvariant'
  <2>1. UNCHANGED <<dest, block_offset, remaining, records, kept, damage, log_failures, log_pc,
                    file_pos, buffer_, eof, last_record_offset, end_of_buffer_offset,
                    initial_offset, in_fragmented_record, scratch, prospective_record_offset,
                    physical_record_offset, delivered>>
    BY <1>12 DEF logVars, writer, media, reader
  <2>2. \A F : Writing(F) => Writing(F)'
    BY <2>1 DEF Writing, Begun, Unfinished
  <2>3. \A d, F : Quiet(d, F) => Quiet(d, F)'
    BY <2>1 DEF Quiet, RecordTypes, Written, Left, Progress, Promised, Wrote, Undamaged, Delivers,
                LogRecord, Where, BufferSize, Inside, Scanning, ScanTypes, Unread, InFile, PastFile
  <2> QED BY <2>1, <2>2, <2>3 DEF ContainedInvariant
<1> QED BY <1>2, <1>3, <1>4, <1>8, <1>9, <1>10, <1>11, <1>12 DEF LogNext, LogRead

(* Damage is contained: without I/O errors the reader returns every record *)
(* that the crash left complete, that starts at or after the offset asked  *)
(* for and shares no block with an earlier damaged cell, for every size of *)
(* the blocks and of the records and wherever cells go bad.                *)
THEOREM DamageStaysContained == LogSpec => []DamageIsContained
<1>1. ContainedInvariant => DamageIsContained
  <2> SUFFICES ASSUME ContainedInvariant, log_pc = "done", log_failures = 0,
                      NEW r \in DOMAIN records,
                      Wrote(r), Undamaged(r), records[r].start >= initial_offset
               PROVE  Delivers(delivered, r)
    BY DEF DamageIsContained
  <2>1. "done" /= "write" /\ "done" /= "loop"
    OBVIOUS
  <2>2. PICK d, F : Quiet(d, F)
    BY <2>1 DEF ContainedInvariant
  <2>3. Promised(r) /\ ~Inside(r, F)
    BY <2>1 DEF Promised, Inside
  <2> QED BY <2>2, <2>3 DEF Quiet, Progress
<1>2. LogInit => IntactInvariant /\ ContainedInvariant
  BY IntactInit, ContainedInit
<1>3. IntactInvariant /\ ContainedInvariant /\ [LogNext]_logVars
        => (IntactInvariant /\ ContainedInvariant)'
  BY IntactStep, ContainedStep
<1> QED BY <1>1, <1>2, <1>3, PTL DEF LogSpec
=============================================================================
