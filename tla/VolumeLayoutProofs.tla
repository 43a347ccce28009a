------------------------- MODULE VolumeLayoutProofs -------------------------
(***************************************************************************)
(* Theorems about the layout of every volume the models accept, of any     *)
(* number of items and any sizes.                                          *)
(*                                                                         *)
(* The history variable `sized' is what joins the two loops: the loop that *)
(* computes the size of the file records the bytes it has reserved after   *)
(* each item, and the loops that write the script are shown to place every *)
(* partition exactly between two of those marks.                           *)
(***************************************************************************)
EXTENDS VolumeLayout, TLAPS

N == Len(structure)

LineType == [item : Nat, start : Nat, size : Nat, number : (1..128) \cup {None}]

TypeOK ==
    /\ disk \in Disks
    /\ sectorSize \in SectorSizes
    /\ pc \in {"size", "image", "primary", "extend", "logical", "sfdisk",
               "done", "error"}
    /\ i \in Nat
    /\ start \in Nat
    /\ extSectors \in Nat
    /\ lines \in Seq(LineType)

(* What the marks are, and that they grow.                                 *)
Marks ==
    /\ pc = "size" => i \in 1..(N + 1) /\ sized \in [0..(i - 1) -> Nat]
                      /\ imageBytes = sized[i - 1]
    /\ pc # "size" => sized \in [0..N -> Nat]
                      /\ imageBytes = sized[N] + (IF disk.schema = "gpt"
                                                  THEN 34 * 512 ELSE 0)
    /\ sized[0] = 2048 * 512
    /\ \A k \in DOMAIN sized : k # 0 =>
          sized[k] = sized[k - 1] + Sectors(k) * 512 + EbrOverhead(k)
    /\ \A j, k \in DOMAIN sized : j <= k => sized[j] <= sized[k]

(* Where the loops stand in terms of the marks.                            *)
Loops ==
    /\ pc \in {"size", "image"} => lines = <<>> /\ start = 2048
    /\ pc \in {"size", "image", "primary"} => extSectors = 0
    /\ pc = "primary" =>
          /\ i \in 1..(LastPrimary + 1)
          /\ Len(lines) = i - 1
          /\ start * 512 = sized[i - 1]
    /\ pc = "extend" =>
          /\ NeedsExtended
          /\ i \in (LastPrimary + 1)..(N + 1)
          /\ Len(lines) = LastPrimary
          /\ start * 512 = sized[LastPrimary]
          /\ (start + extSectors) * 512 = sized[i - 1]
    /\ pc = "logical" =>
          /\ NeedsExtended
          /\ i \in (LastPrimary + 1)..(N + 1)
          /\ Len(lines) = i
          /\ start * 512 = sized[i - 1] + 2048 * 512
    /\ pc \in {"sfdisk", "done", "error"} =>
          \/ Len(lines) = IF NeedsExtended THEN N + 1 ELSE N
          \/ pc = "error" /\ lines = <<>>

(* Where the lines are in terms of the marks.                              *)
PrimaryLine(n) ==
    /\ lines[n].item = n
    /\ lines[n].number = structure[n].number
    /\ lines[n].start * 512 = sized[n - 1]
    /\ lines[n].size = Sectors(n)

ExtendedLine(n) ==
    /\ NeedsExtended
    /\ lines[n].item = 0
    /\ lines[n].number = None
    /\ lines[n].start * 512 = sized[LastPrimary]
    /\ (lines[n].start + lines[n].size) * 512 = sized[N]

LogicalLine(n) ==
    /\ NeedsExtended
    /\ n <= N + 1
    /\ lines[n].item = n - 1
    /\ lines[n].number = None
    /\ lines[n].start * 512 = sized[n - 2] + 2048 * 512
    /\ lines[n].size = Sectors(n - 1)

LinesPlaced ==
    \A n \in DOMAIN lines :
        /\ n <= LastPrimary => PrimaryLine(n)
        /\ n = LastPrimary + 1 => ExtendedLine(n)
        /\ n > LastPrimary + 1 => LogicalLine(n)

LInv ==
    /\ TypeOK
    /\ IF sectorSize = 512
       THEN Marks /\ Loops /\ LinesPlaced
       ELSE pc \in {"size", "image", "error"} /\ lines = <<>>

-----------------------------------------------------------------------------
LEMMA AlignIsWholeSectors ==
    ASSUME NEW b \in Nat
    PROVE  /\ (b + 512 - 1) \div 512 \in Nat
           /\ (((b - 1) \div 512) + 1) * 512 = ((b + 512 - 1) \div 512) * 512
OBVIOUS

(* The disk is one the models accept.                                      *)
LEMMA DiskFacts ==
    ASSUME disk \in Disks
    PROVE  /\ structure \in Seq(Item)
           /\ N \in Nat /\ N >= 1 /\ Items = 1..N /\ DOMAIN structure = 1..N
           /\ disk.schema \in {"gpt", "mbr"}
           /\ \A k \in Items :
                 /\ structure[k].size \in Nat
                 /\ structure[k].number \in (1..128) \cup {None}
                 /\ disk.schema = "mbr" => structure[k].number = None
           /\ \A j, k \in Items : j # k => structure[j].name # structure[k].name
<1>1. structure \in Seq(Item) /\ ValidDisk(disk)
  BY DisksAssumption DEF structure
<1>2. N \in Nat /\ Items = 1..N /\ DOMAIN structure = 1..N
  BY <1>1 DEF N, Items
<1>3. N >= 1
  BY <1>1, <1>2 DEF ValidDisk, structure, N
<1>4. \A k \in Items : structure[k] \in Item
  BY <1>1, <1>2
<1>5. \A k \in Items : /\ structure[k].size \in Nat
                       /\ structure[k].number \in (1..128) \cup {None}
  BY <1>4 DEF Item
<1>6. disk.schema \in {"gpt", "mbr"}
  BY <1>1 DEF ValidDisk
<1>7. \A j, k \in Items :
          /\ j # k => structure[j].name # structure[k].name
          /\ disk.schema = "mbr" => structure[j].number = None
  BY <1>1, <1>2 DEF ValidDisk, structure
<1> QED
  BY <1>1, <1>2, <1>3, <1>5, <1>6, <1>7

(* Where the primary partitions end.                                       *)
LEMMA PrimaryFacts ==
    ASSUME disk \in Disks
    PROVE  /\ LastPrimary \in 1..N
           /\ NeedsExtended => LastPrimary = 3 /\ N > 4 /\ disk.schema = "mbr"
           /\ ~NeedsExtended => LastPrimary = N
           /\ Logicals = (LastPrimary + 1)..N
<1>1. /\ LastPrimary \in 1..N
      /\ NeedsExtended => LastPrimary = 3 /\ N > 4 /\ disk.schema = "mbr"
      /\ ~NeedsExtended => LastPrimary = N
  BY DiskFacts DEF LastPrimary, NeedsExtended, N, MAX_PRIMARY_SLOTS,
     PRIMARY_SLOTS_WITH_EXTENDED
<1>2. Logicals = (LastPrimary + 1)..N
  BY <1>1, DiskFacts DEF Logicals
<1> QED
  BY <1>1, <1>2

(* In sectors of 512 bytes an item takes as many bytes in the file as its  *)
(* partition takes in the table.                                           *)
LEMMA SectorFacts ==
    ASSUME disk \in Disks, sectorSize = 512, NEW k \in Items
    PROVE  /\ Sectors(k) \in Nat
           /\ align_to_sectors(structure[k].size) = Sectors(k) * 512
           /\ EbrOverhead(k) = IF k > LastPrimary THEN 2048 * 512 ELSE 0
<1>1. structure[k].size \in Nat
  BY DiskFacts
<1>2. Sectors(k) \in Nat /\ align_to_sectors(structure[k].size) = Sectors(k) * 512
  BY <1>1, AlignIsWholeSectors DEF Sectors, bytes_to_sectors, align_to_sectors
<1>3. EbrOverhead(k) = IF k > LastPrimary THEN 2048 * 512 ELSE 0
  BY PrimaryFacts, DiskFacts DEF EbrOverhead, EBR_OVERHEAD_SECTORS,
     PRIMARY_SLOTS_WITH_EXTENDED
<1> QED
  BY <1>2, <1>3

(* Nothing that is computed from the input alone ever changes.             *)
LEMMA InputFixed ==
    ASSUME UNCHANGED input
    PROVE  /\ disk' = disk /\ sectorSize' = sectorSize
           /\ structure' = structure /\ N' = N /\ Items' = Items
           /\ NeedsExtended' = NeedsExtended /\ LastPrimary' = LastPrimary
           /\ Logicals' = Logicals
           /\ \A k : Sectors(k)' = Sectors(k) /\ EbrOverhead(k)' = EbrOverhead(k)
BY DEF input, structure, N, Items, NeedsExtended, LastPrimary, Logicals, Sectors,
   bytes_to_sectors, EbrOverhead

-----------------------------------------------------------------------------
LEMMA InitLInv == Init => LInv
<1> SUFFICES ASSUME Init PROVE LInv
  OBVIOUS
<1>1. TypeOK
  BY DEF Init, TypeOK, NON_MBR_START_OFFSET
<1>2. Marks
  <2>1. N + 1 \in Nat /\ 1 \in 1..(N + 1)
    BY <1>1, DiskFacts DEF TypeOK
  <2> QED
    BY <2>1 DEF Init, Marks, PARTITION_RESERVED_SIZE, NON_MBR_START_OFFSET,
       SECTOR_SIZE_512
<1>3. Loops /\ LinesPlaced
  BY DEF Init, Loops, LinesPlaced, NON_MBR_START_OFFSET
<1> QED
  BY <1>1, <1>2, <1>3 DEF LInv, Init

-----------------------------------------------------------------------------
LEMMA SizeItemLInv ==
    ASSUME LInv, sectorSize = 512, SizeItem
    PROVE  LInv'
<1>0. UNCHANGED input /\ disk \in Disks
  BY DEF SizeItem, LInv, TypeOK
<1>1. TypeOK'
  BY <1>0, InputFixed, DiskFacts DEF SizeItem, LInv, TypeOK
<1>2. Marks'
  <2>1. /\ i \in 1..N /\ N \in Nat /\ i + 1 \in 1..(N + 1)
        /\ sized \in [0..(i - 1) -> Nat] /\ imageBytes = sized[i - 1]
        /\ imageBytes \in Nat
    BY <1>0, DiskFacts DEF SizeItem, LInv, Marks
  <2>2. Sectors(i) \in Nat /\ EbrOverhead(i) \in Nat
    <3>1. i \in Items /\ LastPrimary \in Int
      BY <1>0, <2>1, DiskFacts, PrimaryFacts
    <3>2. /\ Sectors(i) \in Nat
          /\ EbrOverhead(i) = IF i > LastPrimary THEN 2048 * 512 ELSE 0
      BY <1>0, <3>1, SectorFacts
    <3> QED
      BY <3>1, <3>2
  <2>3. imageBytes' = sized[i - 1] + Sectors(i) * 512 + EbrOverhead(i)
    BY <1>0, <2>1, SectorFacts, DiskFacts DEF SizeItem
  <2>4. /\ DOMAIN sized' = 0..i
        /\ sized'[i] = imageBytes' /\ imageBytes' \in Nat
        /\ \A k \in 0..(i - 1) : sized'[k] = sized[k] /\ sized[k] \in Nat
    BY <2>1, <2>2, <2>3 DEF SizeItem
  <2>5. sized' \in [0..i -> Nat]
    BY <2>1, <2>4 DEF SizeItem
  <2>6. sized'[0] = 2048 * 512
    BY <2>1, <2>4 DEF LInv, Marks
  <2>7. \A k \in 0..i : k # 0 =>
           sized'[k] = sized'[k - 1] + Sectors(k) * 512 + EbrOverhead(k)
    <3> SUFFICES ASSUME NEW k \in 0..i, k # 0
                 PROVE  sized'[k] = sized'[k - 1] + Sectors(k) * 512 + EbrOverhead(k)
      OBVIOUS
    <3>1. CASE k = i
      BY <2>1, <2>3, <2>4, <3>1
    <3>2. CASE k # i
      <4>1. k \in DOMAIN sized /\ k \in 0..(i - 1) /\ k - 1 \in 0..(i - 1)
        BY <2>1, <3>2
      <4>2. sized[k] = sized[k - 1] + Sectors(k) * 512 + EbrOverhead(k)
        BY <4>1 DEF LInv, Marks
      <4> QED
        BY <2>4, <4>1, <4>2
    <3> QED
      BY <3>1, <3>2
  <2>8. \A k \in 0..(i - 1) : sized[k] <= sized[i - 1]
    BY <2>1 DEF LInv, Marks
  <2>9. \A j, k \in 0..i : j <= k => sized'[j] <= sized'[k]
    <3> SUFFICES ASSUME NEW j \in 0..i, NEW k \in 0..i, j <= k
                 PROVE  sized'[j] <= sized'[k]
      OBVIOUS
    <3>1. CASE k < i
      <4>1. j \in DOMAIN sized /\ k \in DOMAIN sized
        BY <2>1, <3>1
      <4>2. sized[j] <= sized[k]
        BY <4>1 DEF LInv, Marks
      <4> QED
        BY <2>1, <2>4, <4>1, <4>2
    <3>2. CASE k = i /\ j < i
      BY <2>1, <2>2, <2>3, <2>4, <2>8, <3>2
    <3>3. CASE j = i
      BY <2>1, <2>4, <3>3
    <3> QED
      BY <2>1, <3>1, <3>2, <3>3
  <2>10. pc' = "size" /\ i' = i + 1 /\ (i + 1) - 1 = i
    BY <2>1 DEF SizeItem
  <2> QED
    BY <1>0, InputFixed, <2>1, <2>4, <2>5, <2>6, <2>7, <2>9, <2>10 DEF Marks
<1>3. Loops' /\ LinesPlaced'
  BY <1>0, InputFixed DEF SizeItem, LInv, Loops, LinesPlaced
<1> QED
  BY <1>0, <1>1, <1>2, <1>3, InputFixed DEF LInv

LEMMA SizeDoneLInv ==
    ASSUME LInv, sectorSize = 512, SizeDone
    PROVE  LInv'
<1>0. UNCHANGED input /\ disk \in Disks
  BY DEF SizeDone, LInv, TypeOK
<1>1. TypeOK'
  BY <1>0, InputFixed, DiskFacts DEF SizeDone, LInv, TypeOK
<1>2. Marks'
  <2>1. i = N + 1 /\ N \in Nat /\ i - 1 = N
    BY <1>0, DiskFacts DEF SizeDone, LInv, Marks
  <2>2. imageBytes' = imageBytes + (IF disk.schema = "gpt" THEN 34 * 512 ELSE 0)
    BY DEF SizeDone, secondary_gpt_sectors, gpt_partition_entries_sectors,
       PARTITION_HEADER_SECTORS, SECTOR_SIZE_4K
  <2> QED
    BY <1>0, <2>1, <2>2, InputFixed DEF SizeDone, LInv, Marks
<1>3. Loops' /\ LinesPlaced'
  BY <1>0, InputFixed DEF SizeDone, LInv, Loops, LinesPlaced
<1> QED
  BY <1>0, <1>1, <1>2, <1>3, InputFixed DEF LInv

(* A step that leaves the marks alone.                                     *)
LEMMA MarksKept ==
    ASSUME LInv, sectorSize = 512, UNCHANGED <<input, imageBytes, sized>>,
           pc # "size", pc' # "size"
    PROVE  Marks'
BY InputFixed DEF LInv, Marks

LEMMA RejectLInv ==
    ASSUME LInv, sectorSize = 512, Reject
    PROVE  LInv'
<1>0. UNCHANGED input /\ disk \in Disks
  BY DEF Reject, LInv, TypeOK
<1>1. TypeOK'
  BY <1>0, InputFixed, DiskFacts DEF Reject, LInv, TypeOK
<1>2. Marks'
  BY MarksKept DEF Reject
<1>3. Loops' /\ LinesPlaced'
  BY <1>0, InputFixed DEF Reject, LInv, Loops, LinesPlaced
<1> QED
  BY <1>0, <1>1, <1>2, <1>3, InputFixed DEF LInv

LEMMA LayoutBeginLInv ==
    ASSUME LInv, sectorSize = 512, LayoutBegin
    PROVE  LInv'
<1>0. UNCHANGED input /\ disk \in Disks
  BY DEF LayoutBegin, LInv, TypeOK
<1>1. TypeOK'
  BY <1>0, InputFixed, DiskFacts DEF LayoutBegin, LInv, TypeOK
<1>2. Marks'
  BY MarksKept DEF LayoutBegin
<1>3. Loops'
  BY <1>0, InputFixed, PrimaryFacts, DiskFacts DEF LayoutBegin, LInv, Loops, Marks
<1>4. LinesPlaced'
  BY <1>0, InputFixed DEF LayoutBegin, LInv, Loops, LinesPlaced
<1> QED
  BY <1>0, <1>1, <1>2, <1>3, <1>4, InputFixed DEF LInv

(* What the marks say once they are complete.                              *)
LEMMA MarkFacts ==
    ASSUME LInv, sectorSize = 512, pc # "size"
    PROVE  /\ \A k \in 0..N : sized[k] \in Nat
           /\ sized[0] = 2048 * 512
           /\ imageBytes = sized[N] + (IF disk.schema = "gpt" THEN 34 * 512 ELSE 0)
           /\ \A k \in 1..N :
                 /\ Sectors(k) \in Nat
                 /\ sized[k] = sized[k - 1] + Sectors(k) * 512
                                  + (IF k > LastPrimary THEN 2048 * 512 ELSE 0)
           /\ \A j, k \in 0..N : j <= k => sized[j] <= sized[k]
<1>1. Marks /\ disk \in Disks /\ N \in Nat /\ Items = 1..N
  BY DiskFacts DEF LInv, TypeOK
<1>2. /\ sized \in [0..N -> Nat] /\ sized[0] = 2048 * 512
      /\ imageBytes = sized[N] + (IF disk.schema = "gpt" THEN 34 * 512 ELSE 0)
  BY <1>1 DEF Marks
<1>3. \A j, k \in 0..N : j <= k => sized[j] <= sized[k]
  BY <1>1, <1>2 DEF Marks
<1>4. ASSUME NEW k \in 1..N
      PROVE  /\ Sectors(k) \in Nat
             /\ sized[k] = sized[k - 1] + Sectors(k) * 512
                              + (IF k > LastPrimary THEN 2048 * 512 ELSE 0)
  <2>1. k \in DOMAIN sized /\ k # 0 /\ k \in Items
    BY <1>1, <1>2
  <2>2. sized[k] = sized[k - 1] + Sectors(k) * 512 + EbrOverhead(k)
    <3>1. \A m \in DOMAIN sized : m # 0 =>
             sized[m] = sized[m - 1] + Sectors(m) * 512 + EbrOverhead(m)
      BY <1>1 DEF Marks
    <3> QED
      BY <2>1, <3>1
  <2>3. /\ Sectors(k) \in Nat
        /\ EbrOverhead(k) = IF k > LastPrimary THEN 2048 * 512 ELSE 0
    BY <1>1, <2>1, SectorFacts
  <2> QED
    BY <2>2, <2>3
<1> QED
  BY <1>2, <1>3, <1>4

(* Appending one line leaves the others where they are.                    *)
LEMMA OtherLinesPlaced ==
    ASSUME LInv, sectorSize = 512, UNCHANGED <<input, sized>>,
           NEW l \in LineType, lines' = Append(lines, l)
    PROVE  /\ lines' \in Seq(LineType)
           /\ DOMAIN lines' = 1..(Len(lines) + 1)
           /\ lines'[Len(lines) + 1] = l
           /\ \A n \in 1..Len(lines) :
                 /\ n <= LastPrimary => PrimaryLine(n)'
                 /\ n = LastPrimary + 1 => ExtendedLine(n)'
                 /\ n > LastPrimary + 1 => LogicalLine(n)'
<1>1. lines \in Seq(LineType)
  BY DEF LInv, TypeOK
<1>2. \A n \in 1..Len(lines) : lines'[n] = lines[n]
  BY <1>1
<1> QED
  BY <1>1, <1>2, InputFixed DEF LInv, LinesPlaced, PrimaryLine, ExtendedLine, LogicalLine

LEMMA PrimaryItemLInv ==
    ASSUME LInv, sectorSize = 512, PrimaryItem
    PROVE  LInv'
<1>0. UNCHANGED input /\ disk \in Disks
  BY DEF PrimaryItem, LInv, TypeOK
<1>1. /\ N \in Nat /\ LastPrimary \in 1..N /\ i \in 1..LastPrimary /\ i \in Items
      /\ Len(lines) = i - 1 /\ start * 512 = sized[i - 1] /\ start \in Nat
      /\ extSectors = 0
  BY <1>0, DiskFacts, PrimaryFacts DEF PrimaryItem, LInv, Loops, TypeOK
<1>2. Sectors(i) \in Nat /\ EbrOverhead(i) = 0
  BY <1>0, <1>1, SectorFacts
<1> DEFINE l == Line(i, start, Sectors(i), structure[i].number)
<1>3. l \in LineType
  <2>1. structure[i].number \in (1..128) \cup {None}
    BY <1>0, <1>1, DiskFacts
  <2>2. i \in Nat
    BY <1>1
  <2> QED
    BY <1>1, <1>2, <2>1, <2>2 DEF Line, LineType
<1>4. /\ lines' = Append(lines, l) /\ start' = start + Sectors(i) /\ i' = i + 1
      /\ pc = "primary" /\ UNCHANGED <<pc, imageBytes, sized, extSectors>>
  BY DEF PrimaryItem
<1>5. /\ lines' \in Seq(LineType)
      /\ DOMAIN lines' = 1..i /\ Len(lines') = i
      /\ lines'[i] = l
      /\ \A n \in 1..(i - 1) :
            /\ n <= LastPrimary => PrimaryLine(n)'
            /\ n = LastPrimary + 1 => ExtendedLine(n)'
            /\ n > LastPrimary + 1 => LogicalLine(n)'
  BY <1>0, <1>1, <1>3, <1>4, OtherLinesPlaced DEF LInv, TypeOK
<1>6. TypeOK'
  <2>1. start' \in Nat /\ i' \in Nat /\ extSectors' \in Nat
    BY <1>1, <1>2, <1>4
  <2> QED
    BY <1>0, <1>4, <1>5, <2>1, InputFixed DEF LInv, TypeOK
<1>7. Marks'
  BY <1>0, <1>4, MarksKept
<1>8. sized[i] = sized[i - 1] + Sectors(i) * 512 /\ sized[i - 1] \in Nat
  <2>1. i \in 1..N /\ i - 1 \in 0..N /\ ~(i > LastPrimary)
    BY <1>1
  <2> QED
    BY <1>2, <1>4, <2>1, MarkFacts
<1>9. Loops'
  <2>1. start' * 512 = sized'[i' - 1]
    BY <1>1, <1>2, <1>4, <1>8
  <2>2. i' \in 1..(LastPrimary + 1) /\ Len(lines') = i' - 1
    BY <1>1, <1>4, <1>5
  <2> QED
    BY <1>0, <1>1, <1>4, <2>1, <2>2, InputFixed DEF Loops
<1>10. ASSUME NEW n, n = i PROVE PrimaryLine(n)'
  BY <1>0, <1>1, <1>4, <1>5, <1>10, InputFixed DEF PrimaryLine, Line
<1>11. LinesPlaced'
  <2> SUFFICES ASSUME NEW n \in 1..i
               PROVE  /\ n <= LastPrimary => PrimaryLine(n)'
                      /\ n = LastPrimary + 1 => ExtendedLine(n)'
                      /\ n > LastPrimary + 1 => LogicalLine(n)'
    BY <1>0, <1>5, InputFixed DEF LinesPlaced
  <2>1. CASE n = i
    BY <1>1, <1>10, <2>1
  <2>2. CASE n # i
    BY <1>1, <1>5, <2>2
  <2> QED
    BY <2>1, <2>2
<1> QED
  BY <1>0, <1>6, <1>7, <1>9, <1>11, InputFixed DEF LInv

LEMMA PrimariesDoneLInv ==
    ASSUME LInv, sectorSize = 512, PrimariesDone
    PROVE  LInv'
<1>0. UNCHANGED <<input, i, imageBytes, sized, start, extSectors, lines>>
      /\ disk \in Disks /\ pc = "primary"
  BY DEF PrimariesDone, LInv, TypeOK
<1>1. /\ N \in Nat /\ LastPrimary \in 1..N /\ i = LastPrimary + 1
      /\ Len(lines) = LastPrimary /\ start * 512 = sized[LastPrimary]
      /\ start \in Nat /\ extSectors = 0
  BY <1>0, DiskFacts, PrimaryFacts DEF PrimariesDone, LInv, Loops, TypeOK
<1>2. \/ ~NeedsExtended /\ LastPrimary = N /\ pc' = "sfdisk"
      \/ NeedsExtended /\ LastPrimary < N /\ pc' = "extend"
  <2>1. Logicals = (LastPrimary + 1)..N
    BY <1>0, PrimaryFacts
  <2>2. CASE NeedsExtended
    <3>1. LastPrimary < N /\ N \in (LastPrimary + 1)..N
      BY <1>0, <1>1, <2>2, PrimaryFacts
    <3> QED
      BY <2>1, <2>2, <3>1 DEF PrimariesDone
  <2>3. CASE ~NeedsExtended
    <3>1. LastPrimary = N /\ (LastPrimary + 1)..N = {}
      BY <1>0, <1>1, <2>3, PrimaryFacts
    <3> QED
      BY <2>1, <2>3, <3>1 DEF PrimariesDone
  <2> QED
    BY <2>2, <2>3
<1>3. TypeOK'
  BY <1>0, <1>2, InputFixed DEF LInv, TypeOK
<1>4. Marks'
  BY <1>0, <1>2, MarksKept
<1>5. Loops'
  BY <1>0, <1>1, <1>2, InputFixed DEF Loops
<1>6. LinesPlaced'
  BY <1>0, InputFixed DEF LInv, LinesPlaced, PrimaryLine, ExtendedLine, LogicalLine
<1> QED
  BY <1>0, <1>3, <1>4, <1>5, <1>6, InputFixed DEF LInv

LEMMA ExtendItemLInv ==
    ASSUME LInv, sectorSize = 512, ExtendItem
    PROVE  LInv'
<1>0. UNCHANGED <<input, pc, imageBytes, sized, start, lines>>
      /\ disk \in Disks /\ pc = "extend"
  BY DEF ExtendItem, LInv, TypeOK
<1>1. /\ N \in Nat /\ LastPrimary \in 1..N /\ i \in (LastPrimary + 1)..N /\ i \in Items
      /\ start \in Nat /\ extSectors \in Nat /\ NeedsExtended
      /\ Len(lines) = LastPrimary /\ start * 512 = sized[LastPrimary]
      /\ (start + extSectors) * 512 = sized[i - 1]
  BY <1>0, DiskFacts, PrimaryFacts DEF ExtendItem, LInv, Loops, TypeOK
<1>2. Sectors(i) \in Nat /\ EbrOverhead(i) = 2048 * 512
  BY <1>0, <1>1, SectorFacts
<1>3. extSectors' = extSectors + 2048 + Sectors(i) /\ i' = i + 1
  BY DEF ExtendItem, EBR_OVERHEAD_SECTORS
<1>4. TypeOK'
  BY <1>0, <1>1, <1>2, <1>3, InputFixed DEF LInv, TypeOK
<1>5. Marks'
  BY <1>0, MarksKept
<1>6. sized[i] = sized[i - 1] + Sectors(i) * 512 + 2048 * 512 /\ sized[i - 1] \in Nat
  <2>1. i \in 1..N /\ i - 1 \in 0..N /\ i > LastPrimary
    BY <1>1
  <2> QED
    BY <1>0, <1>2, <2>1, MarkFacts
<1>7. Loops'
  <2>1. (start' + extSectors') * 512 = sized'[i' - 1]
    BY <1>0, <1>1, <1>2, <1>3, <1>6
  <2>2. i' \in (LastPrimary + 1)..(N + 1)
    BY <1>1, <1>3
  <2> QED
    BY <1>0, <1>1, <2>1, <2>2, InputFixed DEF Loops
<1>8. LinesPlaced'
  BY <1>0, InputFixed DEF LInv, LinesPlaced, PrimaryLine, ExtendedLine, LogicalLine
<1> QED
  BY <1>0, <1>4, <1>5, <1>7, <1>8, InputFixed DEF LInv

LEMMA ExtendDoneLInv ==
    ASSUME LInv, sectorSize = 512, ExtendDone
    PROVE  LInv'
<1>0. /\ UNCHANGED <<input, imageBytes, sized, extSectors>>
      /\ disk \in Disks /\ pc = "extend" /\ pc' = "logical"
  BY DEF ExtendDone, LInv, TypeOK
<1>1. /\ N \in Nat /\ LastPrimary \in 1..N /\ i = N + 1
      /\ start \in Nat /\ extSectors \in Nat /\ NeedsExtended /\ LastPrimary < N
      /\ Len(lines) = LastPrimary /\ start * 512 = sized[LastPrimary]
      /\ (start + extSectors) * 512 = sized[N]
  BY <1>0, DiskFacts, PrimaryFacts DEF ExtendDone, LInv, Loops, TypeOK
<1> DEFINE l == Line(0, start, extSectors, None)
<1>2. l \in LineType
  BY <1>1 DEF Line, LineType
<1>3. lines' = Append(lines, l) /\ start' = start + 2048 /\ i' = LastPrimary + 1
  BY DEF ExtendDone, EBR_OVERHEAD_SECTORS
<1>4. /\ lines' \in Seq(LineType)
      /\ DOMAIN lines' = 1..(LastPrimary + 1) /\ Len(lines') = LastPrimary + 1
      /\ lines'[LastPrimary + 1] = l
      /\ \A n \in 1..LastPrimary : PrimaryLine(n)'
  BY <1>0, <1>1, <1>2, <1>3, OtherLinesPlaced DEF LInv, TypeOK
<1>5. TypeOK'
  BY <1>0, <1>1, <1>3, <1>4, InputFixed DEF LInv, TypeOK
<1>6. Marks'
  BY <1>0, MarksKept
<1>7. Loops'
  <2>1. start' * 512 = sized'[i' - 1] + 2048 * 512
    BY <1>0, <1>1, <1>3
  <2>2. i' \in (LastPrimary + 1)..(N + 1) /\ Len(lines') = i'
    BY <1>1, <1>3, <1>4
  <2> QED
    BY <1>0, <1>1, <2>1, <2>2, InputFixed DEF Loops
<1>8. ExtendedLine(LastPrimary + 1)'
  BY <1>0, <1>1, <1>4, InputFixed DEF ExtendedLine, Line
<1>9. LinesPlaced'
  BY <1>0, <1>1, <1>4, <1>8, InputFixed DEF LinesPlaced
<1> QED
  BY <1>0, <1>5, <1>6, <1>7, <1>9, InputFixed DEF LInv

LEMMA LogicalItemLInv ==
    ASSUME LInv, sectorSize = 512, LogicalItem
    PROVE  LInv'
<1>0. /\ UNCHANGED <<input, pc, imageBytes, sized, extSectors>>
      /\ disk \in Disks /\ pc = "logical"
  BY DEF LogicalItem, LInv, TypeOK
<1>1. /\ N \in Nat /\ LastPrimary \in 1..N /\ i \in (LastPrimary + 1)..N /\ i \in Items
      /\ start \in Nat /\ NeedsExtended /\ Len(lines) = i
      /\ start * 512 = sized[i - 1] + 2048 * 512
  BY <1>0, DiskFacts, PrimaryFacts DEF LogicalItem, LInv, Loops, TypeOK
<1>2. Sectors(i) \in Nat /\ EbrOverhead(i) = 2048 * 512
  BY <1>0, <1>1, SectorFacts
<1> DEFINE l == Line(i, start, Sectors(i), None)
<1>3. l \in LineType
  BY <1>1, <1>2 DEF Line, LineType
<1>4. lines' = Append(lines, l) /\ start' = start + Sectors(i) + 2048 /\ i' = i + 1
  BY DEF LogicalItem, EBR_OVERHEAD_SECTORS
<1>5. /\ lines' \in Seq(LineType)
      /\ DOMAIN lines' = 1..(i + 1) /\ Len(lines') = i + 1
      /\ lines'[i + 1] = l
      /\ \A n \in 1..i :
            /\ n <= LastPrimary => PrimaryLine(n)'
            /\ n = LastPrimary + 1 => ExtendedLine(n)'
            /\ n > LastPrimary + 1 => LogicalLine(n)'
  BY <1>0, <1>1, <1>3, <1>4, OtherLinesPlaced DEF LInv, TypeOK
<1>6. TypeOK'
  BY <1>0, <1>1, <1>2, <1>4, <1>5, InputFixed DEF LInv, TypeOK
<1>7. Marks'
  BY <1>0, MarksKept
<1>8. sized[i] = sized[i - 1] + Sectors(i) * 512 + 2048 * 512 /\ sized[i - 1] \in Nat
  <2>1. i \in 1..N /\ i - 1 \in 0..N /\ i > LastPrimary
    BY <1>1
  <2> QED
    BY <1>0, <1>2, <2>1, MarkFacts
<1>9. Loops'
  <2>1. start' * 512 = sized'[i' - 1] + 2048 * 512
    <3>1. sized'[i' - 1] = sized[i]
      BY <1>0, <1>1, <1>4
    <3>2. (start + Sectors(i) + 2048) * 512 = start * 512 + Sectors(i) * 512 + 2048 * 512
      BY <1>1, <1>2
    <3>3. sized[i - 1] + 2048 * 512 + Sectors(i) * 512 + 2048 * 512 =
              sized[i - 1] + Sectors(i) * 512 + 2048 * 512 + 2048 * 512
      BY <1>2, <1>8
    <3> QED
      BY <1>1, <1>4, <1>8, <3>1, <3>2, <3>3
  <2>2. i' \in (LastPrimary + 1)..(N + 1) /\ Len(lines') = i'
    BY <1>1, <1>4, <1>5
  <2> QED
    BY <1>0, <1>1, <2>1, <2>2, InputFixed DEF Loops
<1>10. ASSUME NEW n, n = i + 1 PROVE LogicalLine(n)'
  <2>1. n - 1 = i /\ n - 2 = i - 1 /\ n <= N + 1
    BY <1>1, <1>10
  <2> QED
    BY <1>0, <1>1, <1>5, <1>10, <2>1, InputFixed DEF LogicalLine, Line
<1>11. LinesPlaced'
  <2> SUFFICES ASSUME NEW n \in 1..(i + 1)
               PROVE  /\ n <= LastPrimary => PrimaryLine(n)'
                      /\ n = LastPrimary + 1 => ExtendedLine(n)'
                      /\ n > LastPrimary + 1 => LogicalLine(n)'
    BY <1>0, <1>5, InputFixed DEF LinesPlaced
  <2>1. CASE n = i + 1
    BY <1>1, <1>10, <2>1
  <2>2. CASE n # i + 1
    BY <1>1, <1>5, <2>2
  <2> QED
    BY <2>1, <2>2
<1> QED
  BY <1>0, <1>6, <1>7, <1>9, <1>11, InputFixed DEF LInv

LEMMA LogicalsDoneLInv ==
    ASSUME LInv, sectorSize = 512, LogicalsDone
    PROVE  LInv'
<1>0. /\ UNCHANGED <<input, i, imageBytes, sized, start, extSectors, lines>>
      /\ disk \in Disks /\ pc = "logical" /\ pc' = "sfdisk"
  BY DEF LogicalsDone, LInv, TypeOK
<1>1. NeedsExtended /\ Len(lines) = N + 1
  BY <1>0, DiskFacts, PrimaryFacts DEF LogicalsDone, LInv, Loops, TypeOK
<1>2. TypeOK'
  BY <1>0, InputFixed DEF LInv, TypeOK
<1>3. Marks'
  BY <1>0, MarksKept
<1>4. Loops'
  BY <1>0, <1>1, InputFixed DEF Loops
<1>5. LinesPlaced'
  BY <1>0, InputFixed DEF LInv, LinesPlaced, PrimaryLine, ExtendedLine, LogicalLine
<1> QED
  BY <1>0, <1>2, <1>3, <1>4, <1>5, InputFixed DEF LInv

LEMMA SfdiskLInv ==
    ASSUME LInv, sectorSize = 512, Sfdisk
    PROVE  LInv'
<1>0. /\ UNCHANGED <<input, i, imageBytes, sized, start, extSectors, lines>>
      /\ disk \in Disks /\ pc = "sfdisk" /\ pc' \in {"done", "error"}
  BY DEF Sfdisk, LInv, TypeOK
<1>1. TypeOK'
  BY <1>0, InputFixed DEF LInv, TypeOK
<1>2. Marks'
  BY <1>0, MarksKept
<1>3. Loops'
  BY <1>0, InputFixed DEF LInv, Loops
<1>4. LinesPlaced'
  BY <1>0, InputFixed DEF LInv, LinesPlaced, PrimaryLine, ExtendedLine, LogicalLine
<1> QED
  BY <1>0, <1>1, <1>2, <1>3, <1>4, InputFixed DEF LInv

LEMMA NextLInv == LInv /\ [Next]_vars => LInv'
<1> SUFFICES ASSUME LInv, [Next]_vars PROVE LInv'
  OBVIOUS
<1>1. CASE Next /\ sectorSize = 512
  BY <1>1, SizeItemLInv, SizeDoneLInv, RejectLInv, LayoutBeginLInv,
     PrimaryItemLInv, PrimariesDoneLInv, ExtendItemLInv, ExtendDoneLInv,
     LogicalItemLInv, LogicalsDoneLInv, SfdiskLInv DEF Next
(* With another sector size the layout functions do nothing but raise.     *)
<1>2. CASE Next /\ sectorSize # 512
  <2>1. pc \in {"size", "image", "error"} /\ lines = <<>> /\ disk \in Disks
    BY <1>2 DEF LInv, TypeOK
  <2>2. SizeItem \/ SizeDone \/ Reject
    BY <1>2, <2>1 DEF Next, LayoutBegin, PrimaryItem, PrimariesDone, ExtendItem,
       ExtendDone, LogicalItem, LogicalsDone, Sfdisk, SUPPORTED_SECTOR_SIZES,
       SECTOR_SIZE_512
  <2>3. /\ UNCHANGED <<disk, sectorSize, start, extSectors, lines>>
        /\ i' \in Nat /\ pc' \in {"size", "image", "error"}
    BY <2>1, <2>2 DEF SizeItem, SizeDone, Reject, input, LInv, TypeOK
  <2> QED
    BY <1>2, <2>1, <2>3 DEF LInv, TypeOK
<1>3. CASE UNCHANGED vars
  BY <1>3, InputFixed DEF vars, input, LInv, TypeOK, Marks, Loops, LinesPlaced,
     PrimaryLine, ExtendedLine, LogicalLine
<1> QED
  BY <1>1, <1>2, <1>3

LEMMA Invariance == Spec => []LInv
BY InitLInv, NextLInv, PTL DEF Spec

-----------------------------------------------------------------------------
(* Between which marks the partition of line n lies.                       *)
Opens(n) == IF n <= LastPrimary + 1 THEN n - 1 ELSE n - 2
Closes(n) ==
    IF n <= LastPrimary THEN n ELSE IF n = LastPrimary + 1 THEN N ELSE n - 1

LEMMA LineFacts ==
    ASSUME LInv, NEW n \in DOMAIN lines
    PROVE  /\ sectorSize = 512 /\ disk \in Disks /\ pc # "size"
           /\ n \in 1..Len(lines) /\ Len(lines) \in Nat
           /\ lines[n].start \in Nat /\ EndOf(n) \in Nat
           /\ n > LastPrimary => NeedsExtended
           /\ Opens(n) \in 0..N /\ Closes(n) \in 1..N
           /\ lines[n].start * 512 =
                sized[Opens(n)] + (IF n > LastPrimary + 1 THEN 2048 * 512 ELSE 0)
           /\ EndOf(n) * 512 = sized[Closes(n)]
           /\ lines[n].item = (IF n <= LastPrimary THEN n
                               ELSE IF n = LastPrimary + 1 THEN 0 ELSE n - 1)
           /\ lines[n].number = (IF n <= LastPrimary THEN structure[n].number ELSE None)
<1>1. lines # <<>> /\ disk \in Disks /\ lines \in Seq(LineType)
  BY DEF LInv, TypeOK
<1>2. sectorSize = 512 /\ pc # "size"
  BY <1>1 DEF LInv, Loops
<1>3. n \in 1..Len(lines) /\ Len(lines) \in Nat /\ lines[n] \in LineType
  BY <1>1
<1>4. lines[n].start \in Nat /\ EndOf(n) \in Nat
  BY <1>3 DEF LineType, EndOf
<1>5. /\ N \in Nat /\ LastPrimary \in 1..N
      /\ NeedsExtended => LastPrimary = 3 /\ N > 4
  BY <1>1, DiskFacts, PrimaryFacts
<1>6. /\ n <= LastPrimary => PrimaryLine(n)
      /\ n = LastPrimary + 1 => ExtendedLine(n)
      /\ n > LastPrimary + 1 => LogicalLine(n)
  BY <1>2 DEF LInv, LinesPlaced
<1>7. CASE n <= LastPrimary
  <2>1. n \in 1..N /\ Opens(n) = n - 1 /\ Closes(n) = n /\ ~(n > LastPrimary)
    BY <1>3, <1>5, <1>7 DEF Opens, Closes
  <2>2. /\ lines[n].item = n /\ lines[n].number = structure[n].number
        /\ lines[n].start * 512 = sized[n - 1] /\ lines[n].size = Sectors(n)
    BY <1>6, <1>7 DEF PrimaryLine
  <2>3. Sectors(n) \in Nat /\ sized[n] = sized[n - 1] + Sectors(n) * 512
    <3>1. /\ Sectors(n) \in Nat
          /\ sized[n] = sized[n - 1] + Sectors(n) * 512
                          + (IF n > LastPrimary THEN 2048 * 512 ELSE 0)
      BY <1>2, <2>1, MarkFacts
    <3>2. n - 1 \in 0..N /\ sized[n - 1] \in Nat
      BY <1>2, <1>5, <2>1, MarkFacts
    <3> QED
      BY <2>1, <3>1, <3>2
  <2>4. EndOf(n) * 512 = sized[n]
    BY <1>4, <2>2, <2>3 DEF EndOf
  <2> QED
    BY <1>1, <1>2, <1>3, <1>4, <1>5, <1>7, <2>1, <2>2, <2>4
<1>8. CASE n = LastPrimary + 1
  <2>1. Opens(n) = LastPrimary /\ Closes(n) = N /\ ~(n <= LastPrimary)
    BY <1>5, <1>8 DEF Opens, Closes
  <2>2. /\ NeedsExtended /\ lines[n].item = 0 /\ lines[n].number = None
        /\ lines[n].start * 512 = sized[LastPrimary]
        /\ EndOf(n) * 512 = sized[N]
    BY <1>6, <1>8 DEF ExtendedLine, EndOf
  <2>3. Opens(n) \in 0..N /\ Closes(n) \in 1..N
    BY <1>5, <2>1
  <2>4. sized[LastPrimary] \in Nat /\ ~(n > LastPrimary + 1)
    BY <1>2, <1>5, <1>8, MarkFacts
  <2> QED
    BY <1>1, <1>2, <1>3, <1>4, <1>8, <2>1, <2>2, <2>3, <2>4
<1>9. CASE n > LastPrimary + 1
  <2>1. /\ NeedsExtended /\ n <= N + 1
        /\ lines[n].item = n - 1 /\ lines[n].number = None
        /\ lines[n].start * 512 = sized[n - 2] + 2048 * 512
        /\ lines[n].size = Sectors(n - 1)
    BY <1>6, <1>9 DEF LogicalLine
  <2>2. /\ Opens(n) = n - 2 /\ Closes(n) = n - 1
        /\ n - 1 \in 1..N /\ n - 1 > LastPrimary /\ n - 2 \in 0..N
        /\ (n - 1) - 1 = n - 2
    BY <1>3, <1>5, <1>9, <2>1 DEF Opens, Closes
  <2>3. /\ Sectors(n - 1) \in Nat
        /\ sized[n - 1] = sized[n - 2] + Sectors(n - 1) * 512 + 2048 * 512
        /\ sized[n - 2] \in Nat
    BY <1>2, <2>2, MarkFacts
  <2>4. EndOf(n) * 512 = sized[n - 1]
    BY <1>4, <2>1, <2>3 DEF EndOf
  <2>5. ~(n <= LastPrimary) /\ n # LastPrimary + 1
    BY <1>3, <1>5, <1>9
  <2> QED
    BY <1>1, <1>2, <1>3, <1>4, <1>9, <2>1, <2>2, <2>4, <2>5
<1> QED
  BY <1>3, <1>5, <1>7, <1>8, <1>9

(* Only the container is the container.                                    *)
LEMMA ExtendedFacts ==
    ASSUME LInv, NEW n \in DOMAIN lines
    PROVE  n \in Extended <=> n = LastPrimary + 1
<1>1. /\ disk \in Disks /\ n \in 1..Len(lines) /\ Len(lines) \in Nat
      /\ lines[n].item = (IF n <= LastPrimary THEN n
                          ELSE IF n = LastPrimary + 1 THEN 0 ELSE n - 1)
  BY LineFacts
<1>2. LastPrimary \in 1..N /\ N \in Nat
  BY <1>1, DiskFacts, PrimaryFacts
<1>3. lines[n].item = 0 <=> n = LastPrimary + 1
  BY <1>1, <1>2
<1> QED
  BY <1>3 DEF Extended

-----------------------------------------------------------------------------
(* No volume, whatever its items, gets two partitions that share a sector. *)
THEOREM LayoutIsDisjoint == Spec => []PartitionsDisjoint
<1>1. ASSUME LInv PROVE PartitionsDisjoint
  <2> SUFFICES ASSUME NEW m \in DOMAIN lines, NEW n \in DOMAIN lines,
                      m < n, m \notin Extended
               PROVE  EndOf(m) <= lines[n].start
    BY DEF PartitionsDisjoint
  <2>1. m # LastPrimary + 1
    BY <1>1, ExtendedFacts
  <2>2. /\ sectorSize = 512 /\ disk \in Disks /\ pc # "size"
        /\ m \in Nat /\ n \in Nat /\ LastPrimary \in Nat
        /\ EndOf(m) \in Nat /\ lines[n].start \in Nat
        /\ EndOf(m) * 512 = sized[Closes(m)] /\ Closes(m) \in 0..N
        /\ Opens(n) \in 0..N
        /\ lines[n].start * 512 =
              sized[Opens(n)] + (IF n > LastPrimary + 1 THEN 2048 * 512 ELSE 0)
    <3>1. /\ sectorSize = 512 /\ disk \in Disks /\ pc # "size"
          /\ m \in 1..Len(lines) /\ Len(lines) \in Nat
          /\ EndOf(m) \in Nat
          /\ EndOf(m) * 512 = sized[Closes(m)] /\ Closes(m) \in 1..N
      BY <1>1, LineFacts
    <3>2. /\ n \in 1..Len(lines) /\ lines[n].start \in Nat
          /\ Opens(n) \in 0..N
          /\ lines[n].start * 512 =
                sized[Opens(n)] + (IF n > LastPrimary + 1 THEN 2048 * 512 ELSE 0)
      BY <1>1, LineFacts
    <3>3. LastPrimary \in Nat /\ N \in Nat
      BY <3>1, DiskFacts, PrimaryFacts
    <3> QED
      BY <3>1, <3>2, <3>3
  <2>3. Closes(m) <= Opens(n)
    BY <2>1, <2>2 DEF Closes, Opens
  <2>4. /\ sized[Closes(m)] <= sized[Opens(n)]
        /\ sized[Closes(m)] \in Nat /\ sized[Opens(n)] \in Nat
    BY <1>1, <2>2, <2>3, MarkFacts
  <2>5. EndOf(m) * 512 <= lines[n].start * 512
    BY <2>2, <2>4
  <2> QED
    BY <2>2, <2>5
<1> QED
  BY <1>1, Invariance, PTL

(* The size computed by the first loop suffices for the table written by   *)
(* the others, whatever the sizes of the items are rounded to.             *)
THEOREM LayoutFits == Spec => []PartitionsFit
<1>1. ASSUME LInv PROVE PartitionsFit
  <2> SUFFICES ASSUME NEW n \in DOMAIN lines
               PROVE  /\ lines[n].start >= 2048
                      /\ EndOf(n) * sectorSize
                           + (IF disk.schema = "gpt" THEN 33 * sectorSize ELSE 0)
                           <= imageBytes
    BY DEF PartitionsFit, NON_MBR_START_OFFSET
  <2>1. /\ sectorSize = 512 /\ disk \in Disks /\ pc # "size" /\ N \in Nat
        /\ EndOf(n) \in Nat /\ lines[n].start \in Nat
        /\ EndOf(n) * 512 = sized[Closes(n)] /\ Closes(n) \in 0..N
        /\ Opens(n) \in 0..N
        /\ lines[n].start * 512 =
              sized[Opens(n)] + (IF n > LastPrimary + 1 THEN 2048 * 512 ELSE 0)
    BY <1>1, LineFacts, DiskFacts
  <2>2. /\ sized[Closes(n)] <= sized[N]
        /\ sized[0] <= sized[Opens(n)]
        /\ sized[0] = 2048 * 512
        /\ imageBytes = sized[N] + (IF disk.schema = "gpt" THEN 34 * 512 ELSE 0)
        /\ sized[N] \in Nat /\ sized[Closes(n)] \in Nat /\ sized[Opens(n)] \in Nat
    BY <1>1, <2>1, MarkFacts
  <2>3. lines[n].start >= 2048
    BY <2>1, <2>2
  <2>4. EndOf(n) * 512 + (IF disk.schema = "gpt" THEN 33 * 512 ELSE 0) <= imageBytes
    BY <2>1, <2>2
  <2> QED
    BY <2>1, <2>3, <2>4
<1> QED
  BY <1>1, Invariance, PTL

(* Every logical partition and its EBR fit in the container, however many  *)
(* logical partitions there are.                                           *)
THEOREM LogicalsAreNested == Spec => []LogicalsNested
<1>1. ASSUME LInv PROVE LogicalsNested
  <2> SUFFICES ASSUME NEW e \in Extended, NEW n \in DOMAIN lines, n > e
               PROVE  /\ EndOf(n) <= EndOf(e)
                      /\ lines[n].start - 2048 >=
                            (IF n = e + 1 THEN lines[e].start ELSE EndOf(n - 1))
    BY DEF LogicalsNested, EBR_OVERHEAD_SECTORS
  <2>0. e \in DOMAIN lines
    BY DEF Extended
  <2>1. e = LastPrimary + 1
    BY <1>1, <2>0, ExtendedFacts
  <2>2. /\ sectorSize = 512 /\ disk \in Disks /\ pc # "size"
        /\ e \in Nat /\ n \in 1..Len(lines) /\ Len(lines) \in Nat
        /\ LastPrimary \in Nat /\ N \in Nat
    <3>1. /\ sectorSize = 512 /\ disk \in Disks /\ pc # "size"
          /\ e \in 1..Len(lines) /\ n \in 1..Len(lines) /\ Len(lines) \in Nat
      BY <1>1, <2>0, LineFacts
    <3>2. N \in Nat /\ LastPrimary \in 1..N
      BY <3>1, DiskFacts, PrimaryFacts
    <3> QED
      BY <3>1, <3>2
  <2>3. /\ Opens(n) = n - 2 /\ Closes(n) = n - 1 /\ n > LastPrimary + 1
        /\ Opens(e) = LastPrimary /\ Closes(e) = N
    BY <2>1, <2>2 DEF Opens, Closes
  <2>4. /\ EndOf(n) \in Nat /\ lines[n].start \in Nat
        /\ EndOf(n) * 512 = sized[n - 1] /\ n - 1 \in 0..N
        /\ lines[n].start * 512 = sized[n - 2] + 2048 * 512
        /\ n - 2 \in 0..N
    BY <1>1, <2>3, LineFacts
  <2>5. /\ EndOf(e) \in Nat /\ EndOf(e) * 512 = sized[N]
        /\ lines[e].start \in Nat
        /\ lines[e].start * 512 = sized[LastPrimary]
    <3>1. /\ EndOf(e) \in Nat /\ EndOf(e) * 512 = sized[Closes(e)]
          /\ lines[e].start \in Nat
          /\ lines[e].start * 512 =
               sized[Opens(e)] + (IF e > LastPrimary + 1 THEN 2048 * 512 ELSE 0)
          /\ Opens(e) \in 0..N
      BY <1>1, <2>0, LineFacts
    <3>2. sized[Opens(e)] \in Nat
      BY <1>1, <2>2, <3>1, MarkFacts
    <3>3. (IF e > LastPrimary + 1 THEN 2048 * 512 ELSE 0) = 0
      BY <2>1, <2>2
    <3>4. lines[e].start * 512 = sized[LastPrimary]
      BY <2>3, <3>1, <3>2, <3>3
    <3> QED
      BY <2>3, <3>1, <3>4
  <2>6. sized[n - 1] <= sized[N] /\ sized[n - 1] \in Nat /\ sized[N] \in Nat
        /\ sized[n - 2] \in Nat
    <3>1. n - 1 <= N /\ N \in 0..N
      BY <2>2, <2>4
    <3>2. /\ \A k \in 0..N : sized[k] \in Nat
          /\ \A j, k \in 0..N : j <= k => sized[j] <= sized[k]
      BY <1>1, <2>2, MarkFacts
    <3> QED
      BY <2>4, <3>1, <3>2
  <2>7. EndOf(n) <= EndOf(e)
    BY <2>4, <2>5, <2>6
  <2>8. (lines[n].start - 2048) * 512 = sized[n - 2]
    BY <2>4, <2>6
  <2>9. CASE n = e + 1
    <3>1. n - 2 = LastPrimary
      BY <2>1, <2>2, <2>9
    <3>2. lines[n].start - 2048 = lines[e].start
      BY <2>4, <2>5, <2>8, <3>1
    <3> QED
      BY <2>5, <2>7, <2>9, <3>2
  <2>10. CASE n # e + 1
    <3>1. /\ n - 1 \in DOMAIN lines /\ n - 1 > LastPrimary + 1
          /\ Closes(n - 1) = n - 2
      BY <1>1, <2>1, <2>2, <2>10 DEF Closes, LInv, TypeOK
    <3>2. EndOf(n - 1) \in Nat /\ EndOf(n - 1) * 512 = sized[n - 2]
      BY <1>1, <3>1, LineFacts
    <3>3. lines[n].start - 2048 = EndOf(n - 1)
      BY <2>4, <2>8, <3>2
    <3> QED
      BY <2>7, <2>10, <3>2, <3>3
  <2> QED
    BY <2>9, <2>10
<1> QED
  BY <1>1, Invariance, PTL

(* The name of an item finds that item.                                    *)
LEMMA NamesAreFound ==
    ASSUME disk \in Disks, NEW k \in Items
    PROVE  part_num(structure[k].name) =
              IF structure[k].number # None THEN structure[k].number
              ELSE IF NeedsExtended /\ k > PRIMARY_SLOTS_WITH_EXTENDED THEN k + 1
              ELSE k
<1> DEFINE First(j) == /\ structure[j].name = structure[k].name
                       /\ \A m \in 1..(j - 1) : structure[m].name # structure[k].name
<1>1. \A j \in Items : j # k => structure[j].name # structure[k].name
  BY DiskFacts
<1>2. \A m \in 1..(k - 1) : m \in Items /\ m # k
  BY DiskFacts
<1>3. First(k)
  BY <1>1, <1>2
<1>4. \A j \in Items : First(j) <=> j = k
  BY <1>1, <1>3
<1>5. k = FirstNamed(structure[k].name)
  BY <1>4 DEF FirstNamed
<1> QED
  BY <1>5 DEF part_num

(* The three computations of a partition's number agree for every item of  *)
(* every volume.                                                           *)
THEOREM PartitionNumbersAgree == Spec => []NumbersAgree
<1>1. ASSUME LInv PROVE NumbersAgree
  <2> SUFFICES ASSUME NEW n \in DOMAIN lines \ Extended
               PROVE  /\ SfdiskNumber(n) = ServiceNumber(lines[n].item)
                      /\ SfdiskNumber(n) = part_num(structure[lines[n].item].name)
    BY DEF NumbersAgree
  <2> DEFINE k == lines[n].item
  <2>1. n # LastPrimary + 1
    BY <1>1, ExtendedFacts
  <2>2. /\ disk \in Disks /\ n \in 1..Len(lines) /\ Len(lines) \in Nat
        /\ n > LastPrimary => NeedsExtended
        /\ Closes(n) \in 1..N
        /\ k = (IF n <= LastPrimary THEN n
                ELSE IF n = LastPrimary + 1 THEN 0 ELSE n - 1)
        /\ lines[n].number = (IF n <= LastPrimary THEN structure[n].number ELSE None)
    BY <1>1, LineFacts
  <2>3. /\ N \in Nat /\ LastPrimary \in 1..N
        /\ NeedsExtended => LastPrimary = 3 /\ disk.schema = "mbr"
        /\ Items = 1..N
    BY <2>2, DiskFacts, PrimaryFacts
  <2>4. k = Closes(n) /\ k \in Items
    BY <2>1, <2>2, <2>3 DEF Closes
  <2>5. k > LastPrimary <=> n > LastPrimary
    BY <2>1, <2>2, <2>3
  <2>6. k > LastPrimary => structure[k].number = None
    BY <2>2, <2>3, <2>4, <2>5, DiskFacts
  <2>7. NeedsExtended /\ k > PRIMARY_SLOTS_WITH_EXTENDED <=> n > LastPrimary
    BY <2>2, <2>3, <2>5 DEF PRIMARY_SLOTS_WITH_EXTENDED
  <2>8. SfdiskNumber(n) = ServiceNumber(k)
    <3>1. CASE n <= LastPrimary
      BY <2>2, <2>3, <2>7, <3>1 DEF SfdiskNumber, ServiceNumber
    <3>2. CASE n > LastPrimary
      <4>1. k + 1 = n /\ lines[n].number = None
        BY <2>1, <2>2, <2>3, <3>2
      <4> QED
        BY <2>7, <3>2, <4>1 DEF SfdiskNumber, ServiceNumber
    <3> QED
      BY <2>2, <2>3, <3>1, <3>2
  <2>9. part_num(structure[k].name) =
          IF structure[k].number # None THEN structure[k].number
          ELSE IF NeedsExtended /\ k > PRIMARY_SLOTS_WITH_EXTENDED THEN k + 1
          ELSE k
    BY <2>2, <2>4, NamesAreFound
  <2>10. ServiceNumber(k) = part_num(structure[k].name)
    BY <2>3, <2>6, <2>7, <2>5, <2>2, <2>9 DEF ServiceNumber
  <2> QED
    BY <2>8, <2>10
<1> QED
  BY <1>1, Invariance, PTL

(* No structure item is left out of the table.                             *)
THEOREM ItemsHaveLines == Spec => []EveryItemHasALine
<1>1. ASSUME LInv PROVE EveryItemHasALine
  <2> SUFFICES ASSUME Scripted, NEW k \in Items
               PROVE  \E n \in DOMAIN lines : lines[n].item = k
    BY DEF EveryItemHasALine
  <2>1. /\ sectorSize = 512 /\ disk \in Disks /\ lines \in Seq(LineType)
        /\ Len(lines) = IF NeedsExtended THEN N + 1 ELSE N
    BY <1>1 DEF Scripted, LInv, TypeOK, Loops
  <2>2. /\ N \in Nat /\ LastPrimary \in 1..N /\ k \in 1..N
        /\ NeedsExtended => LastPrimary = 3
        /\ ~NeedsExtended => LastPrimary = N
    BY <2>1, DiskFacts, PrimaryFacts
  <2>3. CASE k <= LastPrimary
    <3>1. k \in DOMAIN lines
      BY <2>1, <2>2, <2>3
    <3>2. lines[k].item = k
      BY <1>1, <2>3, <3>1, LineFacts
    <3> QED
      BY <3>1, <3>2
  <2>4. CASE k > LastPrimary
    <3>1. k + 1 \in DOMAIN lines /\ k + 1 > LastPrimary + 1
          /\ ~(k + 1 <= LastPrimary) /\ k + 1 # LastPrimary + 1 /\ (k + 1) - 1 = k
      BY <2>1, <2>2, <2>4
    <3>2. lines[k + 1].item = k
      BY <1>1, <3>1, LineFacts
    <3> QED
      BY <3>1, <3>2
  <2> QED
    BY <2>2, <2>3, <2>4
<1> QED
  BY <1>1, Invariance, PTL

=============================================================================
