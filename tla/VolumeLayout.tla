---------------------------- MODULE VolumeLayout ----------------------------
(***************************************************************************)
(* From a volume of the project to a partition table: the size of the      *)
(* image file, the script given to sfdisk, and the number each partition   *)
(* ends up with (pack/gptutil.py, pack/mbrutil.py, pack/diskutil.py).  The *)
(* size and the script come from separate loops over the same structure,   *)
(* and the numbers are computed a second and a third time elsewhere, in    *)
(* services/image.py for the loop paths and in pack/grubutil.py for the    *)
(* mounts: nothing but arithmetic keeps them together.                     *)
(*                                                                         *)
(* One action is one round of a loop.  Only the start, the size and the    *)
(* number of a line of the script are kept.                                *)
(***************************************************************************)
EXTENDS Integers, Sequences

CONSTANTS
    Disks,          \* the volumes of a run, as validated by models/volume.py
    Names,          \* names of structure items
    SectorSizes,    \* sector sizes create_empty_*_image is called with
    None            \* Python's None

SECTOR_SIZE_512 == 512
SECTOR_SIZE_4K == 4096
SUPPORTED_SECTOR_SIZES == {SECTOR_SIZE_512}

NON_MBR_START_OFFSET == 2048
PARTITION_RESERVED_SIZE == NON_MBR_START_OFFSET * SECTOR_SIZE_512
PARTITION_HEADER_SECTORS == 1

MAX_PRIMARY_SLOTS == 4
PRIMARY_SLOTS_WITH_EXTENDED == 3
EBR_OVERHEAD_SECTORS == 2048

(* A structure item: its name, its size in bytes, whether its role is      *)
(* system-boot, and (GPT only) the partition number it asks for.           *)
Item ==
    [name : Names, size : Nat, boot : BOOLEAN, number : (1..128) \cup {None}]

(* The validators of the models: at least one item; numbers for all items  *)
(* or for none, each used once, and none for an MBR item.  Names are       *)
(* unique because craft-parts refuses a partition listed twice.            *)
ValidDisk(d) ==
    /\ d.schema \in {"gpt", "mbr"}
    /\ d.structure # <<>>
    /\ \A j, k \in DOMAIN d.structure :
          LET a == d.structure[j]
              b == d.structure[k]
          IN  /\ a.number = None <=> b.number = None
              /\ j # k => a.name # b.name /\ (a.number # None => a.number # b.number)
              /\ d.schema = "mbr" => a.number = None

ASSUME DisksAssumption ==
    /\ \A d \in Disks :
          /\ d.structure \in Seq(Item)
          /\ ValidDisk(d)
    /\ SectorSizes \subseteq {SECTOR_SIZE_512, SECTOR_SIZE_4K}
    /\ None \notin 1..128

VARIABLES
    disk,        \* the volume
    sectorSize,
    pc,          \* the loop that is running, or where the function stands
    i,           \* the next item of the running loop
    imageBytes,  \* image_bytes of image_size / get_image_size
    sized,       \* history: imageBytes after each item
    start,       \* start, then logical_start
    extSectors,  \* ext_sectors
    lines        \* the partition lines of the sfdisk script

vars == <<disk, sectorSize, pc, i, imageBytes, sized, start, extSectors, lines>>
input == <<disk, sectorSize>>

structure == disk.structure
Items == 1..Len(structure)
NeedsExtended == disk.schema = "mbr" /\ Len(structure) > MAX_PRIMARY_SLOTS
LastPrimary ==
    IF NeedsExtended THEN PRIMARY_SLOTS_WITH_EXTENDED ELSE Len(structure)
Logicals == {k \in Items : k > LastPrimary}

bytes_to_sectors(b) == (b + sectorSize - 1) \div sectorSize
(* Variant: rounds down.                                                   *)
align_to_sectors_down(b) == (b \div sectorSize) * sectorSize

align_to_sectors(b) == (((b - 1) \div sectorSize) + 1) * sectorSize

Sectors(k) == bytes_to_sectors(structure[k].size)

gpt_partition_entries_sectors == IF sectorSize = SECTOR_SIZE_4K THEN 4 ELSE 32

(* Variant: no room for the backup of the partition entries.               *)
secondary_gpt_sectors_header_only == PARTITION_HEADER_SECTORS

secondary_gpt_sectors ==
    PARTITION_HEADER_SECTORS + gpt_partition_entries_sectors + 1

Init ==
    /\ disk \in Disks
    /\ sectorSize \in SectorSizes
    /\ pc = "size"
    /\ i = 1
    /\ imageBytes = PARTITION_RESERVED_SIZE
    /\ sized = [k \in {0} |-> PARTITION_RESERVED_SIZE]
    /\ start = NON_MBR_START_OFFSET
    /\ extSectors = 0
    /\ lines = <<>>

-----------------------------------------------------------------------------
(* image_size and get_image_size, and the file of that size                *)

EbrOverhead(k) ==
    IF NeedsExtended /\ k > PRIMARY_SLOTS_WITH_EXTENDED
    THEN EBR_OVERHEAD_SECTORS * sectorSize
    ELSE 0

SizeItem ==
    /\ pc = "size"
    /\ i \in Items
    /\ imageBytes' = imageBytes + align_to_sectors(structure[i].size) + EbrOverhead(i)
    /\ sized' = [k \in 0..i |-> IF k = i THEN imageBytes' ELSE sized[k]]
    /\ i' = i + 1
    /\ UNCHANGED <<input, pc, start, extSectors, lines>>

SizeDone ==
    /\ pc = "size"
    /\ i \notin Items
    /\ imageBytes' = imageBytes + (IF disk.schema = "gpt"
                                   THEN secondary_gpt_sectors * sectorSize
                                   ELSE 0)
    /\ pc' = "image"
    /\ UNCHANGED <<input, i, sized, start, extSectors, lines>>

(* create_zero_image has made the file; the layout functions look at the   *)
(* sector size, and the MBR one at the roles of the logical partitions.    *)
Reject ==
    /\ pc = "image"
    /\ \/ sectorSize \notin SUPPORTED_SECTOR_SIZES
       \/ \E k \in Logicals : structure[k].boot
    /\ pc' = "error"
    /\ UNCHANGED <<input, i, imageBytes, sized, start, extSectors, lines>>

LayoutBegin ==
    /\ pc = "image"
    /\ sectorSize \in SUPPORTED_SECTOR_SIZES
    /\ \A k \in Logicals : ~structure[k].boot
    /\ pc' = "primary"
    /\ i' = 1
    /\ UNCHANGED <<input, imageBytes, sized, start, extSectors, lines>>

-----------------------------------------------------------------------------
(* _create_gpt_layout and _create_mbr_layout                               *)

Line(item, from, sectors, number) ==
    [item |-> item, start |-> from, size |-> sectors, number |-> number]

(* Variant: the next partition starts at the last sector of this one.      *)
PrimaryItemOverlapping ==
    /\ pc = "primary"
    /\ i \in 1..LastPrimary
    /\ lines' = Append(lines, Line(i, start, Sectors(i), structure[i].number))
    /\ start' = start + (structure[i].size \div sectorSize)
    /\ i' = i + 1
    /\ UNCHANGED <<input, pc, imageBytes, sized, extSectors>>

PrimaryItem ==
    /\ pc = "primary"
    /\ i \in 1..LastPrimary
    /\ lines' = Append(lines, Line(i, start, Sectors(i), structure[i].number))
    /\ start' = start + Sectors(i)
    /\ i' = i + 1
    /\ UNCHANGED <<input, pc, imageBytes, sized, extSectors>>

(* Variant: the container is left to sfdisk.                               *)
PrimariesDoneUnextended ==
    /\ pc = "primary"
    /\ i \notin 1..LastPrimary
    /\ pc' = "sfdisk"
    /\ UNCHANGED <<input, i, imageBytes, sized, start, extSectors, lines>>

PrimariesDone ==
    /\ pc = "primary"
    /\ i \notin 1..LastPrimary
    /\ pc' = IF Logicals = {} THEN "sfdisk" ELSE "extend"
    /\ UNCHANGED <<input, i, imageBytes, sized, start, extSectors, lines>>

(* ext_sectors, the sum over the logical items.                            *)
ExtendItem ==
    /\ pc = "extend"
    /\ i \in Logicals
    /\ extSectors' = extSectors + EBR_OVERHEAD_SECTORS + Sectors(i)
    /\ i' = i + 1
    /\ UNCHANGED <<input, pc, imageBytes, sized, start, lines>>

(* The line of the extended container belongs to no item.                  *)
ExtendDone ==
    /\ pc = "extend"
    /\ i \notin Logicals
    /\ lines' = Append(lines, Line(0, start, extSectors, None))
    /\ start' = start + EBR_OVERHEAD_SECTORS
    /\ i' = LastPrimary + 1
    /\ pc' = "logical"
    /\ UNCHANGED <<input, imageBytes, sized, extSectors>>

(* Variant: no room for the EBR of the next logical partition.             *)
LogicalItemWithoutEbr ==
    /\ pc = "logical"
    /\ i \in Logicals
    /\ lines' = Append(lines, Line(i, start, Sectors(i), None))
    /\ start' = start + Sectors(i)
    /\ i' = i + 1
    /\ UNCHANGED <<input, pc, imageBytes, sized, extSectors>>

LogicalItem ==
    /\ pc = "logical"
    /\ i \in Logicals
    /\ lines' = Append(lines, Line(i, start, Sectors(i), None))
    /\ start' = start + Sectors(i) + EBR_OVERHEAD_SECTORS
    /\ i' = i + 1
    /\ UNCHANGED <<input, pc, imageBytes, sized, extSectors>>

LogicalsDone ==
    /\ pc = "logical"
    /\ i \notin Logicals
    /\ pc' = "sfdisk"
    /\ UNCHANGED <<input, i, imageBytes, sized, start, extSectors, lines>>

(* sfdisk writes the table, or refuses to.                                 *)
Sfdisk ==
    /\ pc = "sfdisk"
    /\ pc' \in {"done", "error"}
    /\ UNCHANGED <<input, i, imageBytes, sized, start, extSectors, lines>>

Next ==
    \/ SizeItem \/ SizeDone \/ Reject \/ LayoutBegin
    \/ PrimaryItem \/ PrimariesDone
    \/ ExtendItem \/ ExtendDone \/ LogicalItem \/ LogicalsDone
    \/ Sfdisk

Spec == Init /\ [][Next]_vars

-----------------------------------------------------------------------------
(* Partition numbers                                                       *)

(* The number sfdisk gives the partition of a line: the one the line asks  *)
(* for, otherwise its place in the script (a logical partition follows the *)
(* container in slot 4).                                                   *)
SfdiskNumber(n) == IF lines[n].number # None THEN lines[n].number ELSE n

(* ImageService._get_partition_numbers, for the loop paths: `number or i'. *)
ServiceNumber(k) ==
    IF NeedsExtended /\ k > PRIMARY_SLOTS_WITH_EXTENDED THEN k + 1
    ELSE IF structure[k].number # None THEN structure[k].number
    ELSE k

(* The first item of that name, as the loop of grubutil._part_num finds it. *)
FirstNamed(name) ==
    CHOOSE j \in Items :
        /\ structure[j].name = name
        /\ \A m \in 1..(j - 1) : structure[m].name # name

(* Variant: slot 4 is not skipped.                                         *)
part_num_by_position(name) ==
    LET k == FirstNamed(name)
    IN  IF structure[k].number # None THEN structure[k].number ELSE k

(* grubutil._part_num, for the mounts.                                     *)
part_num(name) ==
    LET k == FirstNamed(name)
    IN  IF structure[k].number # None THEN structure[k].number
        ELSE IF NeedsExtended /\ k > PRIMARY_SLOTS_WITH_EXTENDED THEN k + 1
        ELSE k

-----------------------------------------------------------------------------
(* Properties of the script that is handed to sfdisk                       *)

Scripted == pc \in {"sfdisk", "done"}
EndOf(n) == lines[n].start + lines[n].size
Extended == {n \in DOMAIN lines : lines[n].item = 0}

(* No two partitions of the table share a sector; the extended container   *)
(* shares none with a primary one.                                         *)
PartitionsDisjoint ==
    \A m, n \in DOMAIN lines :
        m < n /\ m \notin Extended => EndOf(m) <= lines[n].start

(* The file made before is large enough for the script made after: nothing *)
(* starts in the first MiB, nothing ends beyond the file, and a GPT leaves *)
(* the last 33 sectors to the backup table, which sfdisk insists on.       *)
PartitionsFit ==
    Scripted =>
        \A n \in DOMAIN lines :
            /\ lines[n].start >= NON_MBR_START_OFFSET
            /\ EndOf(n) * sectorSize + (IF disk.schema = "gpt" THEN 33 * sectorSize ELSE 0)
                  <= imageBytes

(* Every logical partition lies in the extended container, with 1 MiB for  *)
(* an EBR in front of it that no other partition reaches into.             *)
LogicalsNested ==
    Scripted =>
        \A e \in Extended, n \in DOMAIN lines :
            n > e => /\ EndOf(n) <= EndOf(e)
                     /\ lines[n].start - EBR_OVERHEAD_SECTORS >=
                            (IF n = e + 1 THEN lines[e].start ELSE EndOf(n - 1))

(* The loop path a part or the pack service writes to, the device GRUB     *)
(* mounts, and the partition in the table are the same one, for every      *)
(* structure item.                                                         *)
NumbersAgree ==
    Scripted =>
        \A n \in DOMAIN lines \ Extended :
            LET k == lines[n].item
            IN  /\ SfdiskNumber(n) = ServiceNumber(k)
                /\ SfdiskNumber(n) = part_num(structure[k].name)

(* Every structure item gets a partition.                                  *)
EveryItemHasALine ==
    Scripted => \A k \in Items : \E n \in DOMAIN lines : lines[n].item = k

=============================================================================
