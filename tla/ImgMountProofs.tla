--------------------------- MODULE ImgMountProofs ---------------------------
(***************************************************************************)
(* For any images, files, names and devices: a mounted partition keeps its *)
(* device, a directory shows the partition it is named after, and what     *)
(* `mount' and `umount' report as done is done.                            *)
(***************************************************************************)
EXTENDS ImgMount, SequenceTheorems, TLAPS

Mounting == pc \in {"scan", "mount", "mount_at"}
Unmounting == pc \in {"umount", "detach"}

FilesDiffer == \A p, q \in Images : file[p] = file[q] => p = q

(* The device of an invocation of mount is attached, and to no other image.*)
DeviceAttached ==
    Mounting =>
        /\ backing[device] # None
        /\ \A p \in Images : backing[device] = file[p] => p = image

(* The names are those of the file that is still at the path: replacing    *)
(* it leaves no device on the file that is there then.                     *)
TableCurrent ==
    /\ pc \in {"mount", "mount_at"} /\ backing[device] = file[image] =>
          table = Layout[file[image]]
    /\ Unmounting => \A d \in Devices :
          backing[d] = file[image] => table = Layout[file[image]]

MountedSoFar ==
    pc \in {"mount", "mount_at"} =>
        \A j \in DOMAIN table : j < k =>
            [point |-> table[j], device |-> device, part |-> j] \in mounts

UnmountedSoFar ==
    /\ pc \in {"umount", "detach"} =>
          \A j \in DOMAIN table : j < k => ~IsMount(table[j])
    /\ pc = "detach" => dirs = {} /\ k \notin DOMAIN table

Success ==
    pc = "idle" /\ outcome = "unmounted" =>
        /\ dirs = {}
        /\ \A j \in DOMAIN table : ~IsMount(table[j])
        /\ \A d \in Devices : backing[d] # file[image]

DirectoriesGone ==
    pc = "umount" => \A j \in DOMAIN table : j < k => table[j] \notin dirs

AtName == pc = "mount_at" => AtPartition

MInv ==
    /\ TypeOK
    /\ k >= 1
    /\ FilesDiffer
    /\ DeviceAttached
    /\ TableCurrent
    /\ MountedSoFar
    /\ UnmountedSoFar
    /\ DirectoriesGone
    /\ AtName
    /\ MountsKeepTheirDevice
    /\ DirectoriesShowTheirPartition
    /\ MountIsComplete
    /\ Success

-----------------------------------------------------------------------------
(* The table of a file is a sequence, and so is a beginning of it.         *)
LEMMA TablesAreSequences ==
  ASSUME ToolAssumption, NEW i \in Inodes, NEW n \in Nat, n <= Len(Layout[i])
  PROVE  /\ Layout[i] \in Seq(Names \cup {None})
         /\ Len(Layout[i]) \in Nat
         /\ DOMAIN Layout[i] = 1..Len(Layout[i])
         /\ SubSeq(Layout[i], 1, n) \in Seq(Names \cup {None})
         /\ DOMAIN SubSeq(Layout[i], 1, n) = 1..n
<1>1. Layout[i] \in Seq(Names \cup {None})
  BY DEF ToolAssumption
<1>2. /\ Len(Layout[i]) \in Nat
      /\ DOMAIN Layout[i] = 1..Len(Layout[i])
  BY <1>1
<1>3. \A j \in 1..n : Layout[i][j] \in Names \cup {None}
  BY <1>1, <1>2
<1>4. SubSeq(Layout[i], 1, n) = [j \in 1..n |-> Layout[i][j]]
  BY <1>1, <1>2
<1>5. SubSeq(Layout[i], 1, n) \in Seq(Names \cup {None})
  BY <1>3, <1>4, SeqDef
<1> QED
  BY <1>1, <1>2, <1>4, <1>5

LEMMA InitInvariant == ASSUME ToolAssumption, Init PROVE MInv
  BY DEF Init, MInv, TypeOK, FilesDiffer, DeviceAttached, TableCurrent, MountedSoFar,
         UnmountedSoFar, DirectoriesGone, AtName, MountsKeepTheirDevice, DirectoriesShowTheirPartition,
         MountIsComplete, Success, Mounting, Unmounting, ToolAssumption

USE DEF host

(* What ends an invocation without success.                                *)
LEMMA FailingSteps ==
  ASSUME ToolAssumption, MInv, Exit("failed"), UNCHANGED host
  PROVE  MInv'
  BY DEF Exit, MInv, TypeOK, FilesDiffer, DeviceAttached, TableCurrent, MountedSoFar,
         UnmountedSoFar, DirectoriesGone, AtName, MountsKeepTheirDevice, DirectoriesShowTheirPartition,
         MountIsComplete, Success, Mounting, Unmounting, IsMount

(* A device that was unbound carries no mount.                             *)
LEMMA AttachStep ==
  ASSUME ToolAssumption, MInv, NEW p \in Images, AttachLoopdev(p)
  PROVE  MInv'
  BY DEF AttachLoopdev, Mounts, MInv, TypeOK, FilesDiffer, DeviceAttached, TableCurrent, MountedSoFar,
         UnmountedSoFar, DirectoriesGone, AtName, MountsKeepTheirDevice, DirectoriesShowTheirPartition,
         MountIsComplete, Success, Mounting, Unmounting, IsMount, AtPartition

(* The directory is made before anything is mounted there.                 *)
LEMMA MakeMountPointStep ==
  ASSUME ToolAssumption, MInv, MakeMountPoint
  PROVE  MInv'
  BY DEF MakeMountPoint, MInv, TypeOK, FilesDiffer, DeviceAttached, TableCurrent, MountedSoFar,
         UnmountedSoFar, DirectoriesGone, AtName, MountsKeepTheirDevice, DirectoriesShowTheirPartition,
         MountIsComplete, Success, Mounting, Unmounting, IsMount, AtPartition

(* The new mount is the only one at its point, and under its name.         *)
LEMMA MountPartitionStep ==
  ASSUME ToolAssumption, MInv, MountPartition
  PROVE  MInv'
  BY DEF MountPartition, Mounts, MInv, TypeOK, FilesDiffer, DeviceAttached, TableCurrent, MountedSoFar,
         UnmountedSoFar, DirectoriesGone, AtName, MountsKeepTheirDevice, DirectoriesShowTheirPartition,
         MountIsComplete, Success, Mounting, Unmounting, IsMount, AtPartition

(* At the end of the loop everything is mounted.                           *)
LEMMA MountDoneStep ==
  ASSUME ToolAssumption, MInv, MountDone
  PROVE  MInv'
  BY DEF MountDone, Exit, MInv, TypeOK, FilesDiffer, DeviceAttached, TableCurrent, MountedSoFar,
         UnmountedSoFar, DirectoriesGone, AtName, MountsKeepTheirDevice, DirectoriesShowTheirPartition,
         MountIsComplete, Success, Mounting, Unmounting, IsMount, AtPartition

(* The invocation of umount begins.                                        *)
LEMMA UmountBegins ==
  ASSUME ToolAssumption, MInv, NEW p \in Images, Umount(p)
  PROVE  MInv'
  BY DEF Umount, ToolAssumption, MInv, TypeOK, FilesDiffer, DeviceAttached, TableCurrent, MountedSoFar,
         UnmountedSoFar, DirectoriesGone, AtName, MountsKeepTheirDevice, DirectoriesShowTheirPartition,
         MountIsComplete, Success, Mounting, Unmounting, IsMount, AtPartition

(* One mount less.                                                         *)
LEMMA UmountPartitionStep ==
  ASSUME ToolAssumption, MInv, UmountPartition
  PROVE  MInv'
  BY DEF UmountPartition, MInv, TypeOK, FilesDiffer, DeviceAttached, TableCurrent, MountedSoFar,
         UnmountedSoFar, DirectoriesGone, AtName, MountsKeepTheirDevice, DirectoriesShowTheirPartition,
         MountIsComplete, Success, Mounting, Unmounting, IsMount, AtPartition

(* The mount point of this round is free.                                  *)
LEMMA RemoveMountPointStep ==
  ASSUME ToolAssumption, MInv, RemoveMountPoint
  PROVE  MInv'
  BY DEF RemoveMountPoint, MInv, TypeOK, FilesDiffer, DeviceAttached, TableCurrent, MountedSoFar,
         UnmountedSoFar, DirectoriesGone, AtName, MountsKeepTheirDevice, DirectoriesShowTheirPartition,
         MountIsComplete, Success, Mounting, Unmounting, IsMount, AtPartition

(* Every round is over.                                                    *)
LEMMA RemoveRootStep ==
  ASSUME ToolAssumption, MInv, RemoveRoot
  PROVE  MInv'
  BY DEF RemoveRoot, MInv, TypeOK, FilesDiffer, DeviceAttached, TableCurrent, MountedSoFar,
         UnmountedSoFar, DirectoriesGone, AtName, MountsKeepTheirDevice, DirectoriesShowTheirPartition,
         MountIsComplete, Success, Mounting, Unmounting, IsMount, AtPartition

(* The device carries no mount: its partitions are named in the table.     *)
LEMMA DetachStep ==
  ASSUME ToolAssumption, MInv, NEW d \in Devices, DetachLoopdev(d)
  PROVE  MInv'
  BY DEF DetachLoopdev, Mounts, MInv, TypeOK, FilesDiffer, DeviceAttached, TableCurrent, MountedSoFar,
         UnmountedSoFar, DirectoriesGone, AtName, MountsKeepTheirDevice, DirectoriesShowTheirPartition,
         MountIsComplete, Success, Mounting, Unmounting, IsMount, AtPartition

(* No device is left on the file, and every round of the loop is over.     *)
LEMMA UmountDoneStep ==
  ASSUME ToolAssumption, MInv, UmountDone
  PROVE  MInv'
<1>1. table \in Seq(Names \cup {None}) /\ k \in Nat /\ k >= 1 /\ k \notin DOMAIN table
  BY DEF MInv, TypeOK, UnmountedSoFar, UmountDone
<1>2. \A j \in DOMAIN table : j < k
  BY <1>1
<1>3. Success'
  BY <1>2 DEF Success, UmountDone, Exit, MInv, UnmountedSoFar, IsMount
<1> QED
  BY <1>3 DEF UmountDone, Exit, MInv, TypeOK, FilesDiffer, DeviceAttached, TableCurrent,
         MountedSoFar, UnmountedSoFar, DirectoriesGone, AtName, MountsKeepTheirDevice,
         DirectoriesShowTheirPartition, MountIsComplete, Mounting, Unmounting

(* Only as many names are taken as the device has partitions; all of them  *)
(* when the device is on the file the names were read from.                *)
LEMMA ReadPartitionsStep ==
  ASSUME ToolAssumption, MInv, ReadPartitions
  PROVE  MInv'
<1> DEFINE devices == Layout[backing[device]]
           names == Layout[file[image]]
<1>1. backing[device] \in Inodes /\ file[image] \in Inodes
  BY DEF MInv, TypeOK, DeviceAttached, Mounting, ReadPartitions
<1>2. Len(devices) \in Nat /\ Len(names) \in Nat /\ names \in Seq(Names \cup {None})
  BY <1>1 DEF ToolAssumption
<1>3. /\ table' \in Seq(Names \cup {None})
      /\ devices = names => table' = names
  BY <1>1, <1>2, TablesAreSequences DEF ReadPartitions
<1> QED
  BY <1>3 DEF ReadPartitions, MInv, TypeOK, FilesDiffer, DeviceAttached, TableCurrent, MountedSoFar,
         UnmountedSoFar, DirectoriesGone, AtName, MountsKeepTheirDevice, DirectoriesShowTheirPartition,
         MountIsComplete, Success, Mounting, Unmounting, IsMount

(* No device is bound to the new file.                                     *)
LEMMA RepackStep ==
  ASSUME ToolAssumption, MInv, NEW p \in Images, Repack(p)
  PROVE  MInv'
  BY DEF Repack, Mounts, MInv, TypeOK, FilesDiffer, DeviceAttached, TableCurrent, MountedSoFar,
         UnmountedSoFar, DirectoriesGone, AtName, MountsKeepTheirDevice, DirectoriesShowTheirPartition,
         MountIsComplete, Success, Mounting, Unmounting, IsMount, AtPartition

-----------------------------------------------------------------------------
LEMMA NextInvariant ==
  ASSUME ToolAssumption, MInv, [Next]_vars
  PROVE  MInv'
<1>1. CASE ReadPartitions
  BY <1>1, ReadPartitionsStep
<1>2. CASE MakeMountPoint
  BY <1>2, MakeMountPointStep
<1>3. CASE MountPartition
  BY <1>3, MountPartitionStep
<1>4. CASE MountDone
  BY <1>4, MountDoneStep
<1>5. CASE UmountPartition
  BY <1>5, UmountPartitionStep
<1>6. CASE RemoveMountPoint
  BY <1>6, RemoveMountPointStep
<1>7. CASE RemoveRoot
  BY <1>7, RemoveRootStep
<1>8. CASE \E d \in Devices : DetachLoopdev(d)
  BY <1>8, DetachStep
<1>9. CASE UmountDone
  BY <1>9, UmountDoneStep
<1>10. CASE RefuseToMount \/ RootNotEmpty \/ Nameless \/ CommandFails \/ UsageError
  BY <1>10, FailingSteps DEF RefuseToMount, RootNotEmpty, Nameless, CommandFails, UsageError
<1>11. CASE \E p \in Images : AttachLoopdev(p)
  BY <1>11, AttachStep
<1>12. CASE \E p \in Images : Umount(p)
  BY <1>12, UmountBegins
<1>13. CASE \E p \in Images : Repack(p)
  BY <1>13, RepackStep
<1>14. CASE UNCHANGED vars
  BY <1>14 DEF vars, MInv, TypeOK, FilesDiffer, DeviceAttached, TableCurrent, MountedSoFar,
         UnmountedSoFar, DirectoriesGone, AtName, MountsKeepTheirDevice, DirectoriesShowTheirPartition,
         MountIsComplete, Success, Mounting, Unmounting, IsMount, AtPartition
<1> QED
  BY <1>1, <1>2, <1>3, <1>4, <1>5, <1>6, <1>7, <1>8, <1>9, <1>10, <1>11, <1>12, <1>13, <1>14
     DEF Next, ToolStep, MountStep, UmountStep

LEMMA Invariance == ASSUME ToolAssumption PROVE Spec => []MInv
<1>1. Init => MInv
  BY InitInvariant
<1>2. MInv /\ [Next]_vars => MInv'
  BY NextInvariant
<1> QED
  BY <1>1, <1>2, PTL DEF Spec

(* The variables keep their types.                                         *)
THEOREM TypeCorrect == ASSUME ToolAssumption PROVE Spec => []TypeOK
<1>1. MInv => TypeOK
  BY DEF MInv
<1> QED
  BY <1>1, Invariance, PTL

(* No invocation detaches a device with a mounted partition, of whatever   *)
(* image, after any failures and replacements.                             *)
THEOREM MountedDevicesStayAttached ==
  ASSUME ToolAssumption PROVE Spec => []MountsKeepTheirDevice
<1>1. MInv => MountsKeepTheirDevice
  BY DEF MInv
<1> QED
  BY <1>1, Invariance, PTL

(* A directory shows the partition it is named after, and nothing lies     *)
(* below it.                                                               *)
THEOREM DirectoriesAreRight ==
  ASSUME ToolAssumption PROVE Spec => []DirectoriesShowTheirPartition
<1>1. MInv => DirectoriesShowTheirPartition
  BY DEF MInv
<1> QED
  BY <1>1, Invariance, PTL

(* A mount that reports success has mounted every partition.               *)
THEOREM SuccessfulMounts == ASSUME ToolAssumption PROVE Spec => []MountIsComplete
<1>1. MInv => MountIsComplete
  BY DEF MInv
<1> QED
  BY <1>1, Invariance, PTL

(* An umount that reports success has left nothing of the image, and one   *)
(* that stops at MP_ROOT none of its directories.                          *)
THEOREM SuccessfulUmounts == ASSUME ToolAssumption PROVE Spec => []UmountIsComplete
<1>1. MInv => UmountIsComplete
  <2> SUFFICES ASSUME MInv, pc = "umount", k \notin DOMAIN table, NEW j \in DOMAIN table
               PROVE  table[j] \notin dirs
    BY DEF MInv, Success, UmountIsComplete
  <2>1. table \in Seq(Names \cup {None}) /\ k \in Nat /\ k >= 1
    BY DEF MInv, TypeOK
  <2>2. j < k
    BY <2>1
  <2> QED
    BY <2>2 DEF MInv, DirectoriesGone
<1> QED
  BY <1>1, Invariance, PTL

=============================================================================
