------------------------------ MODULE ImgMount ------------------------------
(***************************************************************************)
(* tools/imgmount.py: `imgmount FILE' attaches an image to a loop device   *)
(* and mounts its partitions below /mnt/imagecraft, each in a directory    *)
(* named after the partition; `imgmount umount FILE' takes it all back.    *)
(*                                                                         *)
(* The tool keeps nothing between two invocations: what is mounted where,  *)
(* and from which file, has to be found again from the host, by the names  *)
(* of partitions and by the file that is at the path now.  Each command of *)
(* an invocation is a step; it may fail, or the invocation be interrupted  *)
(* before it, which leaves the host as it is; and imagecraft may put a new *)
(* image at a path at any time.                                            *)
(***************************************************************************)
EXTENDS Naturals, Sequences

CONSTANTS
    Images,     \* paths of image files
    Inodes,     \* the files that can be at those paths
    Devices,    \* loop devices of the host
    Names,      \* names of partitions
    Layout,     \* the partitions of each file, in the order of its table
    MpRoot,     \* the directory MP_ROOT
    None        \* an unbound device; the name of a partition in an MBR

ASSUME ToolAssumption ==
    /\ Layout \in [Inodes -> Seq(Names \cup {None})]
    /\ \A i \in Inodes : \A j, k \in DOMAIN Layout[i] :
          Layout[i][j] = Layout[i][k] /\ Layout[i][j] # None => j = k
    /\ None \notin Inodes \cup Names
    /\ MpRoot \notin Names

VARIABLES
    (* the host *)
    file,       \* the file at each path
    backing,    \* the file each loop device is bound to
    mounts,     \* what is mounted below MP_ROOT
    dirs,       \* the directories that exist: MP_ROOT and mount points
    (* the invocation *)
    pc, image,
    device,     \* ImageFile.loop_device
    table,      \* the names the loop goes through, read from sfdisk
    k,          \* the position of the loop
    outcome     \* how the last invocation ended

host == <<file, backing, mounts, dirs>>
vars == <<host, pc, image, device, table, k, outcome>>

Mounts == [point : Names, device : Devices, part : Nat]

TypeOK ==
    /\ file \in [Images -> Inodes]
    /\ backing \in [Devices -> Inodes \cup {None}]
    /\ mounts \subseteq Mounts
    /\ dirs \subseteq Names \cup {MpRoot}
    /\ pc \in {"idle", "scan", "mount", "mount_at", "umount", "detach"}
    /\ image \in Images
    /\ device \in Devices
    /\ table \in Seq(Names \cup {None})
    /\ k \in Nat
    /\ outcome \in {"none", "mounted", "unmounted", "failed"}

Init ==
    /\ file \in [Images -> Inodes]
    /\ \A p, q \in Images : file[p] = file[q] => p = q
    /\ backing = [d \in Devices |-> None]
    /\ mounts = {}
    /\ dirs = {}
    /\ pc = "idle"
    /\ image \in Images
    /\ device \in Devices
    /\ table = <<>>
    /\ k = 1
    /\ outcome = "none"

IsMount(n) == \E m \in mounts : m.point = n

Exit(result) ==
    /\ pc' = "idle"
    /\ outcome' = result
    /\ UNCHANGED <<image, device, table, k>>

(* Variant: the name is taken for granted.                                 *)
AtEntry == k \in DOMAIN table

(* The loop is at a partition that has a name.                             *)
AtPartition == k \in DOMAIN table /\ table[k] # None

(* Wrong arguments, no such file, `umount' without a file, no loop device. *)
UsageError ==
    /\ pc = "idle"
    /\ Exit("failed")
    /\ UNCHANGED host

-----------------------------------------------------------------------------
(* mount                                                                   *)

AttachLoopdev(p) ==
    /\ pc = "idle"
    /\ \E d \in Devices :
          /\ backing[d] = None
          /\ backing' = [backing EXCEPT ![d] = file[p]]
          /\ device' = d
    /\ image' = p
    /\ pc' = "scan"
    /\ UNCHANGED <<file, mounts, dirs, table, k, outcome>>

(* zip(get_loopdev_partitions(), get_img_partitions()): the partitions of  *)
(* the device under the names of the file that is at the path by now.      *)
ReadPartitions ==
    /\ pc = "scan"
    /\ LET devices == Layout[backing[device]]
           names == Layout[file[image]]
       IN  table' = IF Len(devices) < Len(names)
                    THEN SubSeq(names, 1, Len(devices)) ELSE names
    /\ k' = 1
    /\ pc' = "mount"
    /\ UNCHANGED <<host, image, device, outcome>>

MakeMountPoint ==
    /\ pc = "mount"
    /\ AtPartition
    /\ dirs' = dirs \cup {MpRoot, table[k]}
    /\ pc' = "mount_at"
    /\ UNCHANGED <<file, backing, mounts, image, device, table, k, outcome>>

(* Variant: the partition is skipped.                                      *)
RefuseToMountThis ==
    /\ pc = "mount_at"
    /\ IsMount(table[k])
    /\ k' = k + 1
    /\ pc' = "mount"
    /\ UNCHANGED <<host, image, device, table, outcome>>

RefuseToMount ==
    /\ pc = "mount_at"
    /\ IsMount(table[k])
    /\ Exit("failed")
    /\ UNCHANGED host

(* Variant: nobody looks whether something is mounted there.               *)
MountPartitionAnyway ==
    /\ pc = "mount_at"
    /\ mounts' = mounts \cup {[point |-> table[k], device |-> device, part |-> k]}
    /\ k' = k + 1
    /\ pc' = "mount"
    /\ UNCHANGED <<file, backing, dirs, image, device, table, outcome>>

MountPartition ==
    /\ pc = "mount_at"
    /\ ~IsMount(table[k])
    /\ mounts' = mounts \cup {[point |-> table[k], device |-> device, part |-> k]}
    /\ k' = k + 1
    /\ pc' = "mount"
    /\ UNCHANGED <<file, backing, dirs, image, device, table, outcome>>

MountDone ==
    /\ pc = "mount"
    /\ k \notin DOMAIN table
    /\ Exit("mounted")
    /\ UNCHANGED host

-----------------------------------------------------------------------------
(* umount                                                                  *)

(* Variant: the loop devices are detached before anything is unmounted.    *)
UmountDetachingFirst(p) ==
    /\ pc = "idle"
    /\ image' = p
    /\ table' = Layout[file[p]]
    /\ k' = 1
    /\ pc' = "detach"
    /\ UNCHANGED <<host, device, outcome>>

Umount(p) ==
    /\ pc = "idle"
    /\ image' = p
    /\ table' = Layout[file[p]]
    /\ k' = 1
    /\ pc' = "umount"
    /\ UNCHANGED <<host, device, outcome>>

UmountPartition ==
    /\ pc = "umount"
    /\ AtPartition
    /\ \E m \in mounts :
          /\ m.point = table[k]
          /\ mounts' = mounts \ {m}
    /\ UNCHANGED <<file, backing, dirs, pc, image, device, table, k, outcome>>

(* Variant: the directory of a partition that was not mounted stays.       *)
RemoveMountPointKept ==
    /\ pc = "umount"
    /\ AtPartition
    /\ ~IsMount(table[k])
    /\ k' = k + 1
    /\ UNCHANGED <<host, pc, image, device, table, outcome>>

(* Not mounted, or no longer: its directory goes, if it is there.          *)
RemoveMountPoint ==
    /\ pc = "umount"
    /\ AtPartition
    /\ ~IsMount(table[k])
    /\ dirs' = dirs \ {table[k]}
    /\ k' = k + 1
    /\ UNCHANGED <<file, backing, mounts, pc, image, device, table, outcome>>

(* Variant: that MP_ROOT is not empty is suppressed as well.               *)
RemoveRootRegardless ==
    /\ pc = "umount"
    /\ k \notin DOMAIN table
    /\ dirs' = IF dirs \subseteq {MpRoot} THEN {} ELSE dirs
    /\ pc' = "detach"
    /\ UNCHANGED <<file, backing, mounts, image, device, table, k, outcome>>

(* rmdir of MP_ROOT; that it is missing is no error.                       *)
RemoveRoot ==
    /\ pc = "umount"
    /\ k \notin DOMAIN table
    /\ dirs \subseteq {MpRoot}
    /\ dirs' = {}
    /\ pc' = "detach"
    /\ UNCHANGED <<file, backing, mounts, image, device, table, k, outcome>>

(* It is not empty: the error ends the invocation before it detaches.      *)
RootNotEmpty ==
    /\ pc = "umount"
    /\ k \notin DOMAIN table
    /\ ~(dirs \subseteq {MpRoot})
    /\ Exit("failed")
    /\ UNCHANGED host

(* detach_loopdevs: every device whose back-file is the file at the path.  *)
DetachLoopdev(d) ==
    /\ pc = "detach"
    /\ backing[d] = file[image]
    /\ backing' = [backing EXCEPT ![d] = None]
    /\ UNCHANGED <<file, mounts, dirs, pc, image, device, table, k, outcome>>

UmountDone ==
    /\ pc = "detach"
    /\ \A d \in Devices : backing[d] # file[image]
    /\ Exit("unmounted")
    /\ UNCHANGED host

-----------------------------------------------------------------------------
(* KeyError: sfdisk reports no names for the partitions of an MBR.         *)
Nameless ==
    /\ pc \in {"mount", "umount"}
    /\ k \in DOMAIN table /\ table[k] = None
    /\ Exit("failed")
    /\ UNCHANGED host

(* A command fails (busy, an unknown file system, a directory with files), *)
(* or the invocation is interrupted.                                       *)
CommandFails ==
    /\ pc # "idle"
    /\ Exit("failed")
    /\ UNCHANGED host

(* A new image is put at the path.  The file that was there stays as long  *)
(* as a device is bound to it.                                             *)
Repack(p) ==
    /\ \E i \in Inodes :
          /\ \A q \in Images : file[q] # i
          /\ \A d \in Devices : backing[d] # i
          /\ file' = [file EXCEPT ![p] = i]
    /\ UNCHANGED <<backing, mounts, dirs, pc, image, device, table, k, outcome>>

MountStep ==
    ReadPartitions \/ MakeMountPoint \/ RefuseToMount \/ MountPartition \/ MountDone

UmountStep ==
    \/ UmountPartition \/ RemoveMountPoint \/ RemoveRoot \/ RootNotEmpty
    \/ (\E d \in Devices : DetachLoopdev(d)) \/ UmountDone

ToolStep == MountStep \/ UmountStep \/ Nameless

Next ==
    \/ ToolStep \/ CommandFails \/ UsageError
    \/ \E p \in Images : AttachLoopdev(p) \/ Umount(p) \/ Repack(p)

Spec == Init /\ [][Next]_vars

(* An invocation goes on with its next command.                            *)
FairSpec == Spec /\ WF_vars(ToolStep)

-----------------------------------------------------------------------------
(* Properties                                                              *)

Named(i) == \A j \in DOMAIN Layout[i] : Layout[i][j] # None

(* The device below a mounted partition stays attached, whatever failed    *)
(* and whichever invocation detaches what: umount goes by the names in the *)
(* file to find what is mounted, and by the file to find the devices.      *)
MountsKeepTheirDevice ==
    \A m \in mounts : backing[m.device] # None

(* A directory shows one partition at most, and if its image is still at   *)
(* its path, the partition of that name: two independent listings, joined  *)
(* by position, agree.                                                     *)
DirectoriesShowTheirPartition ==
    /\ \A m, n \in mounts : m.point = n.point => m = n
    /\ \A m \in mounts, p \in Images :
          backing[m.device] = file[p] =>
              m.part \in DOMAIN Layout[file[p]] /\ Layout[file[p]][m.part] = m.point

(* An invocation of `mount' that succeeds has mounted all partitions of    *)
(* the image from one device, unless the image was replaced meanwhile.     *)
MountIsComplete ==
    pc = "idle" /\ outcome = "mounted" =>
        /\ \A j \in DOMAIN table :
              [point |-> table[j], device |-> device, part |-> j] \in mounts
        /\ backing[device] = file[image] => table = Layout[file[image]]

(* An invocation of `umount' that succeeds leaves nothing of the image: no *)
(* mount in its directories, none of the directories, no loop device on    *)
(* the file, also of invocations that had failed.  One that stops at       *)
(* MP_ROOT stops for the directories of another image only, and has made   *)
(* way for the umount of that one.                                         *)
UmountIsComplete ==
    /\ pc = "idle" /\ outcome = "unmounted" =>
          /\ dirs = {}
          /\ \A j \in DOMAIN table : ~IsMount(table[j])
          /\ \A d \in Devices : backing[d] # file[image]
    /\ pc = "umount" /\ k \notin DOMAIN table =>
          \A j \in DOMAIN table : table[j] \notin dirs

(* What failed and interrupted invocations left behind can be taken back:  *)
(* when `umount' is run for every image again and again and nothing fails  *)
(* any more, no image keeps a device.  It may take several rounds: the     *)
(* directories of one image keep umount from detaching another.  (Images   *)
(* whose partitions have names, and no directory of a replaced image.)     *)
RepeatedUmountReleases ==
    /\ \A p \in Images : []<><<Umount(p)>>_vars
    /\ <>[][UmountStep \/ Nameless \/ \E p \in Images : Umount(p)]_vars
    /\ <>[](\A n \in dirs \ {MpRoot} : \E p \in Images :
               \E j \in DOMAIN Layout[file[p]] : Named(file[p]) /\ Layout[file[p]][j] = n)
    => <>[](\A d \in Devices, p \in Images :
               Named(file[p]) => backing[d] # file[p])

(* imgmount.py 148: "Unmount the specified imagecraft image file".         *)
UmountsOnlyItsImage ==
    [][\A m \in mounts \ mounts', p \in Images :
          backing[m.device] = file[p] => p = image]_vars

=============================================================================
