# imagecraft: models, checks and proofs

imagecraft builds disk images: it creates an image file for the volume of an
`imagecraft.yaml`, attaches it to a loop device, lets the project's parts run,
fills the partitions, moves the file to its destination and installs GRUB in
it. Paths below are relative to `src/` unless they name a module of this
directory.

## 1. Inventory

| Component | State it keeps | Operations | What makes it correct |
|---|---|---|---|
| **Image service** `imagecraft/services/image.py` | `_images` (paths by volume, or `None`), `_loop_devices` (devices by volume), `_atexit_registered`; on the host: the hidden image files and the bindings of loop devices | `create_images`, `attach_images`, `detach_images`, `verify_images`, `finalize_images`, `get_loop_paths` | a recorded device belongs to the image of its volume and to no other; the name of a device is never kept after the device has been given up; no device of another program is detached; a key of `_images` has a partitioned file, and no image is lost on its way to the destination; every call returns |
| **Command runner** `imagecraft/subprocesses.py` | none | `run` | a command that was not run is not taken for one that succeeded |
| **Lifecycle service** `imagecraft/services/lifecycle.py` | the state of parts, kept by craft-parts in the work tree across processes | prologue hook, `run` | parts write to the image that is packed |
| **Pack service** `imagecraft/services/pack.py` | none of its own | `pack` | what stands at the destination is complete; devices are released on every path |
| **Image** `imagecraft/pack/image.py` | the loop device of a finished disk | `attach_loopdev`, detaching all devices of a file | the device is released whatever happens inside |
| **Chroot** `imagecraft/pack/chroot.py` | the list of `Mount`s, each with the mount point it remembers; a child process and a pipe | `Mount.mount`, `Mount.umount`, `execute` | commands run in a fully mounted chroot; nothing is left mounted silently; the parent gets an answer |
| **GRUB** `imagecraft/pack/grubutil.py` | the diversion of os-prober in the image | `setup_grub`, `_grub_install` | all commands or none; the mounted partition is the right one |
| **GPT and MBR layout** `imagecraft/pack/gptutil.py`, `mbrutil.py`, `diskutil.py` | an image file and a script for sfdisk | size, layout, verification | the script fits the file; partitions are disjoint and nested; three numberings agree |
| **Volume and project models** `imagecraft/models/` | a validated document | validators, `get_partitions` | only layouts that can be built are accepted; the partition parts fill by default is the one mounted as the root |
| **Project service, grammar** `services/project.py`, `grammar.py` | none | selecting values by platform, before anything is validated | what is validated is what was selected |
| **imgmount** `tools/imgmount.py` | none between invocations; on the host: loop devices, mounts and directories under `/mnt/imagecraft` | `mount`, `umount` | a directory shows the right partition; mounts keep their device; what an invocation left is found again |
| **Provider, plugins, application, errors, command line** | none of interest | configuration, shell text for parts, messages | the order of the end of the program (below) |

How they interact. The application runs the lifecycle service; its prologue hook
calls `create_images` and `attach_images` and exports the loop paths to the
parts. For `pack` the pack service calls the same two again, formats every
structure item through its loop path, verifies the tables, detaches in a
`finally`, moves the files and hands the destination to `setup_grub`. That one
attaches the finished image to a loop device of its own, mounts its partitions
and the kernel's file systems, and forks a child that runs the GRUB commands in
the chroot and answers through a pipe. Loop devices are the host's: any other
program attaches and detaches devices at any time. At the end of the program
craft-cli stops its emitter, and then the interpreter runs the exit handler
that `attach_images` registered. `imgmount` is a separate program for users: it mounts a
finished image and takes the mounts back in a later invocation, with nothing but the host
to remember what was done.

The hard part is not computation. It is: what the process remembers about host
objects that others change as well; exceptions in the middle of loops; a
process killed with devices attached and the next process finding them; Ctrl-C, which
passes `except Exception` but not `finally`; a retry
loop that gives up silently; two loops that have to agree about sizes; a
`finally` that raises. `PROJECT.json` has the list ("hazards"), each at its
line.

## 2. Modules

| Module | What it models |
|---|---|
| `ImageService` | the image service on a host, under any client |
| `PackRun` (EXTENDS `ImageService`) | the program: lifecycle, pack, GRUB stages, Ctrl-C, process ends and restarts |
| `Publishing` | abstract: what who takes images from the destination may rely on; `PackRun` implements it |
| `ProjectModel` (uses `VolumeLayout`) | from a document to validated models, the list of partitions and the mounts |
| `VolumeLayout` | sizes, sfdisk scripts and partition numbers |
| `GrubChroot` | `setup_grub` as two processes, parent and child, with Ctrl-C |
| `GrubStages` (EXTENDS `GrubChroot`) | the mapping under which `GrubChroot` implements the GRUB stages of `PackRun` |
| `ImgMount` | the tool `imgmount` on a host where images are replaced |
| `MC*` | instances for TLC: constants, symmetry, restricted next-state relations |
| `ImageServiceProofs`, `ProjectModelProofs`, `VolumeLayoutProofs`, `GrubChrootProofs`, `PackRunProofs`, `GrubStagesProofs`, `ImgMountProofs` | theorems and their proofs |

### ImageService

Files are members of `Inodes`; a path is the inode it leads to (`hidden[v]` is
`.{v}.img.tmp`, `final[v]` is `dest/{v}.img`); `content[i]` is the set of things
written to a file: the partition table and what clients write. `backing[d]` is
the file loop device `d` is bound to, `Foreign` one of another program. This is
what makes the interesting cases visible: unlinking and creating a path gives a
new inode, a rename keeps it, a device stays bound to an inode that has lost its
name.

`images` is the set of the keys of `_images`, `None` before `create_images` and
after `finalize_images`. A method is entered by a `...Begin` action, runs one
round of its loop per action and ends with `Return`, which records how it ended
in `outcome`. Between two rounds the environment may act: other programs attach
(also our image files) and detach their own devices, the user may press Ctrl-C
(`MethodInterrupted`, below), and the process may be
killed (`Restart`: memory gone, host as it was). `listing` is the back-files
that `losetup --json` reported at the *beginning* of `attach_images`; later
rounds use it although the host may have changed.

Ctrl-C passes every `except` of the service. The command of the round may have done its
work by then: `losetup` has bound a device whose name is not recorded, or released one
whose name is still in the dict; and a device may be recorded while the handler is not yet
registered (`services/image.py:170-173`). The program calls no method after that (`Going`), only the exit
handler may still run. That is why `HeldDevicesBound` and `ImagesArePartitioned` speak of a
program that goes on, and why no property says that the handler covers every recorded
device: with one volume a Ctrl-C, with several a failing round leaves one uncovered.

A move to another file system is three steps: the destination is truncated or created
(`FinalizeCopy`), filled (`FinalizeCopied`), and the source is unlinked (`FinalizeUnlink`).

Decisions a reader might question:

* `StaleDevices(v)` mirrors the code, and is always empty: for a device on a
  deleted inode the kernel reports a path ending in " (deleted)", which is not
  the image's path; for a path that does not exist no device is listed. That is
  the first finding.
* `RunExecutes == emitter`: every command goes through `run`, which emits a
  debug message first. craft-cli raises there once the emitter has been stopped.
  `detach_images` catches every exception, so that this counts as a busy device.
* Other programs detach only devices bound to files of their own. An
  administrator who detaches our device by hand is outside the model.
* `losetup -d` of a device that is still open takes effect when the last user
  closes it; the model lets it take effect at once or fail.
* The order of a Python dict is abstracted: a loop takes its volumes in any
  order. `unlink` and creating the new file are one step.
* `create_images` raises for a volume of schema `mbr,gpt` (`Hybrid`). The comment
  there says "Reaching this case is a bug", while the models accept that schema.

### PackRun

`stage` is the place in the program, and the calls to the service are its own
actions (`Create`, `Attach`, `VerifyImages`, `DetachBegin`, `Finalize`) under
the guard of the stage: between them, the service's methods run as they do there. `setup_grub`, which
detaches a finished image whoever attached it, and Ctrl-C, which leaves a method in the middle, are steps that the
service alone does not have; that is why `PackRun` has invariants and proofs of its own. An exception is `outcome =
"raised"`, or `raising` while it passes through the `finally` of `pack`.
`partsDone` survives the process (craft-parts keeps it in the work tree),
`partsHere` does not. `NewProcess` may happen in every state: a kill, or the next
command after the end. The formatting of a partition is one write, or a failure
that writes nothing; `format_device` overwrites the partition from its first byte,
so that the rest of an earlier attempt does not matter.

Ctrl-C goes the way of an exception through the `finally` of `pack` (`FormatFails`, `Detach`
with `raising`) and of `attach_loopdev` (`GrubInstall` with `raising`); elsewhere
`Interrupt` ends the program in the middle of what it does, after which the exit handler
runs (`ProgramExit`). During grub-install the child process outlives it: `GrubChild` lets it finish at
any time later, in the image at the destination, which is more than a child can do whose
mounts are taken away. `GrubInstall` leaves open whether GRUB is in the image and
whether there was an error; `GrubStages` shows which combinations `setup_grub` has.

`Publishing` is the abstract specification: a draft that nobody sees, which can be started anew at
any time, is published in one step and only with everything in it, and then changed by
nothing but the installation of GRUB. `PublishesWhole` is that specification with
`draft` and `published` mapped to the contents of the files at the two paths.

### ProjectModel

One document, one platform. The grammar's loops keep the entries that the
platform selects (`ProcessItem`, `ProcessMount`); a syntax error ends the
program. `Accept` is the conjunction of the validators that relate items to each
other, and sets the default labels; the syntax of single fields is taken as
given. `AliasToDefault`, `PartitionItem` and `PartitionsDone` are
`get_partitions`, one item per action. Two things are known only from how this
code uses craft-parts: it wants "/" first in a filesystem, and it refuses a list
with a repeated partition, which is the only thing that makes names unique.
`CreateImages` is the case on the schema in the image service; `ImageMount` is
`_image_mounts`, with `part_num` of `VolumeLayout` over the same structure. A device
is the tuple of its components, which is what the two ways of reading it tell
apart: `get_partitions` compares the whole, `_partition_name_from_device` takes
the last component.

### VolumeLayout

One action is one round of one of the loops: `SizeItem` (sizes), `PrimaryItem`,
`ExtendItem`, `LogicalItem` (script). GPT and MBR share the loops, with the
constants of the source; the functions differ in the reserve behind the last
partition and in the extended container. `SfdiskNumber`, `ServiceNumber` and
`part_num` are the three ways a partition gets its number. `ValidDisk` is what
the validators of `models/volume.py` guarantee and the layout needs. `sized`
is a history variable: the size after each item. No action reads it; it connects
the two loops in the invariants. Sector numbers are integers without a bound, as
in Python; sfdisk may refuse any script (`Sfdisk`).

### GrubChroot

`order` is the list of mounts: one of the lists a document may have (`Filesystems`, "/" first)
and then the kernel's (`Kernel`). A path is the sequence of its names. Nothing in
imagecraft orders or compares the document's entries (`pack/grubutil.py:206`), so that an
entry may be mounted over an earlier one (`/boot` after `/boot/efi`), or a partition at a path that
one of the kernel's file systems takes later. Mounts are therefore indices of the
list and not paths: `Resolve(n)` is the mount that the path of entry `n` leads to, the latest at
or above it, and `StandsOn` are the mounts it went through. `present` is chosen at the start: the directories that the file
system of each entry has, among those that are looked up. `recorded` are the mounts that have set `_mountpoint`, which `Mount.mount`
does before it can fail; `mounted` is the truth of the host.

What `umount --recursive` does is the kernel's and util-linux's, and is modelled from how they behave: it
takes the mount on top at the path, with all that stands on it (`Tree`), each mount before the one
it stands on, and fails (`Obstructed`) where a mount in the tree is hidden by a later one on the same
file system; when it fails, mounts may be gone that nothing left stands on or hides
(`Partly`). `Mount.umount` never asks for a hidden mount: it goes through the list
backwards. But after a failure the list goes on, and a mount below a stuck one
is out of reach; `CleanAfterwards` says that no other stays.

The child's program counter is the command it runs next. Both processes take one command at a time.

`Interrupt` is Ctrl-C in the parent, once. From `_setup`, `recv` and `join` it leads into
`_cleanup`, while the child goes on or is interrupted as well (`ChildKilled`; `_runner`
sends no answer then, a `KeyboardInterrupt` is no `Exception`); mounts the child is in
may fail to be unmounted (`Busy`). In `_cleanup` it ends the loop, which catches
`CalledProcessError` only. The loop device is detached in every case but two: when `losetup` has
attached it and not yet returned, and when Ctrl-C comes during the detaching itself.

`GrubStages` maps this to the stages "grub" to "grub_detach" of `PackRun`; for `PackRun`
the image has GRUB when all commands have run, from the time the parent leaves
`_cleanup`. `FollowsTheStages` says that each step is one of `SetupGrub` or `Interrupt` there, or none.

### ImgMount

Two paths (`Images`), the file at each (`file`), the loop devices, the mounts and the
directories below `/mnt/imagecraft`; and one invocation at a time, one command per action.
`Layout` is the partition table of each file: names in order, `None` for a partition
of an MBR, which sfdisk reports without a name (`Nameless`: a `KeyError`).
`CommandFails` may end the invocation before any command: the command fails, or the
user interrupts. `Repack` is imagecraft putting a file at the path that was not there
before and that no device is bound to: a new inode, while devices and mounts stay on the
old one. A device below a mount can be detached in the model; in fact the kernel
defers that, and `MountsKeepTheirDevice` says it is never asked to.

## 3. Runs

| Run | Question | Bounds |
|---|---|---|
| `two_volumes` | Does the service keep devices apart whatever a client calls, whatever fails, whoever else uses loop devices? `TypeOK`, `DevicesExclusive`, `HeldDevicesBound`, `NeverDetachOthers`. Is an image lost when moves fail or are stopped half-way? `NoImageLost` | 2 volumes, 3 devices, 4 files, destination on another file system, all faults, 2 attempts of `losetup -d`; no client writes, which none of these properties looks at |
| `one_image` | Is there a partitioned file behind each key, does every call return? `ImagesArePartitioned`, `CallsReturn` | one image that can be created, one volume of schema `mbr,gpt`; one file system; 2 devices, 2 files (the image at the destination and the one being built), 1 payload |
| `program` | Do the program's writes reach the right file, and is what stands at the destination published whole and left alone? `ProgramTypeOK`, `PublishedImageComplete`, `WritesReachTheImage`, `PublishesWhole`, `OthersKeepTheirDevices` | 3 files (three images, hence three processes that get as far as creating one), 3 devices, 2 partitions, 1 part |
| `program_copy` | What does a successful pack leave when the destination is another file system, and are devices released? `SuccessfulPack`, `PackReleasesDevices` | 4 files, 3 devices, 2 partitions, 2 parts; `losetup -d` works |
| `layout` | Do scripts fit their files, and numbers agree? | GPT up to 3 items with numbers from {1, 2, 3, 128} or none; MBR up to 6 items; sizes 0, 1, 512, 1025 |
| `project` | Is what is accepted something the layout is made for, is the default partition the root, is each filesystem entry mounted from the partition that was filled for it, has every item its directory? `RootIsDefault`, `MountsMatchLoopPaths`, `EveryItemHasADirectory`, `LayoutAccepts` | every structure of up to 2 entries (2 names, 2 labels, 3 numbers, 2 selections) for each schema under 2 filesystems; every filesystem of up to 2 entries over a numbered GPT volume of 3 items and an MBR volume of 5; 2 platforms |
| `grub_chroot` | Do GRUB's commands run in a complete chroot, is everything unmounted that can be and the rest reported, is the installation all or nothing, does `setup_grub` end, is a missing directory ignored, does it do nothing that `PackRun` does not have? `TargetInFullChroot`, `LeftMountsReported`, `CleanAfterwards`, `AllOrNothing`, `MissingDirectoryQuiet`, `MissingDirectoryIgnored`, `SetupEnds`, `FollowsTheStages` | three lists: `/` and `/boot/efi`; the same with `/boot` after it, which hides it; `/` and a partition at `/dev`; each followed by `/dev`, `/dev/pts` and `/run`; any set of directories present in each file system, every fault, a killed child and Ctrl-C |
| `imgmount` | Do directories show the right partitions and keep their devices, is an invocation that succeeds complete, can what failed ones left be taken back? `MountsKeepTheirDevice`, `DirectoriesShowTheirPartition`, `MountIsComplete`, `UmountIsComplete`, `RepeatedUmountReleases` | 2 paths, 4 files (two with equal tables, one that shares a name, an MBR), 2 devices |
| `stale_devices`, `exit_detaches`, `sector_writes`, `umount_other` | the findings, section 6 | one volume, 2 or 3 files; the images of `imgmount` |

Why the bounds are enough. Two volumes are the smallest number that can share a
device; a project has exactly one (`models/project.py:85`), so that two are
already more than the program uses, and the runs of the service with two
examine its own contract. Three devices let each volume and another program
have one. Three files are a killed process' image, the image at the
destination and the image being built; two images and the copies of both are four. Two attempts of `losetup -d` show the
retry and the end of it. Four and five MBR items are the boundary of the
extended container, and a sixth one shows a logical partition that follows
another logical one; the sizes are below, on and above a sector. For `imgmount`, two paths and two
devices are what it takes for one image to stand in the way of another; two devices can
both be on one image. The kernel's list is shortened to the two that lie on one another and one that
does not: `/proc` and `/sys` differ from `/run` in nothing but the name. Two entries are
enough for two items or mounts to clash, three and five items for positions and
numbers to differ. The number
of files bounds the runs: `create_images` is not entered when too few are left
(`FilesLeft`: one for each image, and one for a copy where moving is copying), and everything else
goes on; a further copy that finds no file left can only fail.

Symmetry is used for files, devices and partitions in runs without liveness
properties: nothing chooses among them except by `\E`.

Deadlock is checked in the service's, the program's and imgmount's runs, except in
`sector_writes`, where the files run out and no process follows. It is not
checked for `ProjectModel`, `VolumeLayout` and `GrubChroot`: those are functions that
return, and in `grub_chroot` the parent waits for ever (or for Ctrl-C) when the child is killed, since it
holds the sending end of the pipe open itself.

Each property has a mutant in `PROJECT.json`: a definition changed the way a
plausible bug would (comments marked "Variant" in the modules), under which the
same run finds the property violated.

## 4. Fairness

`CallsReturn` assumes weak fairness of `ServiceStep`: the interpreter goes on
with a method it has entered. The run moves the image by a rename; that the three steps of a
copy run out as well is in `CallsAreBounded`. Nothing is assumed of single disjuncts, in
particular not that a detach ever succeeds; the end of the retry loop is the
clock, `DetachGiveUp` is possible after each failed attempt and forced after
`MaxTries`. `SetupEnds` and `MissingDirectoryIgnored` assume weak fairness of each
of the two processes of `setup_grub`: both are scheduled, and the commands they
run end; nothing is assumed of kills and of the user. `SetupEnds` says that the only
way not to end is to wait for a child that was killed before it answered, until Ctrl-C.
`RepeatedUmountReleases` assumes weak fairness of `ToolStep`, an invocation goes on
with its next command. Its antecedent is what the user does: runs `umount` for each
image again and again, mounts nothing any more, and no command fails any more. Nothing is
assumed of other programs and of clients.

## 5. Proofs

The theorems hold for every value of the constants under the named assumptions
(`ConstantsAssumption`, `ProgramAssumption`, `DocumentsAssumption`, `DisksAssumption`,
`ChrootAssumption`, `ToolAssumption`), which TLC evaluates in the runs.

**ImageServiceProofs**: `TypeCorrect`, `DevicesAreExclusive`, `HeldDevicesAreBound`,
`OthersAreSafe`, `ImagesAreNeverLost`, `DictedImagesArePartitioned`, `CallsAreBounded`.
`DevicesExclusive` is not inductive: that `AttachReuse` gives a volume a device
nobody else has follows from what the listing says of the device, and the listing
is old. The invariant `IInv` therefore says: a device listed under a volume's path
is still bound to the file at that path (`ListingIsCurrent`: during `attach_images`
no image moves, and other programs do not detach it); hidden paths lead to
different files (`FilesAreCreated`); a recorded device is bound to a file of ours,
and during `attach_images` to the file of its volume (`AttachedSoFar`), so that two
volumes with one device would have one file. `HeldDevicesBound` and `NeverDetachOthers` follow: the
device that `losetup -d` is given is never `Foreign`.
`NoImageLost` needs more of the files (`FInv`): no finished image is also a temporary one or that of
another volume, so that truncating one spares the others (`FinishedApart`); `create_images`
has not put into the dict what it has yet to create (`LoopsAreConsistent`); and the source is unlinked
only when the copy has its content (`HalfMoved`). `ImagesAreNeverLost` holds for any number of
volumes, whatever fails or is interrupted. For `DictedImagesArePartitioned` a further invariant (`PInv`) says
that the temporary image of a volume that is in `images`, and has not been moved, is in its place; it needs that there is
only one image, or that moving a file does not fail (`NoHalfMoves`): with several images a
`finalize_images` that fails half-way leaves the keys of the volumes it was through with.
`CallsAreBounded` is what can be proved of `CallsReturn`: `RoundsLeft`, at most
`MaxTries` + 3 for each volume and as many again, is smaller after each step of a method and never larger
after anybody else's.

**PackRunProofs**: `ProgramTypeCorrect`, `WritesGoToTheImage`, `PacksSucceed`,
`PublishedImagesAreComplete`, `PublishesWholeImages`, `OthersKeepDevices`, `PackReleases`, for
any number of files and hence of processes, devices, partitions and parts. None of the properties is
inductive: they speak of single stages, and what holds in a stage is the work of all before.
The invariant `RInv` follows the program: what the temporary image has in it and where
the recorded device leads at each stage (`AtStart` ... `AtGrub`), what a method in progress relies on
(`InProgress`), that different paths lead to different files (`Files`), that files which do not
exist yet are empty and bound to no device (`Made`), and that the destination is complete (`PublishedWhole`). The service's
listing cannot be stale with one volume: at `AttachReuse` the listed device is still on the draft. There is
one lemma per action or group of actions, one step per conjunct.
`PublishesWholeImages` maps each step to a step of `Publishing` or to a stutter: writes
through the device reach the draft and nothing else (`DraftWritten`), a rename is the
publication of a whole draft, a new process starts a draft anew. It assumes one file
system (`~CrossDevice`); across file systems the copy is visible while it grows, and
the property is false. `PackReleases` assumes that `losetup -d` works (`"detach" \notin Faults`); its
invariant `DevicesOfProcess` says which devices can be bound to files of this process at each stage.

**ImgMountProofs**: `TypeCorrect`, `MountedDevicesStayAttached`, `DirectoriesAreRight`, `SuccessfulMounts`,
`SuccessfulUmounts`, for any number of images, tables of any length and any repacking. What connects the names that
`umount` goes by with the devices it detaches is that a mounted partition of the image at a
path bears a name of its table: once the loop is through, no mount is on the devices
the file has. `SuccessfulUmounts` has the step behind `RepeatedUmountReleases`: an umount that stops at
`MP_ROOT` stops for the directories of other images only, so that one umount of each image
clears them all.

**ProjectModelProofs**: `TypeCorrect`, `TheRootIsTheDefault`, `MountsAreTheFilledPartitions`,
`ItemsHaveDirectories`, `AcceptedVolumesCanBeLaidOut`, for documents of any length. The
invariant `PInv` describes the list of partitions after `n` items (`Built`): as long
as the list, every item in it, the alias in front once it has been seen. Unique
names are not checked on the structure; `Built` says that a list without
repetitions comes from items without shared names, and each round preserves it
because the older entries move together. With unique names the first item of a name is the only one,
and `part_num`, which looks for the name, agrees with the service, which counts (`NumbersApply`). So `AcceptedVolumesCanBeLaidOut` joins the
theorems about layouts to the documents: `ValidDisk`, assumed there, is proved here.

**VolumeLayoutProofs**: `LayoutIsDisjoint`, `LayoutFits`, `LogicalsAreNested`,
`PartitionNumbersAgree`, `ItemsHaveLines`, for volumes of any length and items of
any size. The invariant `LInv` joins the size loop and the script loops through
`sized`: `sized[k]` is the size after `k` items, and the script loops maintain that
`start` after `k` items, in bytes, equals `sized[k]` (one EBR more among the logical
partitions), and that every line lies between two marks. So no sum over the items
is needed, and no induction over data: the marks grow, hence the lines are
disjoint, and the last mark is the size of the file without the backup GPT. With
4096-byte sectors no script is ever written (`Reject`).

**GrubChrootProofs**: `TypeCorrect`, `CommandsSeeTheWholeChroot`, `LeftMountsAreReported`,
`CleanupIsComplete`, `InstallationIsAtomic`, `MissingDirectoriesAreQuiet`, `MountsAlwaysStand`,
`SetupIsBounded`, for documents with any list of mounts that begins with `/`, in any order, with
paths that repeat or hide one another, and any list of kernel file systems none of which hides an earlier
one. The invariant `GInv` says that during the set up exactly the entries before `k` are recorded and
mounted; that everything mounted is recorded, and what it stands on is mounted (`MountsStand`, which unmounting
whole trees preserves, because trees nest: `TreesNest`); and that during the clean up an entry behind `k` that is still
mounted is one umount failed on (`stuck`, a history variable) or hidden by one, with the
error in `umountErrors`. That `UmountSkip` passes over nothing that is mounted
follows from `UnhiddenIsOnTop`: a mount that no later one hides is what its path leads to. How far the child is follows from
what it has run (`Done`), and what the parent knows from what the child has sent.
`MissingDirectoriesAreQuiet` is the half of `MissingDirectoryIgnored` that is not liveness: when
the directory of entry `j` was missing, the clean up finds exactly the entries up to `k`, each on
top (`Unwinding`), and the directory of `j` missing still, since nothing that gave or hid it has changed.
`SetupIsBounded` is what can be proved of `SetupEnds`: every step of either process, of the user, or a kill
makes `StepsLeft` smaller, which begins at no more than twice the list's length plus 15. So no behaviour goes on for ever,
and fairness has nothing to add but that it does not stop early.

**GrubStagesProofs**: `SetupFollowsTheStages`, the refinement of `PackRun`'s stages by `GrubChroot`, for
any list of mounts. It needs of the loop device what `GInv` leaves out (`SInv`), and that no child
runs where Ctrl-C ends `setup_grub` at once. One lemma per action of `PackRun` says it in
terms of what the mapping shows of `setup_grub` (the stage, the device, whether GRUB is in the image, whether an
exception is on its way); `Follows` goes through the actions of `GrubChroot`.

Only model-checked: all liveness properties (fairness and ENABLED are out of the
prover's reach; `CallsAreBounded`, `SetupIsBounded` and
`MissingDirectoriesAreQuiet` are the parts that are not), and what `umount` does to a tree of mounts, which is assumed.

## 6. Findings

1. `stale_devices`: attach_images says it cleans up stale devices on deleted inodes;
   the condition it tests is never true.
2. `exit_detaches`: detach_images says it is safe as an exit handler; at exit it runs
   no command, waits ten seconds and gives up silently.
3. `sector_writes`: data that parts write between the partitions is lost when `build`
   and `pack` are separate processes, which the comment and the spread test
   `tests/spread/pack/sector-write` do not expect.
4. `umount_other`: `imgmount umount FILE` says it unmounts the specified image; it unmounts
   what is mounted under the names of that image's partitions, of whichever image it is.

Seen while modelling, without a run: after a failed `create_images` a second call finds
the empty dict and returns it as a success (`services/image.py:77-81`; no caller does
that); a filesystem entry that names another volume is mounted from this one, and an
unknown one fails only after the image has been moved (`pack/grubutil.py:206-212`); a volume of schema `mbr,gpt` reaches the case
that a comment calls a bug (`services/image.py:99-101`; it fires in `one_image`);
a killed child leaves `setup_grub` waiting (`chroot.py:185`). The docstring of
`attach_images` says it reuses devices "attached to the correct files"; its early return
(`services/image.py:123`) checks no file, and after a `finalize_images` without a
detach answers with a device on the finished image; the program does not call it in that order after
a successful detach (`WritesReachTheImage`). The reference gives `device: "(default)"`
as an example (`docs/reference/imagecraft-yaml.rst:221`); no such device is ever
resolved, a document that maps "/" to it is refused (`models/project.py:213`).
`imgmount` fails on an image with an MBR after it has attached it, and so does the
`umount` that would detach it; the usage text offers `umount` without a file
(`tools/imgmount.py:22`), which is not implemented (line 150); when an image is replaced
by one with other partition names, the directories of the old one keep every later
`umount` from detaching anything.

## 7. Not modelled, and why

* Plugins, provider, messages, the arguments of mkfs, mke2fs, mcopy and
  grub-install: no state that a property of the above sees, or pure text.
* What the interpreter does with a child that outlives `execute` (it joins it at exit), a
  `fork` that fails, mounts that a killed parent leaves to the next run, a second Ctrl-C.
* Two `imgmount` processes at the same time, `imgmount` while imagecraft installs GRUB in
  the same image.
* What GRUB's commands write where: with `/boot` after `/boot/efi` they find the directory
  of the file system at `/boot` instead of the EFI partition, which is mounted but out of sight. The
  model has such lists, and the properties about mounting, unmounting and errors hold of them;
  nothing in the repository says that they should be refused.
* The scripts that build the documentation (`docs/conf.py`, `docs/.sphinx/`).
* The syntax of single fields (names, sizes, types, UUIDs, roles) and of grammar
  statements; whether craft-parts refuses an unknown device in a later filesystem entry
  earlier than `_image_mounts` does.
* The 32-bit sector numbers of an MBR: left to sfdisk, which may refuse.
* Two imagecraft processes at the same time on one project: craft-application does
  not promise anything about it.

## 8. Plan

Order: the service first, because the state that is hard to test is there; then the
program around it; then the arithmetic; then the chroot; then the models; then Ctrl-C, the
abstract specification and the refinements, the proofs about the program, and
imgmount. That is done. Next:

1. The mount list of `GrubChroot` from the mounts of `ProjectModel` (the lists with mounts
   that hide others are done).
2. The two commands that fill a FAT partition (mkfs, mcopy) as two writes.
