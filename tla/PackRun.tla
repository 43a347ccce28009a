------------------------------- MODULE PackRun -------------------------------
(***************************************************************************)
(* The program around the image service: one process runs the parts        *)
(* lifecycle (services/lifecycle.py) and, for the command `pack', the pack *)
(* service (services/pack.py), then installs GRUB in the finished image    *)
(* through a loop device of its own (pack/image.py).  A process can fail   *)
(* or be killed at any step; the next one finds the host as it was left,   *)
(* and the parts it has completed.                                         *)
(*                                                                         *)
(* The service is the one of ImageService, called here in the order the    *)
(* program calls it; `stage' is the program's place in the code.  A method *)
(* has returned when `op' is "idle" again, and `outcome' tells how.        *)
(***************************************************************************)
EXTENDS ImageService

CONSTANTS
    Partitions, \* what formatting each structure item writes
    Parts,      \* what each part's build writes outside the partitions
    Grub        \* what grub-install writes

Volume == CHOOSE v \in Volumes : TRUE

(* The project model accepts exactly one volume, and pack asserts it.      *)
ASSUME ProgramAssumption ==
    /\ Volumes = {Volume}
    /\ Payloads = Partitions \cup Parts \cup {Grub}
    /\ Grub \notin Partitions \cup Parts
    /\ Partitions \cap Parts = {}
    /\ \A S \in SUBSET (Payloads \cup {Table}) : S # None

VARIABLES
    stage,       \* where the program is
    command,     \* the command line's: "build" (or any step) or "pack"
    unformatted, \* structure items the loop of pack has left
    raising,     \* an exception is on its way out through a finally
    grubDevice,  \* Image.loop_device, or None
    partsDone,   \* parts whose state craft-parts has saved in the work tree
    partsHere,   \* those of them this process ran
    earlier      \* files that existed before this process

program == <<stage, command, unformatted, raising, grubDevice,
             partsDone, partsHere, earlier>>
allVars == <<vars, program>>

LifecycleStages == {"start", "prologue_create", "prologue_attach", "parts"}
PackStages == {"pack", "pack_create", "pack_attach", "format", "verify",
               "detach", "finalize"}
GrubStages == {"grub", "grub_install", "grub_detach"}
EndStages == {"done", "lifecycle_failed", "pack_failed", "interrupted"}

ProgramTypeOK ==
    /\ stage \in LifecycleStages \cup PackStages \cup GrubStages
                   \cup EndStages \cup {"exit"}
    /\ command \in {"build", "pack"}
    /\ unformatted \subseteq Partitions
    /\ raising \in BOOLEAN
    /\ grubDevice \in Devices \cup {None}
    /\ partsHere \subseteq partsDone /\ partsDone \subseteq Parts
    /\ earlier \subseteq used

Fresh ==
    /\ stage' = "start"
    /\ command' \in {"build", "pack"}
    /\ unformatted' = Partitions
    /\ raising' = FALSE
    /\ grubDevice' = None
    /\ partsHere' = {}

ProgramInit ==
    /\ Init
    /\ stage = "start"
    /\ command \in {"build", "pack"}
    /\ unformatted = Partitions
    /\ raising = FALSE
    /\ grubDevice = None
    /\ partsDone = {}
    /\ partsHere = {}
    /\ earlier = {}

-----------------------------------------------------------------------------
(* The steps all stages are made of                                        *)

Goto(s) ==
    /\ stage' = s
    /\ UNCHANGED <<command, unformatted, raising, grubDevice,
                   partsDone, partsHere, earlier>>

(* An exception leaves the code of the stage.                              *)
Fail(s) ==
    /\ stage' = s
    /\ raising' = TRUE
    /\ UNCHANGED <<command, unformatted, grubDevice, partsDone, partsHere, earlier>>

(* From stage `from', when no method is running, call a method.            *)
Call(from, method, to) ==
    /\ stage = from
    /\ method
    /\ Goto(to)

(* The method called in stage `at' has raised.                             *)
Raised(at, to) ==
    /\ stage = at
    /\ op = "idle" /\ outcome = "raised"
    /\ Goto(to)
    /\ UNCHANGED vars

Create == CreateCached \/ CreateBegin
Attach == AttachCached \/ AttachWithoutImages \/ AttachBegin
Finalize == FinalizeWithoutImages \/ FinalizeBegin

ServiceRuns == ServiceStep /\ UNCHANGED program

-----------------------------------------------------------------------------
(* The lifecycle: the prologue hook, then the parts                        *)

PrologueCreate == Call("start", Create, "prologue_create")

PrologueAttach ==
    /\ outcome = "created"
    /\ Call("prologue_create", Attach, "prologue_attach")

(* The loop paths are exported to the parts.                               *)
PrologueDone ==
    /\ stage = "prologue_attach"
    /\ op = "idle" /\ outcome = "attached"
    /\ Goto("parts")
    /\ UNCHANGED vars

PrologueFails ==
    \/ Raised("prologue_create", "lifecycle_failed")
    \/ Raised("prologue_attach", "lifecycle_failed")

(* Variant: the state of the part is not saved.                            *)
PartRunsUnsaved(p) ==
    /\ stage = "parts"
    /\ p \in Parts \ partsDone
    /\ ClientWrite(Volume, p)
    /\ partsHere' = partsHere \cup {p}
    /\ UNCHANGED <<stage, command, unformatted, raising, grubDevice,
                   partsDone, earlier>>

(* A part that is not done runs its build, which writes to the device it   *)
(* finds in CRAFT_VOLUME_*, and its state is saved.                        *)
PartRuns(p) ==
    /\ stage = "parts"
    /\ p \in Parts \ partsDone
    /\ ClientWrite(Volume, p)
    /\ partsDone' = partsDone \cup {p}
    /\ partsHere' = partsHere \cup {p}
    /\ UNCHANGED <<stage, command, unformatted, raising, grubDevice, earlier>>

PartFails ==
    /\ stage = "parts"
    /\ partsDone # Parts
    /\ Goto("lifecycle_failed")
    /\ UNCHANGED vars

LifecycleDone ==
    /\ stage = "parts"
    /\ partsDone = Parts
    /\ Goto(IF command = "pack" THEN "pack" ELSE "done")
    /\ UNCHANGED vars

-----------------------------------------------------------------------------
(* ImagecraftPackService.pack                                              *)

PackCreate == Call("pack", Create, "pack_create")

PackAttach ==
    /\ outcome = "created"
    /\ Call("pack_create", Attach, "pack_attach")

PackFails ==
    \/ Raised("pack_create", "pack_failed")
    \/ Raised("pack_attach", "pack_failed")
    \/ Raised("finalize", "pack_failed")

PackAttached ==
    /\ stage = "pack_attach"
    /\ op = "idle" /\ outcome = "attached"
    /\ Goto("format")
    /\ UNCHANGED vars

(* format_device fills one partition through the loop path.                *)
Format(p) ==
    /\ stage = "format"
    /\ p \in unformatted
    /\ ClientWrite(Volume, p)
    /\ unformatted' = unformatted \ {p}
    /\ UNCHANGED <<stage, command, raising, grubDevice,
                   partsDone, partsHere, earlier>>

(* Variant: the exception leaves pack without the finally clause.          *)
FormatFailsUncaught ==
    /\ stage = "format"
    /\ stage' = "pack_failed"
    /\ UNCHANGED <<vars, command, unformatted, raising, grubDevice,
                   partsDone, partsHere, earlier>>

(* Variant: the loop ends before the last structure item.                  *)
VerifyEarly == Call("format", VerifyImages, "verify")

(* It raises, or the user interrupts the loop; the finally clause detaches *)
(* the images.                                                             *)
FormatFails ==
    /\ stage = "format"
    /\ DetachBegin
    /\ stage' = "detach"
    /\ raising' = TRUE
    /\ UNCHANGED <<command, unformatted, grubDevice,
                   partsDone, partsHere, earlier>>

Verify ==
    /\ unformatted = {}
    /\ Call("format", VerifyImages, "verify")

Detach ==
    /\ stage = "verify"
    /\ DetachBegin
    /\ stage' = "detach"
    /\ raising' \in {TRUE, outcome = "raised"}
    /\ UNCHANGED <<command, unformatted, grubDevice,
                   partsDone, partsHere, earlier>>

(* Variant: the finally clause swallows the exception.                     *)
MoveImagesAnyway == Call("detach", Finalize, "finalize")

DetachedAfterError ==
    /\ stage = "detach"
    /\ op = "idle"
    /\ raising
    /\ Goto("pack_failed")
    /\ UNCHANGED vars

MoveImages ==
    /\ ~raising
    /\ Call("detach", Finalize, "finalize")

MovedImages ==
    /\ stage = "finalize"
    /\ op = "idle" /\ outcome = "finalized"
    /\ Goto("grub")
    /\ UNCHANGED vars

-----------------------------------------------------------------------------
(* setup_grub on the finished image                                        *)

(* No data or boot partition, or an architecture GRUB is not installed on. *)
GrubSkipped ==
    /\ stage = "grub"
    /\ Goto("done")
    /\ UNCHANGED vars

GrubAttach ==
    /\ stage = "grub"
    /\ \E d \in Devices :
          /\ backing[d] = None
          /\ backing' = [backing EXCEPT ![d] = final[Volume]]
          /\ grubDevice' = d
    /\ stage' = "grub_install"
    /\ UNCHANGED <<hidden, final, used, content, memory, emitter, call,
                   command, unformatted, raising, partsDone, partsHere, earlier>>

GrubAttachFails ==
    /\ stage = "grub"
    /\ "attach" \in Faults \/ \A d \in Devices : backing[d] # None
    /\ Fail("pack_failed")
    /\ UNCHANGED vars

(* GRUB is installed or not, and with or without an error: a root file     *)
(* system may lack the mount points, which is no error, and unmounting may *)
(* fail after the installation.                                            *)
GrubInstall ==
    /\ stage = "grub_install"
    /\ content' \in {content, [content EXCEPT ![backing[grubDevice]] = @ \cup {Grub}]}
    /\ raising' \in BOOLEAN
    /\ stage' = "grub_detach"
    /\ UNCHANGED <<backing, hidden, final, used, memory, emitter, call, command,
                   unformatted, grubDevice, partsDone, partsHere, earlier>>

(* Ctrl-C has taken the program out of grub-install, and the child process *)
(* still comes to its end.                                                 *)
GrubChild ==
    /\ stage \in {"grub_detach", "pack_failed", "exit"}
    /\ grubDevice # None
    /\ raising
    /\ content' = [content EXCEPT ![final[Volume]] = @ \cup {Grub}]
    /\ UNCHANGED <<backing, hidden, final, used, memory, emitter, call, program>>

(* _detach_loopdevs: every loop device on the image file, one at a time.   *)
GrubDetach(d) ==
    /\ stage = "grub_detach"
    /\ backing[d] = final[Volume]
    /\ backing' = [backing EXCEPT ![d] = None]
    /\ UNCHANGED <<hidden, final, used, content, memory, emitter, call, program>>

GrubDetachFails ==
    /\ stage = "grub_detach"
    /\ "detach" \in Faults
    /\ Fail("pack_failed")
    /\ UNCHANGED vars

GrubDetached ==
    /\ stage = "grub_detach"
    /\ \A d \in Devices : backing[d] # final[Volume]
    /\ Goto(IF raising THEN "pack_failed" ELSE "done")
    /\ UNCHANGED vars

-----------------------------------------------------------------------------
(* The end of a process, and the next one                                  *)

(* Ctrl-C.  It passes the `except Exception' of detach_images and goes the *)
(* way of any exception through the finally clauses of pack (FormatFails,  *)
(* Detach) and of attach_loopdev (GrubInstall); elsewhere it ends the      *)
(* program in the middle of what it does: in a method of the service, or   *)
(* between two; at worst when the `losetup' of setup_grub has attached the *)
(* device and not yet told its name.                                       *)
Interrupt ==
    /\ stage \in {"start", "prologue_create", "prologue_attach", "parts", "pack",
                  "pack_create", "pack_attach", "detach", "finalize",
                  "grub", "grub_detach"}
    /\ Fail("interrupted")
    /\ \/ MethodInterrupted
       \/ /\ op = "idle"
          /\ Return("interrupted")
          /\ \/ UNCHANGED backing
             \/ /\ stage = "grub"
                /\ \E d \in Devices :
                      /\ backing[d] = None
                      /\ backing' = [backing EXCEPT ![d] = final[Volume]]
          /\ UNCHANGED <<hidden, final, used, content, memory, emitter>>

ProgramExit ==
    /\ stage \in EndStages
    /\ Exit
    /\ Goto("exit")

NewProcess ==
    /\ Restart
    /\ Fresh
    /\ earlier' = used
    /\ UNCHANGED partsDone

OtherPrograms ==
    /\ \E d \in Devices : OtherAttach(d, Foreign) \/ OtherDetach(d)
    /\ UNCHANGED program

Lifecycle ==
    \/ PrologueCreate \/ PrologueAttach \/ PrologueDone \/ PrologueFails
    \/ (\E p \in Parts : PartRuns(p)) \/ PartFails \/ LifecycleDone

Pack ==
    \/ PackCreate \/ PackAttach \/ PackFails \/ PackAttached
    \/ (\E p \in Partitions : Format(p)) \/ FormatFails
    \/ Verify \/ Detach \/ DetachedAfterError \/ MoveImages \/ MovedImages

SetupGrub ==
    \/ GrubSkipped \/ GrubAttach \/ GrubAttachFails \/ GrubInstall \/ GrubChild
    \/ (\E d \in Devices : GrubDetach(d)) \/ GrubDetachFails \/ GrubDetached

ProgramNext ==
    \/ ServiceRuns \/ Lifecycle \/ Pack \/ SetupGrub \/ Interrupt \/ ProgramExit
    \/ NewProcess \/ OtherPrograms

ProgramSpec == ProgramInit /\ [][ProgramNext]_allVars

-----------------------------------------------------------------------------
(* Properties                                                              *)

Complete(i) == {Table} \cup Partitions \subseteq content[i]

(* What stands at the destination is at all times an image with a table    *)
(* and every partition filled: format_device went through the loop device  *)
(* to the very file that is moved there, also when an earlier process was  *)
(* killed and left files and devices behind.  (On one file system: a copy  *)
(* to another one can be cut short.)                                       *)
PublishedImageComplete ==
    final[Volume] # None => Complete(final[Volume])

(* A `pack' that succeeds leaves such an image also when it had to copy    *)
(* it, with everything the parts it ran wrote between the partitions, and  *)
(* leaves no temporary image behind.                                       *)
SuccessfulPack ==
    stage = "done" /\ command = "pack" =>
        /\ final[Volume] # None
        /\ Complete(final[Volume])
        /\ partsHere \subseteq content[final[Volume]]
        /\ hidden[Volume] = None

(* While parts run and partitions are formatted, the loop path the program *)
(* writes to leads to the temporary image: not to a finished image, not to *)
(* the file of a process that died.                                        *)
WritesReachTheImage ==
    stage \in {"parts", "format"} =>
        /\ hidden[Volume] # None
        /\ loopDevices[Volume] # None
        /\ backing[loopDevices[Volume]] = hidden[Volume]

(* To the eyes of who takes images from the destination this is the        *)
(* program Publishing: what any number of processes do to files, paths and *)
(* loop devices, whichever of them is killed where, amounts to drafting an *)
(* image, publishing it whole, and installing GRUB in it.  (On one file    *)
(* system.)                                                                *)
ContentAt(i) == IF i = None THEN None ELSE content[i]

Disk == INSTANCE Publishing WITH
    Needed <- {Table} \cup Partitions,
    Extra <- Parts,
    Boot <- Grub,
    Absent <- None,
    draft <- ContentAt(hidden[Volume]),
    published <- ContentAt(final[Volume])

PublishesWhole == Disk!Spec

(* When pack is over, by success or by an exception, and `losetup -d' did  *)
(* its work, none of the files this process created is bound to a device.  *)
PackReleasesDevices ==
    stage = "pack_failed" \/ (stage = "done" /\ command = "pack") =>
        \A d \in Devices : backing[d] \notin used \ earlier

(* Only its owner detaches a device bound to another program's file, even  *)
(* when setup_grub has released a device the service still has the name    *)
(* of.                                                                     *)
OthersKeepTheirDevices ==
    [][\A d \in Devices :
          backing[d] = Foreign /\ backing'[d] # Foreign =>
              UNCHANGED <<memory, emitter, call, program>>]_allVars

(* tests/spread/pack/sector-write/task.yaml 1: "Data written to sectors    *)
(* outside partitions via the loop device is preserved".                   *)
SectorWritesPreserved ==
    stage = "done" /\ command = "pack" => partsDone \subseteq content[final[Volume]]

=============================================================================
