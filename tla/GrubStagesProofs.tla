-------------------------- MODULE GrubStagesProofs --------------------------
(***************************************************************************)
(* setup_grub implements the stages PackRun has for it, for every list of  *)
(* mounts, every root file system and every combination of faults.         *)
(***************************************************************************)
EXTENDS GrubStages, GrubChrootProofs

Inside == pc \in {"image_mounts", "setup", "recv", "join", "cleanup"}

(* The loop device, and the two places where Ctrl-C ends setup_grub at     *)
(* once: no child runs then.                                               *)
SInv ==
    /\ pc = "start" => ~device /\ ~named
    /\ Inside => device /\ named
    /\ pc = "detach" => named
    /\ child # "none" => named
    /\ interrupted \in {"start", "detach"} =>
          pc = "raised" /\ child \in {"none", "exited", "killed"}

HasGrub == Left /\ ran = Commands
Raising == Left /\ exception # "none"

LEMMA InitSInv == Init => SInv
BY DEF Init, SInv, Inside

LEMMA StepSInv == GInv /\ SInv /\ [Next]_vars => SInv'
<1> SUFFICES ASSUME GInv, SInv, [Next]_vars PROVE SInv'
  OBVIOUS
<1> USE DEF GInv, SInv, Inside, Raise, CleanupBegin
<1>1. CASE Skip \/ AttachLoopdev \/ ImageMounts \/ MountEntry \/ ChildStart
  BY <1>1 DEF Skip, AttachLoopdev, ImageMounts, MountEntry, ChildStart, Parent
<1>2. CASE Recv \/ Join
  BY <1>2 DEF Recv, Join
<1>3. CASE UmountSkip \/ UmountEntry \/ UmountFails \/ CleanupDone
  BY <1>3 DEF UmountSkip, UmountEntry, UmountFails, CleanupDone
<1>4. CASE DetachLoopdevs \/ Leave
  BY <1>4 DEF DetachLoopdevs, Leave
<1>5. CASE ChildStep \/ ChildKilled
  BY <1>5
  DEF ChildStep, CommandRuns, Undivert, GrubMissing, CommandFails, ChildExits,
      ChildKilled, ChildUnchanged, Commands
<1>6. CASE Interrupt
  BY <1>6 DEF Interrupt, Waiting, Parent
<1>7. CASE UNCHANGED vars
  BY <1>7 DEF vars
<1> QED
  BY <1>1, <1>2, <1>3, <1>4, <1>5, <1>6, <1>7 DEF Next, ParentStep

-----------------------------------------------------------------------------
(* The steps of PackRun, in terms of what the mapping shows of setup_grub. *)

(* Nothing of it changes.                                                  *)
LEMMA Stutter ==
    ASSUME UNCHANGED <<Stage, device, named, HasGrub, Raising>>
    PROVE  UNCHANGED Program!allVars
BY DEF HasGrub, Raising, Program!allVars, Program!vars, Program!host, Program!memory,
       Program!call, Program!program

LEMMA Skipped ==
    ASSUME Stage = "grub", Stage' = "done",
           UNCHANGED <<device, named, HasGrub, Raising>>
    PROVE  Program!GrubSkipped
BY DEF HasGrub, Raising, Program!GrubSkipped, Program!Goto, Program!vars, Program!host,
       Program!memory, Program!call

LEMMA Attached ==
    ASSUME Stage = "grub", Stage' = "grub_install", ~device, device', named',
           UNCHANGED <<HasGrub, Raising>>
    PROVE  Program!GrubAttach
BY DEF HasGrub, Raising, Program!GrubAttach, Program!memory, Program!call, Program!Volume

LEMMA AttachFailed ==
    ASSUME Stage = "grub", Stage' = "pack_failed", "losetup" \in Faults,
           ~Raising, Raising', UNCHANGED <<device, named, HasGrub>>
    PROVE  Program!GrubAttachFails
BY DEF HasGrub, Raising, Program!GrubAttachFails, Program!Fail, Program!vars,
       Program!host, Program!memory, Program!call

LEMMA Installed ==
    ASSUME Stage = "grub_install", Stage' = "grub_detach", device, named, ~HasGrub,
           UNCHANGED <<device, named>>
    PROVE  Program!GrubInstall
BY DEF HasGrub, Raising, Program!GrubInstall, Program!memory, Program!call

LEMMA ChildWrote ==
    ASSUME Stage \in {"grub_detach", "pack_failed"}, named, Raising, ~HasGrub, HasGrub',
           UNCHANGED <<Stage, device, named, Raising>>
    PROVE  Program!GrubChild
BY DEF HasGrub, Raising, Program!GrubChild, Program!memory, Program!call,
       Program!program, Program!Volume

LEMMA Detached ==
    ASSUME Stage = "grub_detach", device, ~device',
           UNCHANGED <<Stage, named, HasGrub, Raising>>
    PROVE  Program!GrubDetach("loop")
BY DEF HasGrub, Raising, Program!GrubDetach, Program!memory, Program!call,
       Program!program, Program!Volume

LEMMA DetachFailed ==
    ASSUME Stage = "grub_detach", Stage' = "pack_failed", "losetup" \in Faults,
           Raising', UNCHANGED <<device, named, HasGrub>>
    PROVE  Program!GrubDetachFails
BY DEF HasGrub, Raising, Program!GrubDetachFails, Program!Fail, Program!vars,
       Program!host, Program!memory, Program!call

LEMMA DetachedAll ==
    ASSUME Stage = "grub_detach", ~device,
           Stage' = IF Raising THEN "pack_failed" ELSE "done",
           UNCHANGED <<device, named, HasGrub, Raising>>
    PROVE  Program!GrubDetached
BY DEF HasGrub, Raising, Program!GrubDetached, Program!Goto, Program!vars,
       Program!host, Program!memory, Program!call, Program!Volume

LEMMA InterruptedThere ==
    ASSUME Stage \in {"grub", "grub_detach"}, Stage' = "interrupted", Raising',
           device' = device \/ (Stage = "grub" /\ ~device /\ device'),
           UNCHANGED <<named, HasGrub>>
    PROVE  Program!Interrupt
BY DEF HasGrub, Raising, Program!Interrupt, Program!Return, Program!Fail,
       Program!memory, Program!Volume

-----------------------------------------------------------------------------
LEMMA Follows ==
    ASSUME GInv, SInv, Next
    PROVE  Program!SetupGrub \/ Program!Interrupt \/ UNCHANGED Program!allVars
<1> USE DEF GInv, SInv, Inside, Raise, CleanupBegin, Program!SetupGrub
<1>1. CASE Skip
  <2>1. ran # Commands
    BY <1>1 DEF Skip, Parent, Answers, Commands
  <2> QED
    BY <1>1, <2>1, Skipped DEF Skip, Parent, Stage, Left, HasGrub, Raising
<1>2. CASE AttachLoopdev
  <2>1. ran # Commands
    BY <1>2 DEF AttachLoopdev, Parent, Answers, Commands
  <2>2. interrupted = "none"
    BY <1>2 DEF AttachLoopdev, Interrupted
  <2>3. CASE named'
    BY <1>2, <2>1, <2>3, Attached
    DEF AttachLoopdev, Parent, Stage, Left, HasGrub, Raising
  <2>4. CASE ~named'
    BY <1>2, <2>1, <2>2, <2>4, AttachFailed
    DEF AttachLoopdev, Parent, Stage, Left, HasGrub, Raising
  <2> QED
    BY <2>3, <2>4
<1>3. CASE ImageMounts
  <2>1. CASE pc' = "setup"
    BY <1>3, <2>1, Stutter DEF ImageMounts, Stage, Left, HasGrub, Raising
  <2>2. CASE pc' = "detach"
    BY <1>3, <2>2, Installed DEF ImageMounts, Stage, Left, HasGrub
  <2> QED
    BY <1>3, <2>1, <2>2 DEF ImageMounts
<1>4. CASE MountEntry \/ ChildStart \/ Recv \/ Join \/ UmountSkip \/ UmountEntry \/ UmountFails
  <2>1. /\ pc \in {"setup", "recv", "join", "cleanup"}
        /\ pc' \in {"setup", "recv", "join", "cleanup"}
        /\ UNCHANGED <<device, named>>
    BY <1>4 DEF MountEntry, ChildStart, Recv, Join, UmountSkip, UmountEntry, UmountFails
  <2> QED
    BY <2>1, Stutter DEF Stage, Left, HasGrub, Raising
<1>5. CASE CleanupDone
  BY <1>5, Installed DEF CleanupDone, Stage, Left, HasGrub
<1>6. CASE DetachLoopdevs
  <2>1. CASE pc' = "detach"
    BY <1>6, <2>1, Detached DEF DetachLoopdevs, Stage, Left, HasGrub, Raising
  <2>2. CASE pc' = "raised"
    BY <1>6, <2>2, DetachFailed DEF DetachLoopdevs, Stage, Left, HasGrub, Raising
  <2> QED
    BY <1>6, <2>1, <2>2 DEF DetachLoopdevs
<1>7. CASE Leave
  BY <1>7, DetachedAll DEF Leave, Stage, Left, HasGrub, Raising
<1>8. CASE ChildStep \/ ChildKilled
  <2>1. /\ child \in Commands \cup {"sent"}
        /\ ran \subseteq ran'
        /\ UNCHANGED <<pc, exception, interrupted, device, named>>
    BY <1>8
    DEF ChildStep, CommandRuns, Undivert, GrubMissing, CommandFails, ChildExits,
        ChildKilled, ChildUnchanged, Commands
  <2>2. UNCHANGED <<Stage, Left, Raising>>
    BY <2>1 DEF Stage, Left, Raising
  <2>3. ran' \subseteq Commands
    BY <1>8, StepGInv DEF Next, TypeOK
  <2>4. CASE HasGrub' = HasGrub
    BY <2>1, <2>2, <2>4, Stutter
  <2>5. CASE HasGrub' # HasGrub
    <3>1. ~HasGrub /\ HasGrub' /\ Left
      BY <2>1, <2>2, <2>3, <2>5 DEF HasGrub
    <3>2. interrupted \notin {"none", "start", "detach"}
      BY <2>1, <3>1 DEF Left, Waiting, Commands
    <3>3. pc \in {"detach", "raised"} /\ exception # "none"
      BY <3>1, <3>2 DEF Left, Interrupted
    <3>4. Stage \in {"grub_detach", "pack_failed"} /\ Raising /\ named
      BY <2>1, <3>1, <3>2, <3>3 DEF Stage, Raising, Commands
    <3> QED
      BY <2>1, <2>2, <3>1, <3>4, ChildWrote
  <2> QED
    BY <2>4, <2>5
<1>9. CASE Interrupt
  <2>1. CASE pc = "start"
    <3>1. ran # Commands
      BY <2>1 DEF Parent, Answers, Commands
    <3> QED
      BY <1>9, <2>1, <3>1, InterruptedThere
      DEF Interrupt, Parent, Stage, Left, HasGrub, Raising, TypeOK
  <2>2. CASE pc \in {"setup", "recv", "join"}
    BY <1>9, <2>2, Stutter DEF Interrupt, Stage, Left, HasGrub, Raising
  <2>3. CASE pc \in {"image_mounts", "cleanup"}
    BY <1>9, <2>3, Installed DEF Interrupt, Stage, Left, HasGrub
  <2>4. CASE pc = "detach"
    BY <1>9, <2>4, InterruptedThere
    DEF Interrupt, Stage, Left, HasGrub, Raising, TypeOK
  <2> QED
    BY <1>9, <2>1, <2>2, <2>3, <2>4 DEF Interrupt
<1> QED
  BY <1>1, <1>2, <1>3, <1>4, <1>5, <1>6, <1>7, <1>8, <1>9 DEF Next, ParentStep

(* Every way through setup_grub, with any fault and with Ctrl-C, is one    *)
(* that the stages "grub" to "grub_detach" of PackRun have.                *)
THEOREM SetupFollowsTheStages == Spec => FollowsTheStages
<1>1. GInv /\ SInv /\ [Next]_vars
         => [Program!SetupGrub \/ Program!Interrupt]_(Program!allVars)
  <2> SUFFICES ASSUME GInv, SInv, [Next]_vars
               PROVE  [Program!SetupGrub \/ Program!Interrupt]_(Program!allVars)
    OBVIOUS
  <2>1. CASE Next
    BY <2>1, Follows
  <2>2. CASE UNCHANGED vars
    BY <2>2, Stutter DEF vars, Stage, Left, HasGrub, Raising
  <2> QED
    BY <2>1, <2>2
<1> QED
  BY <1>1, InitSInv, StepSInv, GInvHolds, PTL DEF Spec, FollowsTheStages

=============================================================================
