----------------------------- MODULE GrubChroot -----------------------------
(***************************************************************************)
(* setup_grub (pack/grubutil.py) on one finished image: a loop device for  *)
(* the image, the image's partitions and the kernel's file systems mounted *)
(* on a directory (pack/chroot.py), and a child process that runs the GRUB *)
(* commands in there and answers through a pipe.  PackRun has this as the  *)
(* stages "grub" to "grub_detach"; here is what happens inside them.       *)
(*                                                                         *)
(* Two processes: the parent, in Chroot.execute, and the child.  Every     *)
(* external command of theirs may fail.                                    *)
(***************************************************************************)
EXTENDS Integers, Sequences

CONSTANTS
    Filesystems, \* the values the document's list `filesystems' may have
    Kernel,      \* the kernel's file systems: /dev, /dev/pts, proc, ...
    Faults       \* what can go wrong

FaultKinds == {"mount", "umount", "losetup", "command", "kill", "interrupt"}

(* A path is the sequence of its names, below the directory mounted on.    *)
Root == <<>>

AtOrBelow(p, q) == Len(q) <= Len(p) /\ \A i \in 1..Len(q) : p[i] = q[i]
Below(p, q) == Len(q) < Len(p) /\ AtOrBelow(p, q)

(* craft-parts demands that "/" be the first entry of `filesystems', and   *)
(* nothing else: the ones after it come in the order of the document, may  *)
(* lie on one another and have the same path.  The kernel's are listed by  *)
(* setup_grub, each after the ones it is below.                            *)
ASSUME ChrootAssumption ==
    /\ \A f \in Filesystems : f \in Seq(Seq(STRING)) /\ f # <<>> /\ f[1] = Root
    /\ Kernel \in Seq(Seq(STRING))
    /\ \A m, n \in DOMAIN Kernel : m < n => ~AtOrBelow(Kernel[m], Kernel[n])
    /\ Faults \subseteq FaultKinds

(* self.mounts, as setup_grub makes it of the document's list.              *)
Mounts == {f \o Kernel : f \in Filesystems}

VARIABLES
    order,     \* the path of each entry of self.mounts
    present,   \* <<m, p>>: the file system of entry m has a directory at p
    mounted,   \* the entries that are mounted
    pc,        \* where the parent is
    k,         \* the entry of self.mounts its loop is at
    recorded,  \* entries whose Mount has its _mountpoint set
    umountErrors,
    stuck,     \* history: entries `umount' itself failed on
    exception, \* what is being raised, "none" when nothing is
    answer,    \* what recv has returned
    named,     \* whether the Image has its loop_device
    device,    \* whether that loop device is attached
    pipe,      \* what the child has sent
    child,     \* the command the child runs next, or its state
    ran,       \* the commands of _grub_install that have succeeded
    interrupted \* where the parent was when the user pressed Ctrl-C

vars == <<order, present, mounted, pc, k, recorded, umountErrors, stuck, exception,
          answer, named, device, pipe, child, ran, interrupted>>

Commands == {"check", "install", "divert", "update", "undivert"}

Running == {"start", "image_mounts", "setup", "recv", "join", "cleanup", "detach"}

(* The directories that are looked up below the mount point of an entry.   *)
Directories(o) ==
    {d \in (DOMAIN o) \X {o[n] : n \in DOMAIN o} : Below(d[2], o[d[1]])}

TypeOK ==
    /\ order \in Mounts
    /\ present \subseteq Directories(order)
    /\ mounted \subseteq DOMAIN order
    /\ recorded \subseteq DOMAIN order /\ stuck \subseteq DOMAIN order
    /\ pc \in Running \cup {"returned", "raised"}
    /\ interrupted \in Running \cup {"none"}
    /\ k \in 0..(Len(order) + 1)
    /\ {umountErrors, named, device} \subseteq BOOLEAN
    /\ exception \in {"none", "ChrootMountError", "ChrootExecutionError",
                      "CalledProcessError", "ImageError", "KeyboardInterrupt"}
    /\ {answer, pipe} \subseteq {"none", "result", "error"}
    /\ child \in Commands \cup {"none", "sent", "exited", "killed"}
    /\ ran \subseteq Commands

Init ==
    /\ order \in Mounts
    /\ present \in {s \in SUBSET Directories(order) :
                       \A d \in s : \A e \in Directories(order) :
                          e[1] = d[1] /\ Below(d[2], e[2]) => e \in s}
    /\ pc = "start" /\ k = 1
    /\ recorded = {} /\ mounted = {} /\ stuck = {}
    /\ umountErrors = FALSE
    /\ exception = "none" /\ answer = "none" /\ pipe = "none"
    /\ named = FALSE /\ device = FALSE
    /\ child = "none"
    /\ ran = {}
    /\ interrupted = "none"

(* The mount that the path of entry n leads to: the latest of those at or  *)
(* above it, which hides what was there before.                            *)
Resolve(n) ==
    {d \in mounted : /\ AtOrBelow(order[n], order[d])
                     /\ \A m \in mounted : AtOrBelow(order[n], order[m]) => m <= d}

(* mount_dir itself is made by setup_grub.                                 *)
Exists(n) ==
    \/ order[n] = Root
    \/ \E d \in Resolve(n) : order[d] = order[n] \/ <<d, order[n]>> \in present

(* The mount at the path of entry n, if there is one.                      *)
Top(n) == {t \in Resolve(n) : order[t] = order[n]}

(* The mounts the path of entry r went through when it was mounted, all    *)
(* entries before it being mounted then.                                   *)
StandsOn(r) ==
    {m \in 1..(r - 1) : /\ AtOrBelow(order[r], order[m])
                        /\ \A c \in (m + 1)..(r - 1) : ~Below(order[m], order[c])}

Tree(t) == {r \in mounted : r = t \/ t \in StandsOn(r)}

Hiding(m) == {c \in mounted : c > m /\ AtOrBelow(order[m], order[c])}

(* `umount --recursive' goes through the mounts on one mount in the order  *)
(* they were made, and fails on one that a later one hides - unless that   *)
(* covers the whole mount, and goes first.                                 *)
Obstructed(t) ==
    \E m, c \in Tree(t) :
        /\ m < c /\ Below(order[m], order[c])
        /\ StandsOn(m) = StandsOn(c)
        /\ \A p \in StandsOn(c) : order[p] # order[c]

(* What it has unmounted when it fails.                                    *)
Partly(t) ==
    {gone \in SUBSET (Tree(t) \ {t}) :
        \A r \in gone : Tree(r) \cup Hiding(r) \subseteq gone}

-----------------------------------------------------------------------------
(* The parent, up to Chroot.execute                                        *)

Raise(e, to) ==
    /\ exception' = e
    /\ pc' = to

(* No data or boot partition, or an architecture without GRUB.             *)
Skip ==
    /\ pc = "start"
    /\ pc' = "returned"
    /\ UNCHANGED <<order, interrupted, named, present, mounted, k, recorded, stuck,
                   umountErrors, exception, answer, device, pipe, child, ran>>

AttachLoopdev ==
    /\ pc = "start"
    /\ \/ named' = TRUE /\ device' = TRUE /\ pc' = "image_mounts" /\ UNCHANGED exception
       \/ /\ "losetup" \in Faults
          /\ Raise("CalledProcessError", "raised")
          /\ UNCHANGED <<named, device>>
    /\ UNCHANGED <<order, interrupted, present, mounted, k, recorded, stuck,
                   umountErrors, answer, pipe, child, ran>>

(* Variant: outside of the context manager of the loop device.             *)
ImageMountsOutside ==
    /\ pc = "image_mounts"
    /\ \/ pc' = "setup" /\ UNCHANGED exception
       \/ Raise("ImageError", "raised")
    /\ UNCHANGED <<order, interrupted, present, mounted, k, recorded, stuck,
                   umountErrors, answer, named, device, pipe, child, ran>>

(* A file system entry may name a partition the volume does not have.      *)
ImageMounts ==
    /\ pc = "image_mounts"
    /\ \/ pc' = "setup" /\ UNCHANGED exception
       \/ Raise("ImageError", "detach")
    /\ UNCHANGED <<order, interrupted, present, mounted, k, recorded, stuck,
                   umountErrors, answer, named, device, pipe, child, ran>>

(* Out of the `try' of execute, into its `finally'.                        *)
CleanupBegin(e) ==
    /\ Raise(e, "cleanup")
    /\ k' = Len(order)

(* Mount.mount for entry k: _mountpoint is set before anything can fail.   *)
MountEntry ==
    /\ pc = "setup"
    /\ k \in DOMAIN order
    /\ recorded' = recorded \cup {k}
    /\ \/ /\ ~Exists(k)
          /\ CleanupBegin("ChrootMountError")
          /\ UNCHANGED mounted
       \/ /\ Exists(k)
          /\ mounted' = mounted \cup {k}
          /\ k' = k + 1
          /\ UNCHANGED <<pc, exception>>
       \/ /\ "mount" \in Faults
          /\ Exists(k)
          /\ CleanupBegin("CalledProcessError")
          /\ UNCHANGED mounted
    /\ UNCHANGED <<order, interrupted, named, present, stuck, umountErrors, answer,
                   device, pipe, child, ran>>

ChildStart ==
    /\ pc = "setup"
    /\ k \notin DOMAIN order
    /\ child' = "check"
    /\ pc' = "recv"
    /\ UNCHANGED <<order, interrupted, named, present, mounted, k, recorded, stuck,
                   umountErrors, exception, answer, device, pipe, ran>>

(* Variant: does not wait for the child.                                   *)
RecvAtOnce ==
    /\ pc = "recv"
    /\ answer' = "result"
    /\ CleanupBegin("none")
    /\ UNCHANGED <<order, interrupted, named, present, mounted, recorded, stuck,
                   umountErrors, device, pipe, child, ran>>

(* recv has no timeout, and sees no end of file when the child dies: the   *)
(* parent holds the other end of the pipe open itself.                     *)
Recv ==
    /\ pc = "recv"
    /\ pipe # "none"
    /\ answer' = pipe
    /\ pc' = "join"
    /\ UNCHANGED <<order, interrupted, named, present, mounted, k, recorded, stuck,
                   umountErrors, exception, device, pipe, child, ran>>

Join ==
    /\ pc = "join"
    /\ child \in {"exited", "killed"}
    /\ CleanupBegin("none")
    /\ UNCHANGED <<order, interrupted, named, present, mounted, recorded, stuck,
                   umountErrors, answer, device, pipe, child, ran>>

-----------------------------------------------------------------------------
(* The child: _runner and _grub_install                                    *)

ChildUnchanged ==
    UNCHANGED <<order, interrupted, named, present, mounted, pc, k, recorded, stuck,
                umountErrors, exception, answer, device>>

Following(c) ==
    CASE c = "check" -> "install"
      [] c = "install" -> "divert"
      [] c = "divert" -> "update"
      [] c = "update" -> "undivert"

(* The command succeeds, and it is not the last one.                       *)
CommandRuns ==
    /\ child \in Commands \ {"undivert"}
    /\ child' = Following(child)
    /\ ran' = ran \cup {child}
    /\ UNCHANGED pipe
    /\ ChildUnchanged

Undivert ==
    /\ child = "undivert"
    /\ ran' = ran \cup {child}
    /\ pipe' = "result"
    /\ child' = "sent"
    /\ ChildUnchanged

(* There is no grub-install in the image.                                  *)
GrubMissing ==
    /\ child = "check"
    /\ pipe' = "result"
    /\ child' = "sent"
    /\ UNCHANGED ran
    /\ ChildUnchanged

(* Variant: the child raises without an answer.                            *)
CommandFailsSilently ==
    /\ "command" \in Faults
    /\ child \in Commands
    /\ child' = "exited"
    /\ UNCHANGED <<pipe, ran>>
    /\ ChildUnchanged

(* Variant: the failure is not told apart from the result.                 *)
CommandFailsAsResult ==
    /\ "command" \in Faults
    /\ child \in Commands
    /\ pipe' = "result"
    /\ child' = "sent"
    /\ UNCHANGED ran
    /\ ChildUnchanged

(* A command fails or is missing: _grub_install raises, the ones left are  *)
(* not run, and _runner sends the message.                                 *)
CommandFails ==
    /\ "command" \in Faults
    /\ child \in Commands
    /\ pipe' = "error"
    /\ child' = "sent"
    /\ UNCHANGED ran
    /\ ChildUnchanged

ChildExits ==
    /\ child = "sent"
    /\ child' = "exited"
    /\ UNCHANGED <<pipe, ran>>
    /\ ChildUnchanged

(* Something kills it, or Ctrl-C has reached it as well as the parent: no   *)
(* answer is sent for a KeyboardInterrupt.                                 *)
ChildKilled ==
    /\ "kill" \in Faults \/ interrupted # "none"
    /\ child \in Commands \cup {"sent"}
    /\ child' = "killed"
    /\ UNCHANGED <<pipe, ran>>
    /\ ChildUnchanged

-----------------------------------------------------------------------------
(* Ctrl-C                                                                  *)

(* The parent leaves the `try' it is in for its `finally', whatever the    *)
(* child is doing; in _cleanup it leaves the loop, which only goes on      *)
(* after a CalledProcessError.  `losetup' may have attached the device     *)
(* already; entry k may have its _mountpoint and not be mounted yet.       *)
Interrupt ==
    /\ "interrupt" \in Faults
    /\ interrupted = "none"
    /\ interrupted' = pc
    /\ \/ /\ pc = "start"
          /\ Raise("KeyboardInterrupt", "raised")
          /\ device' \in BOOLEAN
          /\ UNCHANGED <<k, recorded>>
       \/ /\ pc \in {"setup", "recv", "join"}
          /\ CleanupBegin("KeyboardInterrupt")
          /\ recorded' \in {recorded} \cup
                {recorded \cup ({k} \cap DOMAIN order)}
          /\ UNCHANGED device
       \/ /\ pc \in {"image_mounts", "cleanup"}
          /\ Raise("KeyboardInterrupt", "detach")
          /\ UNCHANGED <<k, recorded, device>>
       \/ /\ pc = "detach"
          /\ Raise("KeyboardInterrupt", "raised")
          /\ UNCHANGED <<k, recorded, device>>
    /\ UNCHANGED <<order, present, mounted, stuck, umountErrors, answer, named,
                   pipe, child, ran>>

-----------------------------------------------------------------------------
(* The parent's `finally': Chroot._cleanup, then the loop device           *)

(* Mount.umount with nothing to do.                                        *)
UmountSkip ==
    /\ pc = "cleanup"
    /\ k \in DOMAIN order
    /\ k \notin recorded \/ ~Exists(k)
    /\ k' = k - 1
    /\ UNCHANGED <<order, interrupted, named, present, mounted, pc, recorded,
                   stuck, umountErrors, exception, answer, device, pipe, child, ran>>

(* Variant: drops the entry from the list that is being walked.            *)
UmountEntryDropping ==
    /\ pc = "cleanup"
    /\ k \in recorded
    /\ \E t \in Top(k) : ~Obstructed(t) /\ mounted' = mounted \ Tree(t)
    /\ k' = k - 2
    /\ UNCHANGED <<order, interrupted, named, present, pc, recorded, stuck,
                   umountErrors, exception, answer, device, pipe, child, ran>>

(* `umount --recursive': the mount that is there is entry k's, as a rule,  *)
(* and takes what stands on it along.                                      *)
UmountEntry ==
    /\ pc = "cleanup"
    /\ k \in recorded
    /\ \E t \in Top(k) : ~Obstructed(t) /\ mounted' = mounted \ Tree(t)
    /\ k' = k - 1
    /\ UNCHANGED <<order, interrupted, named, present, pc, recorded, stuck,
                   umountErrors, exception, answer, device, pipe, child, ran>>

(* After Ctrl-C the child may still run in the chroot.                     *)
Busy == child \in Commands \cup {"sent"}

(* Variant: the first error ends the loop.                                 *)
UmountFailsAndStops ==
    /\ pc = "cleanup"
    /\ k \in recorded
    /\ \/ /\ Exists(k) /\ Top(k) = {}
          /\ UNCHANGED <<mounted, stuck>>
       \/ \E t \in Top(k) :
             /\ "umount" \in Faults \/ Busy \/ Obstructed(t)
             /\ \E gone \in Partly(t) : mounted' = mounted \ gone
             /\ stuck' = stuck \cup {t}
    /\ umountErrors' = TRUE
    /\ k' = 0
    /\ UNCHANGED <<order, interrupted, named, present, pc, recorded, exception,
                   answer, device, pipe, child, ran>>

(* Variant: only asks whether mount was called.                            *)
UmountFailsOnMissing ==
    /\ pc = "cleanup"
    /\ k \in recorded
    /\ Top(k) = {}
    /\ umountErrors' = TRUE
    /\ k' = k - 1
    /\ UNCHANGED <<order, interrupted, named, present, mounted, pc, recorded,
                   stuck, exception, answer, device, pipe, child, ran>>

(* `mount --make-rprivate' fails on a directory nothing is mounted on;     *)
(* `umount --recursive' may fail, on a busy mount for example, with some   *)
(* of the mounts it takes along gone.  The error is kept for later, and    *)
(* the loop goes on.                                                       *)
UmountFails ==
    /\ pc = "cleanup"
    /\ k \in recorded
    /\ \/ /\ Exists(k) /\ Top(k) = {}
          /\ UNCHANGED <<mounted, stuck>>
       \/ \E t \in Top(k) :
             /\ "umount" \in Faults \/ Busy \/ Obstructed(t)
             /\ \E gone \in Partly(t) : mounted' = mounted \ gone
             /\ stuck' = stuck \cup {t}
    /\ umountErrors' = TRUE
    /\ k' = k - 1
    /\ UNCHANGED <<order, interrupted, named, present, pc, recorded, exception,
                   answer, device, pipe, child, ran>>

(* Variant: umount errors are not raised.                                  *)
CleanupDoneQuietly ==
    /\ pc = "cleanup"
    /\ k = 0
    /\ exception' = IF exception = "none" /\ answer = "error"
                    THEN "ChrootExecutionError"
                    ELSE IF exception = "ChrootMountError" THEN "none" ELSE exception
    /\ pc' = "detach"
    /\ UNCHANGED <<order, interrupted, named, present, mounted, k, recorded, stuck,
                   umountErrors, answer, device, pipe, child, ran>>

(* A failed clean up takes the place of whatever was being raised; then    *)
(* the child's error is raised; setup_grub catches a ChrootMountError.     *)
CleanupDone ==
    /\ pc = "cleanup"
    /\ k = 0
    /\ exception' = IF umountErrors \/ (exception = "none" /\ answer = "error")
                    THEN "ChrootExecutionError"
                    ELSE IF exception = "ChrootMountError" THEN "none" ELSE exception
    /\ pc' = "detach"
    /\ UNCHANGED <<order, interrupted, named, present, mounted, k, recorded, stuck,
                   umountErrors, answer, device, pipe, child, ran>>

(* _detach_loopdevs finds the device on the image file.                    *)
DetachLoopdevs ==
    /\ pc = "detach"
    /\ device
    /\ \/ device' = FALSE /\ UNCHANGED <<pc, exception>>
       \/ /\ "losetup" \in Faults
          /\ Raise("CalledProcessError", "raised")
          /\ UNCHANGED device
    /\ UNCHANGED <<order, interrupted, present, mounted, k, recorded, stuck,
                   umountErrors, answer, named, pipe, child, ran>>

(* It finds no more.                                                       *)
Leave ==
    /\ pc = "detach"
    /\ ~device
    /\ pc' = IF exception = "none" THEN "returned" ELSE "raised"
    /\ UNCHANGED <<order, interrupted, present, mounted, k, recorded, stuck,
                   exception, umountErrors, answer, named, device, pipe,
                   child, ran>>

-----------------------------------------------------------------------------
ParentStep ==
    \/ Skip \/ AttachLoopdev \/ ImageMounts \/ MountEntry \/ ChildStart
    \/ Recv \/ Join
    \/ UmountSkip \/ UmountEntry \/ UmountFails \/ CleanupDone
    \/ DetachLoopdevs \/ Leave

ChildStep ==
    CommandRuns \/ Undivert \/ GrubMissing \/ CommandFails \/ ChildExits

Next == ParentStep \/ ChildStep \/ ChildKilled \/ Interrupt

Spec == Init /\ [][Next]_vars

(* Both processes go on, and the commands they run end.                    *)
FairSpec == Spec /\ WF_vars(ParentStep) /\ WF_vars(ChildStep)

-----------------------------------------------------------------------------
Ended == pc \in {"returned", "raised"}

(* The GRUB commands never run in a half mounted chroot: everything is     *)
(* mounted before the first and while the last is still running, also when *)
(* the parent has its answer already, and the kernel's file systems are    *)
(* what is found at their paths, whatever the document's list has there.   *)
(* (Ctrl-C takes the parent to its clean up while the child still runs.)   *)
TargetInFullChroot ==
    child \in Commands \cup {"sent"} /\ interrupted = "none" =>
        /\ mounted = DOMAIN order /\ device
        /\ \A n \in DOMAIN order :
              n > Len(order) - Len(Kernel) => Resolve(n) = {n}

(* What stays mounted is never passed over in silence, even when the mount *)
(* error that would have been ignored came first.                          *)
LeftMountsReported == Ended /\ mounted # {} => pc = "raised"

(* What stays mounted is what `umount' failed on or lay hidden by that:    *)
(* everything else is unmounted, in whatever order the document has the    *)
(* entries, however far the set up got, whichever entry of it failed or    *)
(* was interrupted, and whatever went wrong with other entries in the      *)
(* clean up - unless Ctrl-C comes during the clean up itself.              *)
CleanAfterwards ==
    Ended /\ interrupted # "cleanup" =>
        \A m \in mounted :
            \E s \in stuck : s >= m /\ AtOrBelow(order[m], order[s])

(* A setup_grub that returns has changed nothing in the image or has run   *)
(* all its commands: in particular os-prober is back in place.             *)
AllOrNothing == pc = "returned" => ran \in {{}, Commands}

(* Nor does unmounting what was mounted before a missing directory find    *)
(* an error of its own, of what was mounted before or of the directory     *)
(* itself: only `umount' failing puts one in the place of the one that     *)
(* setup_grub ignores.                                                     *)
MissingDirectoryQuiet ==
    pc = "cleanup" /\ exception = "ChrootMountError" /\ umountErrors => stuck # {}

(* A root file system without one of the directories is no error, wherever *)
(* in the list it is met (unless umount or losetup fail, or the user       *)
(* interrupts): unmounting what was mounted before it does not fail on it. *)
MissingDirectoryIgnored ==
    exception = "ChrootMountError" ~>
        \/ pc = "returned" \/ stuck # {} \/ interrupted # "none"
        \/ pc = "raised" /\ device

(* setup_grub ends and keeps no loop device silently, whatever fails in    *)
(* the child: it answers or, killed before that, leaves the parent waiting *)
(* until the user presses Ctrl-C.                                          *)
SetupEnds ==
    \/ <>(Ended /\ (device => pc = "raised"))
    \/ <>[](pc = "recv" /\ child = "killed" /\ pipe = "none" /\ interrupted = "none")

=============================================================================
