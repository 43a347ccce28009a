---------------------------- MODULE ImageService ----------------------------
(***************************************************************************)
(* The image service (services/image.py): the hidden image files of the    *)
(* project's volumes, the loop devices they are attached to, and the state *)
(* the process remembers about both, under any client that calls the       *)
(* service's public methods in any order.                                  *)
(*                                                                         *)
(* A method is a loop over volumes with one external command per round;    *)
(* every round is a step, so that a command can fail, other programs can   *)
(* act and the process can be killed between two rounds.  `op' names the   *)
(* method in progress, `todo' the volumes its loop has left.  The order of *)
(* a loop is the order of a Python dict, which no property depends on: the *)
(* model takes the volumes in any order.                                   *)
(***************************************************************************)
EXTENDS Naturals, FiniteSets

CONSTANTS
    Volumes,    \* names of the project's volumes
    Hybrid,     \* those of them whose schema is "mbr,gpt"
    Devices,    \* names of the loop devices of the host
    Inodes,     \* files that can ever be created (bound of a run)
    Payloads,   \* what a client may write through a loop device
    Faults,     \* external commands that may fail: see FaultKinds
    CrossDevice,\* the destination directory is on another file system
    MaxTries,   \* `losetup -d' attempts that fit in the ten seconds
    Table,      \* content: a partition table
    None,       \* Python's None, a missing file, an unbound device
    Foreign     \* a file of another program

FaultKinds == {"sfdisk", "attach", "detach", "move"}

ASSUME ConstantsAssumption ==
    /\ Hybrid \subseteq Volumes
    /\ Faults \subseteq FaultKinds
    /\ CrossDevice \in BOOLEAN
    /\ MaxTries \in Nat \ {0}
    /\ Table \notin Payloads
    /\ None \notin Volumes \cup Devices \cup Inodes
    /\ \A S \in SUBSET Volumes : S # None
    /\ Foreign \notin Volumes \cup Inodes \cup {None}

VARIABLES
    (* the host *)
    backing,           \* the file each loop device is bound to
    hidden,            \* the file at .{volume}.img.tmp
    final,             \* the file at dest/{volume}.img
    used,              \* the files created so far
    content,           \* what has been written to each of them
    (* the memory of the process *)
    images,            \* ImageService._images, as the set of its keys
    loopDevices,       \* ImageService._loop_devices
    atexitRegistered,  \* ImageService._atexit_registered
    emitter,           \* the message emitter of craft-cli is running
    (* the method in progress *)
    op, todo,
    current,           \* the volume in the middle of a round, or None
    listing,           \* all_devices: the back-file `losetup' listed
    tries,             \* failed rounds of the retry loop
    outcome            \* how the last method ended

host   == <<backing, hidden, final, used, content>>
memory == <<images, loopDevices, atexitRegistered>>
call   == <<op, todo, current, listing, tries, outcome>>
vars   == <<host, memory, emitter, call>>

Ops == {"idle", "create", "layout", "attach", "detach", "finalize", "copy",
        "unlink"}
Outcomes == {"none", "created", "attached", "detached", "verified",
             "finalized", "raised", "interrupted"}

TypeOK ==
    /\ backing \in [Devices -> Inodes \cup {None, Foreign}]
    /\ hidden \in [Volumes -> Inodes \cup {None}]
    /\ final \in [Volumes -> Inodes \cup {None}]
    /\ used \subseteq Inodes
    /\ content \in [Inodes -> SUBSET (Payloads \cup {Table})]
    /\ images = None \/ images \subseteq Volumes
    /\ loopDevices \in [Volumes -> Devices \cup {None}]
    /\ atexitRegistered \in BOOLEAN
    /\ emitter \in BOOLEAN
    /\ op \in Ops
    /\ todo \subseteq Volumes
    /\ current \in Volumes \cup {None}
    /\ listing \in [Devices -> Volumes \cup {None, Foreign}]
    /\ tries \in 0..MaxTries
    /\ outcome \in Outcomes

FreshMemory ==
    /\ images = None
    /\ loopDevices = [v \in Volumes |-> None]
    /\ atexitRegistered = FALSE

NoCall ==
    /\ op = "idle"
    /\ todo = {}
    /\ current = None
    /\ listing = [d \in Devices |-> None]
    /\ tries = 0
    /\ outcome = "none"

Init ==
    /\ backing = [d \in Devices |-> None]
    /\ hidden = [v \in Volumes |-> None]
    /\ final = [v \in Volumes |-> None]
    /\ used = {}
    /\ content = [i \in Inodes |-> {}]
    /\ FreshMemory
    /\ emitter = TRUE
    /\ NoCall

Recorded == {v \in Volumes : loopDevices[v] # None}

(* The program goes on: it has not ended, and no Ctrl-C stopped a method.   *)
Going == emitter /\ outcome # "interrupted"

(* A client may call a method.                                             *)
Callable == op = "idle" /\ Going

(* The method in progress ends.                                            *)
Return(result) ==
    /\ op' = "idle"
    /\ todo' = {}
    /\ current' = None
    /\ listing' = [d \in Devices |-> None]
    /\ tries' = 0
    /\ outcome' = result

(* The method starts a loop over `volumes'.                                *)
Enter(method, volumes) ==
    /\ op' = method
    /\ todo' = volumes
    /\ current' = None
    /\ tries' = 0
    /\ outcome' = outcome

-----------------------------------------------------------------------------
(* create_images                                                           *)

CreateCached ==
    /\ Callable
    /\ images # None
    /\ Return("created")
    /\ UNCHANGED <<host, memory, emitter>>

(* The bound on files: images are created while enough files are left for  *)
(* them and, where moving is copying, for a copy; a copy that finds none   *)
(* left can only fail.                                                     *)
FilesLeft ==
    Cardinality(Inodes \ used) >=
        Cardinality(Volumes \ Hybrid) + (IF CrossDevice THEN 1 ELSE 0)

(* Variant: the images are created again by every call.                    *)
CreateBeginAgain ==
    /\ Callable
    /\ FilesLeft
    /\ images' = {}
    /\ Enter("create", Volumes)
    /\ UNCHANGED <<host, loopDevices, atexitRegistered, emitter, listing>>

(* The dict is bound before any image exists.                              *)
CreateBegin ==
    /\ Callable
    /\ images = None
    /\ FilesLeft
    /\ images' = {}
    /\ Enter("create", Volumes)
    /\ UNCHANGED <<host, loopDevices, atexitRegistered, emitter, listing>>

(* create_zero_image: unlink what is at the path, create a new file there. *)
CreateZeroImage(v) ==
    /\ op = "create"
    /\ v \in todo \ Hybrid
    /\ \E i \in Inodes \ used :
          /\ used' = used \cup {i}
          /\ hidden' = [hidden EXCEPT ![v] = i]
    /\ op' = "layout"
    /\ current' = v
    /\ UNCHANGED <<backing, final, content, memory, emitter,
                   todo, listing, tries, outcome>>

CreateUnimplemented ==
    /\ op = "create"
    /\ todo \cap Hybrid # {}
    /\ Return("raised")
    /\ UNCHANGED <<host, memory, emitter>>

(* Variant: the volume enters the dict although sfdisk left no table.      *)
CreateLayoutUnchecked ==
    /\ op = "layout"
    /\ images' = images \cup {current}
    /\ op' = "create"
    /\ todo' = todo \ {current}
    /\ current' = None
    /\ UNCHANGED <<backing, hidden, final, used, content, loopDevices,
                   atexitRegistered, emitter, listing, tries, outcome>>

(* sfdisk writes the table, and the volume enters the dict.                *)
CreateLayout ==
    /\ op = "layout"
    /\ content' = [content EXCEPT ![hidden[current]] = @ \cup {Table}]
    /\ images' = images \cup {current}
    /\ op' = "create"
    /\ todo' = todo \ {current}
    /\ current' = None
    /\ UNCHANGED <<backing, hidden, final, used, loopDevices,
                   atexitRegistered, emitter, listing, tries, outcome>>

CreateLayoutFails ==
    /\ op = "layout"
    /\ "sfdisk" \in Faults
    /\ Return("raised")
    /\ UNCHANGED <<host, memory, emitter>>

CreateReturn ==
    /\ op = "create"
    /\ todo = {}
    /\ Return("created")
    /\ UNCHANGED <<host, memory, emitter>>

-----------------------------------------------------------------------------
(* attach_images                                                           *)

AttachCached ==
    /\ Callable
    /\ Recorded # {}
    /\ Return("attached")
    /\ UNCHANGED <<host, memory, emitter>>

AttachWithoutImages ==
    /\ Callable
    /\ Recorded = {}
    /\ images = None
    /\ Return("raised")
    /\ UNCHANGED <<host, memory, emitter>>

(* The back-file the kernel reports for a device: the path its file has    *)
(* now.  A path other than a hidden one (a final image, "... (deleted)", a *)
(* file of another program) is Foreign to this listing.                    *)
BackFile(d) ==
    IF backing[d] = None THEN None
    ELSE IF \E v \in Volumes : hidden[v] = backing[d]
         THEN CHOOSE v \in Volumes : hidden[v] = backing[d]
         ELSE Foreign

(* _get_all_loop_devices lists the devices once; an error lists nothing.   *)
AttachBegin ==
    /\ Callable
    /\ Recorded = {}
    /\ images # None
    /\ \/ listing' = [d \in Devices |-> BackFile(d)]
       \/ /\ "attach" \in Faults
          /\ listing' = [d \in Devices |-> None]
    /\ Enter("attach", images)
    /\ UNCHANGED <<host, memory, emitter>>

(* Variant: any listed device is taken for one on the volume's file.       *)
SameFileUnchecked(v) == {d \in Devices : listing[d] # None /\ hidden[v] # None}

(* samefile answers only when the image file exists; when it does not, a   *)
(* device listed under the image's path is taken to be stale.              *)
SameFile(v) == {d \in Devices : listing[d] = v /\ hidden[v] # None}
StaleDevices(v) == {d \in Devices : listing[d] = v /\ hidden[v] = None}

Record(v, d) ==
    /\ loopDevices' = [loopDevices EXCEPT ![v] = d]
    /\ todo' = todo \ {v}
    /\ UNCHANGED <<hidden, final, used, content, images, atexitRegistered,
                   emitter, op, current, listing, tries, outcome>>

AttachReuse(v) ==
    /\ op = "attach"
    /\ v \in todo
    /\ \E d \in SameFile(v) : Record(v, d)
    /\ UNCHANGED backing

(* losetup --find --show --partscan binds an unbound device.               *)
AttachFresh(v) ==
    /\ op = "attach"
    /\ v \in todo
    /\ SameFile(v) = {}
    /\ hidden[v] # None
    /\ \E d \in Devices :
          /\ backing[d] = None
          /\ backing' = [backing EXCEPT ![d] = hidden[v]]
          /\ Record(v, d)

(* The command fails: no file to attach, no device left, or a fault.  What *)
(* earlier rounds recorded stays, and nothing is registered at exit.       *)
AttachFails(v) ==
    /\ op = "attach"
    /\ v \in todo
    /\ SameFile(v) = {}
    /\ \/ hidden[v] = None
       \/ \A d \in Devices : backing[d] # None
       \/ "attach" \in Faults
    /\ backing' = [d \in Devices |->
                      IF d \in StaleDevices(v) THEN None ELSE backing[d]]
    /\ Return("raised")
    /\ UNCHANGED <<hidden, final, used, content, memory, emitter>>

AttachReturn ==
    /\ op = "attach"
    /\ todo = {}
    /\ atexitRegistered' = TRUE
    /\ Return("attached")
    /\ UNCHANGED <<host, images, loopDevices, emitter>>

-----------------------------------------------------------------------------
(* detach_images: called by a client, or by the interpreter at exit        *)

DetachBegin ==
    /\ Callable
    /\ Enter("detach", Recorded)
    /\ UNCHANGED <<host, memory, emitter, listing>>

(* Variant: the command is run whether or not the message can be emitted.  *)
RunExecutesSilently == TRUE

(* The command `losetup -d' is run through subprocesses.run, which emits a *)
(* debug message first; that raises once the emitter has been stopped.     *)
RunExecutes == emitter

(* Variant: the device is detached but its name is kept in the dict.       *)
DetachTryKeepsName(v) ==
    /\ op = "detach"
    /\ v \in todo
    /\ current \in {None, v}
    /\ RunExecutes
    /\ backing[loopDevices[v]] # None
    /\ backing' = [backing EXCEPT ![loopDevices[v]] = None]
    /\ todo' = todo \ {v}
    /\ current' = None
    /\ tries' = 0
    /\ UNCHANGED <<hidden, final, used, content, memory,
                   emitter, op, listing, outcome>>

(* One round of the retry loop for v succeeds.  `losetup -d' takes the     *)
(* device by its name, whatever the device is bound to now.                *)
DetachTry(v) ==
    /\ op = "detach"
    /\ v \in todo
    /\ current \in {None, v}
    /\ RunExecutes
    /\ backing[loopDevices[v]] # None
    /\ backing' = [backing EXCEPT ![loopDevices[v]] = None]
    /\ loopDevices' = [loopDevices EXCEPT ![v] = None]
    /\ todo' = todo \ {v}
    /\ current' = None
    /\ tries' = 0
    /\ UNCHANGED <<hidden, final, used, content, images, atexitRegistered,
                   emitter, op, listing, outcome>>

(* Variant: the ten seconds start anew with every attempt.                 *)
DetachFailsForever(v) ==
    /\ op = "detach"
    /\ v \in todo
    /\ current \in {None, v}
    /\ \/ ~RunExecutes
       \/ backing[loopDevices[v]] = None
       \/ "detach" \in Faults
    /\ tries' = 1 - tries
    /\ current' = v
    /\ UNCHANGED <<host, memory, emitter, op, todo, listing, outcome>>

(* Variant: the attempts are not limited at all.                           *)
DetachFailsUnlimited(v) ==
    /\ op = "detach"
    /\ v \in todo
    /\ current \in {None, v}
    /\ \/ ~RunExecutes
       \/ backing[loopDevices[v]] = None
       \/ "detach" \in Faults
    /\ tries' = tries + 1
    /\ current' = v
    /\ UNCHANGED <<host, memory, emitter, op, todo, listing, outcome>>

(* It fails (busy, not bound, or not run at all) and is tried again.       *)
DetachFails(v) ==
    /\ op = "detach"
    /\ v \in todo
    /\ current \in {None, v}
    /\ \/ ~RunExecutes
       \/ backing[loopDevices[v]] = None
       \/ "detach" \in Faults
    /\ tries < MaxTries
    /\ tries' = tries + 1
    /\ current' = v
    /\ UNCHANGED <<host, memory, emitter, op, todo, listing, outcome>>

(* Ten seconds are over: a warning, and the device stays in the dict.  A   *)
(* slow command may use the ten seconds up in fewer than MaxTries rounds.  *)
DetachGiveUp(v) ==
    /\ op = "detach"
    /\ current = v
    /\ todo' = todo \ {v}
    /\ current' = None
    /\ tries' = 0
    /\ UNCHANGED <<host, memory, emitter, op, listing, outcome>>

DetachReturn ==
    /\ op = "detach"
    /\ todo = {}
    /\ Return("detached")
    /\ UNCHANGED <<host, memory, emitter>>

-----------------------------------------------------------------------------
(* verify_images and finalize_images                                       *)

Verifiable ==
    images # None =>
        \A v \in images \ Hybrid : hidden[v] # None /\ Table \in content[hidden[v]]

VerifyImages ==
    /\ Callable
    /\ Return(IF Verifiable THEN "verified" ELSE "raised")
    /\ UNCHANGED <<host, memory, emitter>>

FinalizeWithoutImages ==
    /\ Callable
    /\ images = None
    /\ Return("raised")
    /\ UNCHANGED <<host, memory, emitter>>

FinalizeBegin ==
    /\ Callable
    /\ images # None
    /\ Enter("finalize", images)
    /\ UNCHANGED <<host, memory, emitter, listing>>

(* shutil.move renames the file when the destination is on the same file   *)
(* system; the path then changes hands at once.                            *)
FinalizeRename(v) ==
    /\ op = "finalize"
    /\ v \in todo
    /\ ~CrossDevice
    /\ hidden[v] # None
    /\ final' = [final EXCEPT ![v] = hidden[v]]
    /\ hidden' = [hidden EXCEPT ![v] = None]
    /\ todo' = todo \ {v}
    /\ UNCHANGED <<backing, used, content, memory, emitter,
                   op, current, listing, tries, outcome>>

(* Variant: the destination is not named after the volume.                 *)
FinalizeCopyOneName(v) ==
    /\ op = "finalize"
    /\ v \in todo
    /\ CrossDevice
    /\ hidden[v] # None
    /\ IF \E w \in Volumes : final[w] # None
       THEN LET file == final[CHOOSE w \in Volumes : final[w] # None]
            IN  /\ content' = [content EXCEPT ![file] = {}]
                /\ final' = [final EXCEPT ![v] = file]
                /\ UNCHANGED used
       ELSE /\ \E i \in Inodes \ used :
                  /\ used' = used \cup {i}
                  /\ final' = [final EXCEPT ![v] = i]
            /\ UNCHANGED content
    /\ op' = "copy"
    /\ current' = v
    /\ UNCHANGED <<backing, hidden, memory, emitter,
                   todo, listing, tries, outcome>>

(* On another file system it truncates or creates the destination, copies  *)
(* into it, and unlinks the source.                                        *)
FinalizeCopy(v) ==
    /\ op = "finalize"
    /\ v \in todo
    /\ CrossDevice
    /\ hidden[v] # None
    /\ IF final[v] # None
       THEN /\ content' = [content EXCEPT ![final[v]] = {}]
            /\ UNCHANGED <<final, used>>
       ELSE /\ \E i \in Inodes \ used :
                  /\ used' = used \cup {i}
                  /\ final' = [final EXCEPT ![v] = i]
            /\ UNCHANGED content
    /\ op' = "copy"
    /\ current' = v
    /\ UNCHANGED <<backing, hidden, memory, emitter,
                   todo, listing, tries, outcome>>

FinalizeCopied ==
    /\ op = "copy"
    /\ content' = [content EXCEPT ![final[current]] = content[hidden[current]]]
    /\ op' = "unlink"
    /\ UNCHANGED <<backing, hidden, final, used, memory, emitter,
                   todo, current, listing, tries, outcome>>

FinalizeUnlink ==
    /\ op = "unlink"
    /\ hidden' = [hidden EXCEPT ![current] = None]
    /\ op' = "finalize"
    /\ todo' = todo \ {current}
    /\ current' = None
    /\ UNCHANGED <<backing, final, used, content, memory, emitter,
                   listing, tries, outcome>>

FinalizeFails ==
    /\ op \in {"finalize", "copy", "unlink"}
    /\ \/ "move" \in Faults /\ todo # {}
       \/ op = "finalize" /\ \E v \in todo : hidden[v] = None
    /\ Return("raised")
    /\ UNCHANGED <<host, memory, emitter>>

FinalizeReturn ==
    /\ op = "finalize"
    /\ todo = {}
    /\ images' = None
    /\ Return("finalized")
    /\ UNCHANGED <<host, loopDevices, atexitRegistered, emitter>>

-----------------------------------------------------------------------------
(* The surroundings                                                        *)

(* A client writes through the loop path of a volume.                      *)
ClientWrite(v, p) ==
    /\ Callable
    /\ loopDevices[v] # None
    /\ backing[loopDevices[v]] \in Inodes
    /\ content' = [content EXCEPT ![backing[loopDevices[v]]] = @ \cup {p}]
    /\ UNCHANGED <<backing, hidden, final, used, memory, emitter, call>>

(* Another program binds an unbound device to a file of its own, or to one *)
(* of our image files.                                                     *)
OtherAttach(d, i) ==
    /\ backing[d] = None
    /\ backing' = [backing EXCEPT ![d] = i]
    /\ UNCHANGED <<hidden, final, used, content, memory, emitter, call>>

(* It detaches only devices bound to its own files.                        *)
OtherDetach(d) ==
    /\ backing[d] = Foreign
    /\ backing' = [backing EXCEPT ![d] = None]
    /\ UNCHANGED <<hidden, final, used, content, memory, emitter, call>>

(* Ctrl-C in a method.  KeyboardInterrupt passes every `except' of the     *)
(* service, and the program calls no method after it: only the handler     *)
(* registered at exit still runs.  The command of the round may have done  *)
(* its work: losetup has bound a device that is not recorded, or released  *)
(* one whose name is still in the dict.                                    *)
MethodInterrupted ==
    /\ op # "idle"
    /\ emitter
    /\ \/ UNCHANGED backing
       \/ /\ op = "attach"
          /\ \E v \in todo, d \in Devices :
                /\ SameFile(v) = {}
                /\ hidden[v] # None
                /\ backing[d] = None
                /\ backing' = [backing EXCEPT ![d] = hidden[v]]
       \/ /\ op = "detach"
          /\ \E v \in todo :
                /\ current \in {None, v}
                /\ backing[loopDevices[v]] # None
                /\ backing' = [backing EXCEPT ![loopDevices[v]] = None]
    /\ Return("interrupted")
    /\ UNCHANGED <<hidden, final, used, content, memory, emitter>>

(* The program ends in an orderly way: cli.run stops the emitter, and then *)
(* the interpreter runs the handler registered by attach_images, if any.   *)
Exit ==
    /\ op = "idle"
    /\ emitter
    /\ emitter' = FALSE
    /\ IF atexitRegistered
       THEN Enter("detach", Recorded) /\ UNCHANGED listing
       ELSE Return("none")
    /\ UNCHANGED <<host, memory>>

(* The process is over (after its exit, or killed at any point); the host  *)
(* keeps its files and its devices, and a new process starts.              *)
Restart ==
    /\ images' = None
    /\ loopDevices' = [v \in Volumes |-> None]
    /\ atexitRegistered' = FALSE
    /\ emitter' = TRUE
    /\ Return("none")
    /\ UNCHANGED host

-----------------------------------------------------------------------------
CreateStep ==
    \/ \E v \in Volumes : CreateZeroImage(v)
    \/ CreateUnimplemented \/ CreateLayout \/ CreateLayoutFails \/ CreateReturn

AttachStep ==
    \/ \E v \in Volumes : AttachReuse(v) \/ AttachFresh(v) \/ AttachFails(v)
    \/ AttachReturn

DetachStep ==
    \/ \E v \in Volumes : DetachTry(v) \/ DetachFails(v) \/ DetachGiveUp(v)
    \/ DetachReturn

FinalizeStep ==
    \/ \E v \in Volumes : FinalizeRename(v) \/ FinalizeCopy(v)
    \/ FinalizeCopied \/ FinalizeUnlink \/ FinalizeFails \/ FinalizeReturn

(* What the running method does next.                                      *)
ServiceStep == CreateStep \/ AttachStep \/ DetachStep \/ FinalizeStep

(* The calls a client can make.                                            *)
ClientCall ==
    \/ CreateCached \/ CreateBegin
    \/ AttachCached \/ AttachWithoutImages \/ AttachBegin
    \/ DetachBegin
    \/ VerifyImages
    \/ FinalizeWithoutImages \/ FinalizeBegin
    \/ \E v \in Volumes, p \in Payloads : ClientWrite(v, p)

Environment ==
    \/ \E d \in Devices :
          \/ OtherDetach(d)
          \/ OtherAttach(d, Foreign)
          \/ \E v \in Volumes : hidden[v] # None /\ OtherAttach(d, hidden[v])
    \/ MethodInterrupted
    \/ Exit
    \/ Restart

Next == ServiceStep \/ ClientCall \/ Environment

Spec == Init /\ [][Next]_vars

(* The interpreter goes on with a method it has entered.                   *)
FairSpec == Spec /\ WF_vars(ServiceStep)

-----------------------------------------------------------------------------
(* Properties                                                              *)

(* Two volumes are never given the same loop device: everything a client   *)
(* writes for one image would land in the other (attach_images reuses the  *)
(* devices that an earlier listing found on the same file).                *)
DevicesExclusive ==
    \A v, w \in Recorded : loopDevices[v] = loopDevices[w] => v = w

(* A device in _loop_devices is bound to one of our files, whatever failed *)
(* since it was attached: its name has not been released and taken over by *)
(* another program, so that writing to it or detaching it is safe.  (A     *)
(* Ctrl-C behind `losetup -d' leaves the name of a released device in the  *)
(* dict, of a process that uses it no more.)                               *)
HeldDevicesBound ==
    Going => \A v \in Recorded : backing[loopDevices[v]] \in used

(* Only its owner detaches a device bound to another program's file,       *)
(* although detach_images goes by the name of the device alone.            *)
NeverDetachOthers ==
    [][\A d \in Devices :
          backing[d] = Foreign /\ backing'[d] # Foreign =>
              UNCHANGED <<memory, emitter, call>>]_vars

(* A volume enters the dict of create_images only when its file exists and *)
(* sfdisk has written its table, and finalize_images empties the dict when *)
(* the files have left: clients find a partitioned file behind every key.  *)
(* (With several volumes a failed move leaves keys without a file.)        *)
ImagesArePartitioned ==
    Going /\ images # None /\ op \notin {"finalize", "copy", "unlink"} =>
        \A v \in images : hidden[v] # None /\ Table \in content[hidden[v]]

(* No image is lost on its way: every volume in the dict has a partitioned *)
(* file at its hidden path or, once that is gone, at its destination - in  *)
(* the middle of the move of another volume, when a move of several fails, *)
(* is stopped half-way or is called once more, and also where moving means *)
(* to truncate the destination, copy and unlink.                           *)
NoImageLost ==
    images # None =>
        \A v \in images :
            \/ hidden[v] # None /\ Table \in content[hidden[v]]
            \/ hidden[v] = None /\ final[v] # None /\ Table \in content[final[v]]

(* Every method returns; in particular the retry loop of detach_images     *)
(* gives a device up that stays busy.                                      *)
CallsReturn == (op # "idle") ~> (op = "idle")

(* What the docstrings say, and the code does not do: see the findings.    *)

(* attach_images 119-121: it will "clean up stale devices pointing to      *)
(* deleted inodes".                                                        *)
StaleDevicesCleaned ==
    [][op = "attach" /\ op' = "idle" /\ outcome' = "attached" =>
          \A d \in Devices :
              backing'[d] \in Inodes =>
                  \E v \in Volumes : backing'[d] \in {hidden'[v], final'[v]}]_vars

(* detach_images 179-181: "Detach all attached loop devices. [...] Safe to *)
(* call as an atexit handler."                                             *)
ExitDetaches ==
    outcome = "detached" /\ op = "idle" /\ ~emitter => Recorded = {}

=============================================================================
