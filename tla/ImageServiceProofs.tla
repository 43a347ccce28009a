------------------------- MODULE ImageServiceProofs -------------------------
(***************************************************************************)
(* Theorems about the image service, for every set of volumes, devices and *)
(* files and every combination of failing commands.  The inductive         *)
(* invariant IInv says why a device name can be trusted: while devices are *)
(* attached, the listing taken at the beginning still tells the truth, and *)
(* the devices recorded so far are bound to the images of their volumes.   *)
(***************************************************************************)
EXTENDS ImageService, FiniteSetTheorems, TLAPS

(* Only files that were created stand at a hidden path or behind a device, *)
(* and no file stands at two hidden paths.                                 *)
FilesAreCreated ==
    /\ \A v \in Volumes : hidden[v] \in used \cup {None}
    /\ \A d \in Devices : backing[d] \in used \cup {None, Foreign}
    /\ \A v, w \in Volumes : hidden[v] # None /\ hidden[v] = hidden[w] => v = w

(* A device listed under a volume's path is bound to the volume's file.    *)
ListingIsCurrent ==
    op = "attach" =>
        \A d \in Devices : listing[d] \in Volumes =>
            backing[d] # None /\ backing[d] = hidden[listing[d]]

AttachedSoFar ==
    op = "attach" =>
        \A v \in Recorded : v \notin todo /\ backing[loopDevices[v]] = hidden[v]

(* What the methods in progress rely on.                                   *)
MethodsInProgress ==
    /\ op = "detach" => todo \subseteq Recorded
    /\ op \in {"layout", "copy", "unlink"} => current \in todo /\ hidden[current] # None
    /\ op \in {"create", "layout"} => images \subseteq Volumes
    /\ op \notin {"idle", "detach"} => Going
    /\ op = "detach" /\ emitter => Going

IInv ==
    /\ TypeOK
    /\ FilesAreCreated
    /\ HeldDevicesBound
    /\ DevicesExclusive
    /\ ListingIsCurrent
    /\ AttachedSoFar
    /\ MethodsInProgress

-----------------------------------------------------------------------------
LEMMA InitIInv == Init => IInv
<1> SUFFICES ASSUME Init PROVE IInv
  OBVIOUS
<1> USE ConstantsAssumption DEF Init, FreshMemory, NoCall
<1>1. TypeOK
  <2>1. /\ backing \in [Devices -> Inodes \cup {None, Foreign}]
        /\ hidden \in [Volumes -> Inodes \cup {None}]
        /\ final \in [Volumes -> Inodes \cup {None}]
        /\ loopDevices \in [Volumes -> Devices \cup {None}]
        /\ listing \in [Devices -> Volumes \cup {None, Foreign}]
    OBVIOUS
  <2>2. content \in [Inodes -> SUBSET (Payloads \cup {Table})]
    OBVIOUS
  <2>3. tries \in 0..MaxTries
    OBVIOUS
  <2>4. /\ used \subseteq Inodes /\ todo \subseteq Volumes
        /\ images = None /\ current = None
        /\ atexitRegistered \in BOOLEAN /\ emitter \in BOOLEAN
        /\ op \in Ops /\ outcome \in Outcomes
    BY DEF Ops, Outcomes
  <2> QED
    BY <2>1, <2>2, <2>3, <2>4 DEF TypeOK
<1>2. Recorded = {}
  BY DEF Recorded
<1>3. FilesAreCreated
  BY DEF FilesAreCreated
<1>4. HeldDevicesBound /\ DevicesExclusive
  BY <1>2 DEF HeldDevicesBound, DevicesExclusive
<1>5. ListingIsCurrent /\ AttachedSoFar /\ MethodsInProgress
  BY DEF ListingIsCurrent, AttachedSoFar, MethodsInProgress
<1> QED
  BY <1>1, <1>3, <1>4, <1>5 DEF IInv

(* A method that returns without touching the host or the memory.          *)
LEMMA ReturnIInv ==
    ASSUME IInv, NEW r \in Outcomes, Return(r), UNCHANGED <<host, memory>>,
           emitter' \in BOOLEAN, Going' => Going
    PROVE  IInv'
<1> USE ConstantsAssumption DEF Return, host, memory, IInv
<1>1. TypeOK'
  BY DEF TypeOK, Ops
<1>2. Recorded' = Recorded
  BY DEF Recorded
<1>3. FilesAreCreated'
  BY DEF FilesAreCreated
<1>4. HeldDevicesBound' /\ DevicesExclusive'
  BY <1>2 DEF HeldDevicesBound, DevicesExclusive
<1>5. ListingIsCurrent' /\ AttachedSoFar' /\ MethodsInProgress'
  BY DEF ListingIsCurrent, AttachedSoFar, MethodsInProgress
<1> QED
  BY <1>1, <1>3, <1>4, <1>5

LEMMA CreateBeginIInv ==
    ASSUME IInv, CreateBegin
    PROVE  IInv'
<1> USE ConstantsAssumption DEF CreateBegin, Enter, Callable, host, memory, call, IInv
<1>1. TypeOK'
  BY DEF TypeOK, Ops, Outcomes
<1>2. FilesAreCreated'
  BY DEF FilesAreCreated, TypeOK
<1>3. HeldDevicesBound' /\ DevicesExclusive'
  BY DEF HeldDevicesBound, DevicesExclusive, Recorded, Going, TypeOK
<1>4. ListingIsCurrent' /\ AttachedSoFar'
  BY DEF ListingIsCurrent, AttachedSoFar, Recorded, TypeOK
<1>5. MethodsInProgress'
  BY DEF MethodsInProgress, Recorded, Going, TypeOK
<1> QED
  BY <1>1, <1>2, <1>3, <1>4, <1>5

LEMMA CreateZeroImageIInv ==
    ASSUME IInv, NEW v \in Volumes, CreateZeroImage(v)
    PROVE  IInv'
<1> USE ConstantsAssumption DEF CreateZeroImage, host, memory, call, IInv
<1>1. TypeOK'
  BY DEF TypeOK, Ops, Outcomes
<1>2. FilesAreCreated'
  BY DEF FilesAreCreated, TypeOK
<1>3. HeldDevicesBound' /\ DevicesExclusive'
  BY DEF HeldDevicesBound, DevicesExclusive, Recorded, Going, TypeOK
<1>4. ListingIsCurrent' /\ AttachedSoFar'
  BY DEF ListingIsCurrent, AttachedSoFar, Recorded, TypeOK
<1>5. MethodsInProgress'
  BY DEF MethodsInProgress, Recorded, Going, TypeOK
<1> QED
  BY <1>1, <1>2, <1>3, <1>4, <1>5

LEMMA CreateLayoutIInv ==
    ASSUME IInv, CreateLayout
    PROVE  IInv'
<1> USE ConstantsAssumption DEF CreateLayout, host, memory, call, IInv
<1>1. TypeOK'
  <2>1. current \in Volumes /\ hidden[current] \in Inodes
    BY DEF MethodsInProgress, TypeOK
  <2>2. content' \in [Inodes -> SUBSET (Payloads \cup {Table})]
    BY <2>1 DEF TypeOK
  <2>3. images' \subseteq Volumes
    BY <2>1 DEF MethodsInProgress
  <2> QED
    BY <2>2, <2>3 DEF TypeOK, Ops, Outcomes
<1>2. FilesAreCreated'
  BY DEF FilesAreCreated, TypeOK
<1>3. HeldDevicesBound' /\ DevicesExclusive'
  BY DEF HeldDevicesBound, DevicesExclusive, Recorded, Going, TypeOK
<1>4. ListingIsCurrent' /\ AttachedSoFar'
  BY DEF ListingIsCurrent, AttachedSoFar, Recorded, TypeOK
<1>5. MethodsInProgress'
  BY DEF MethodsInProgress, Recorded, Going, TypeOK
<1> QED
  BY <1>1, <1>2, <1>3, <1>4, <1>5

LEMMA AttachBeginIInv ==
    ASSUME IInv, AttachBegin
    PROVE  IInv'
<1> USE ConstantsAssumption DEF AttachBegin, Enter, Callable, BackFile, host, memory, call, IInv
<1>1. TypeOK'
  BY DEF TypeOK, Ops, Outcomes
<1>2. FilesAreCreated'
  BY DEF FilesAreCreated, TypeOK
<1>3. HeldDevicesBound' /\ DevicesExclusive'
  BY DEF HeldDevicesBound, DevicesExclusive, Recorded, Going, TypeOK
<1>4. ListingIsCurrent' /\ AttachedSoFar'
  BY DEF ListingIsCurrent, AttachedSoFar, Recorded, TypeOK
<1>5. MethodsInProgress'
  BY DEF MethodsInProgress, Recorded, Going, TypeOK
<1> QED
  BY <1>1, <1>2, <1>3, <1>4, <1>5

LEMMA AttachReuseIInv ==
    ASSUME IInv, NEW v \in Volumes, AttachReuse(v)
    PROVE  IInv'
<1> USE ConstantsAssumption DEF AttachReuse, Record, SameFile, host, memory, call, IInv
<1>1. TypeOK'
  BY DEF TypeOK, Ops, Outcomes
<1>2. FilesAreCreated'
  BY DEF FilesAreCreated, TypeOK
<1>3. HeldDevicesBound' /\ DevicesExclusive'
  <2>1. PICK x \in SameFile(v) : Record(v, x)
    OBVIOUS
  <2>2. /\ x \in Devices /\ listing[x] = v
        /\ backing[x] = hidden[v] /\ hidden[v] # None /\ hidden[v] \in used
    BY <2>1 DEF ListingIsCurrent, FilesAreCreated
  <2>3. loopDevices' = [loopDevices EXCEPT ![v] = x] /\ Recorded' = Recorded \cup {v}
    BY <2>1, <2>2 DEF Recorded, TypeOK
  <2>4. \A w \in Recorded : w # v /\ loopDevices[w] # x
    BY <2>2 DEF AttachedSoFar, FilesAreCreated, Recorded
  <2>5. HeldDevicesBound'
    BY <2>2, <2>3, <2>4 DEF HeldDevicesBound, Recorded, Going, TypeOK
  <2>6. DevicesExclusive'
    BY <2>2, <2>3, <2>4 DEF DevicesExclusive, Recorded, TypeOK
  <2> QED
    BY <2>5, <2>6
<1>4. ListingIsCurrent' /\ AttachedSoFar'
  BY DEF ListingIsCurrent, AttachedSoFar, Recorded, TypeOK
<1>5. MethodsInProgress'
  BY DEF MethodsInProgress, Recorded, Going, TypeOK
<1> QED
  BY <1>1, <1>2, <1>3, <1>4, <1>5

LEMMA AttachFreshIInv ==
    ASSUME IInv, NEW v \in Volumes, AttachFresh(v)
    PROVE  IInv'
<1> USE ConstantsAssumption DEF AttachFresh, Record, SameFile, host, memory, call, IInv
<1>a. PICK x \in Devices : /\ backing[x] = None
                            /\ backing' = [backing EXCEPT ![x] = hidden[v]]
                            /\ Record(v, x)
  OBVIOUS
<1>b. loopDevices' = [loopDevices EXCEPT ![v] = x] /\ Recorded' = Recorded \cup {v}
  BY <1>a DEF Recorded, TypeOK
<1>c. \A w \in Recorded : w # v /\ loopDevices[w] # x
  BY <1>a DEF AttachedSoFar, HeldDevicesBound, MethodsInProgress, Recorded, TypeOK
<1>1. TypeOK'
  BY DEF TypeOK, Ops, Outcomes
<1>2. FilesAreCreated'
  BY DEF FilesAreCreated, TypeOK
<1>3. HeldDevicesBound' /\ DevicesExclusive'
  <2>1. HeldDevicesBound'
    BY <1>a, <1>b, <1>c DEF HeldDevicesBound, Recorded, Going, FilesAreCreated, TypeOK
  <2>2. DevicesExclusive'
    BY <1>b, <1>c DEF DevicesExclusive, Recorded, TypeOK
  <2> QED
    BY <2>1, <2>2
<1>4. ListingIsCurrent' /\ AttachedSoFar'
  <2>1. ListingIsCurrent'
    BY <1>a DEF ListingIsCurrent, TypeOK
  <2>2. AttachedSoFar'
    BY <1>a, <1>b, <1>c DEF AttachedSoFar, Recorded, TypeOK
  <2> QED
    BY <2>1, <2>2
<1>5. MethodsInProgress'
  BY DEF MethodsInProgress, Recorded, Going, TypeOK
<1> QED
  BY <1>1, <1>2, <1>3, <1>4, <1>5

LEMMA AttachFailsIInv ==
    ASSUME IInv, NEW v \in Volumes, AttachFails(v)
    PROVE  IInv'
<1> USE ConstantsAssumption DEF AttachFails, Return, StaleDevices, host, memory, call, IInv
(* No device is ever taken to be stale.                                    *)
<1>a. backing' = backing
  BY DEF ListingIsCurrent, TypeOK
<1>1. TypeOK'
  BY DEF TypeOK, Ops, Outcomes
<1>2. FilesAreCreated'
  BY DEF FilesAreCreated, TypeOK
<1>3. HeldDevicesBound' /\ DevicesExclusive'
  BY <1>a DEF HeldDevicesBound, DevicesExclusive, MethodsInProgress, Recorded, Going,
     TypeOK
<1>4. ListingIsCurrent' /\ AttachedSoFar'
  BY DEF ListingIsCurrent, AttachedSoFar, Recorded, TypeOK
<1>5. MethodsInProgress'
  BY DEF MethodsInProgress, Recorded, Going, TypeOK
<1> QED
  BY <1>1, <1>2, <1>3, <1>4, <1>5

LEMMA AttachReturnIInv ==
    ASSUME IInv, AttachReturn
    PROVE  IInv'
<1> USE ConstantsAssumption DEF AttachReturn, Return, host, memory, call, IInv
<1>1. TypeOK'
  BY DEF TypeOK, Ops, Outcomes
<1>2. FilesAreCreated'
  BY DEF FilesAreCreated, TypeOK
<1>3. HeldDevicesBound' /\ DevicesExclusive'
  BY DEF HeldDevicesBound, DevicesExclusive, MethodsInProgress, Recorded, Going, TypeOK
<1>4. ListingIsCurrent' /\ AttachedSoFar'
  BY DEF ListingIsCurrent, AttachedSoFar, Recorded, TypeOK
<1>5. MethodsInProgress'
  BY DEF MethodsInProgress, Recorded, Going, TypeOK
<1> QED
  BY <1>1, <1>2, <1>3, <1>4, <1>5

(* detach_images begins, called by a client or at exit.                    *)
LEMMA EnterDetachIInv ==
    ASSUME IInv, op = "idle", Enter("detach", Recorded),
           UNCHANGED <<host, memory, listing>>, emitter' \in BOOLEAN,
           Going' => Going, emitter' => Going'
    PROVE  IInv'
<1> USE ConstantsAssumption DEF Enter, host, memory, call, IInv
<1>1. TypeOK'
  BY DEF TypeOK, Ops, Outcomes, Recorded
<1>2. FilesAreCreated'
  BY DEF FilesAreCreated, TypeOK
<1>3. HeldDevicesBound' /\ DevicesExclusive'
  BY DEF HeldDevicesBound, DevicesExclusive, Recorded, Going, TypeOK
<1>4. ListingIsCurrent' /\ AttachedSoFar'
  BY DEF ListingIsCurrent, AttachedSoFar, Recorded, TypeOK
<1>5. MethodsInProgress'
  BY DEF MethodsInProgress, Recorded, Going, TypeOK
<1> QED
  BY <1>1, <1>2, <1>3, <1>4, <1>5

LEMMA DetachBeginIInv ==
    ASSUME IInv, DetachBegin
    PROVE  IInv'
BY EnterDetachIInv DEF DetachBegin, Callable, Going, Enter, IInv, TypeOK

LEMMA DetachTryIInv ==
    ASSUME IInv, NEW v \in Volumes, DetachTry(v)
    PROVE  IInv'
<1> USE ConstantsAssumption DEF DetachTry, host, memory, call, IInv
<1>1. TypeOK'
  <2>1. loopDevices[v] \in Devices
    BY DEF MethodsInProgress, Recorded, Going, TypeOK
  <2> QED
    BY <2>1 DEF TypeOK, Ops, Outcomes
<1>2. FilesAreCreated'
  BY DEF FilesAreCreated, TypeOK
<1>3. HeldDevicesBound' /\ DevicesExclusive'
  BY DEF HeldDevicesBound, DevicesExclusive, Recorded, Going, TypeOK
<1>4. ListingIsCurrent' /\ AttachedSoFar'
  BY DEF ListingIsCurrent, AttachedSoFar, Recorded, TypeOK
<1>5. MethodsInProgress'
  BY DEF MethodsInProgress, Recorded, Going, TypeOK
<1> QED
  BY <1>1, <1>2, <1>3, <1>4, <1>5

LEMMA DetachFailsIInv ==
    ASSUME IInv, NEW v \in Volumes, DetachFails(v)
    PROVE  IInv'
<1> USE ConstantsAssumption DEF DetachFails, host, memory, call, IInv
<1>1. TypeOK'
  BY DEF TypeOK, Ops, Outcomes
<1>2. FilesAreCreated'
  BY DEF FilesAreCreated, TypeOK
<1>3. HeldDevicesBound' /\ DevicesExclusive'
  BY DEF HeldDevicesBound, DevicesExclusive, Recorded, Going, TypeOK
<1>4. ListingIsCurrent' /\ AttachedSoFar'
  BY DEF ListingIsCurrent, AttachedSoFar, Recorded, TypeOK
<1>5. MethodsInProgress'
  BY DEF MethodsInProgress, Recorded, Going, TypeOK
<1> QED
  BY <1>1, <1>2, <1>3, <1>4, <1>5

LEMMA DetachGiveUpIInv ==
    ASSUME IInv, NEW v \in Volumes, DetachGiveUp(v)
    PROVE  IInv'
<1> USE ConstantsAssumption DEF DetachGiveUp, host, memory, call, IInv
<1>1. TypeOK'
  BY DEF TypeOK, Ops, Outcomes
<1>2. FilesAreCreated'
  BY DEF FilesAreCreated, TypeOK
<1>3. HeldDevicesBound' /\ DevicesExclusive'
  BY DEF HeldDevicesBound, DevicesExclusive, Recorded, Going, TypeOK
<1>4. ListingIsCurrent' /\ AttachedSoFar'
  BY DEF ListingIsCurrent, AttachedSoFar, Recorded, TypeOK
<1>5. MethodsInProgress'
  BY DEF MethodsInProgress, Recorded, Going, TypeOK
<1> QED
  BY <1>1, <1>2, <1>3, <1>4, <1>5

LEMMA FinalizeBeginIInv ==
    ASSUME IInv, FinalizeBegin
    PROVE  IInv'
<1> USE ConstantsAssumption DEF FinalizeBegin, Enter, Callable, host, memory, call, IInv
<1>1. TypeOK'
  BY DEF TypeOK, Ops, Outcomes
<1>2. FilesAreCreated'
  BY DEF FilesAreCreated, TypeOK
<1>3. HeldDevicesBound' /\ DevicesExclusive'
  BY DEF HeldDevicesBound, DevicesExclusive, Recorded, Going, TypeOK
<1>4. ListingIsCurrent' /\ AttachedSoFar'
  BY DEF ListingIsCurrent, AttachedSoFar, Recorded, TypeOK
<1>5. MethodsInProgress'
  BY DEF MethodsInProgress, Recorded, Going, TypeOK
<1> QED
  BY <1>1, <1>2, <1>3, <1>4, <1>5

LEMMA FinalizeRenameIInv ==
    ASSUME IInv, NEW v \in Volumes, FinalizeRename(v)
    PROVE  IInv'
<1> USE ConstantsAssumption DEF FinalizeRename, host, memory, call, IInv
<1>1. TypeOK'
  BY DEF TypeOK, Ops, Outcomes
<1>2. FilesAreCreated'
  BY DEF FilesAreCreated, TypeOK
<1>3. HeldDevicesBound' /\ DevicesExclusive'
  BY DEF HeldDevicesBound, DevicesExclusive, Recorded, Going, TypeOK
<1>4. ListingIsCurrent' /\ AttachedSoFar'
  BY DEF ListingIsCurrent, AttachedSoFar, Recorded, TypeOK
<1>5. MethodsInProgress'
  BY DEF MethodsInProgress, Recorded, Going, TypeOK
<1> QED
  BY <1>1, <1>2, <1>3, <1>4, <1>5

LEMMA FinalizeCopyIInv ==
    ASSUME IInv, NEW v \in Volumes, FinalizeCopy(v)
    PROVE  IInv'
<1> USE ConstantsAssumption DEF FinalizeCopy, host, memory, call, IInv
<1>1. TypeOK'
  BY DEF TypeOK, Ops, Outcomes
<1>2. FilesAreCreated'
  BY DEF FilesAreCreated, TypeOK
<1>3. HeldDevicesBound' /\ DevicesExclusive'
  BY DEF HeldDevicesBound, DevicesExclusive, Recorded, Going, TypeOK
<1>4. ListingIsCurrent' /\ AttachedSoFar'
  BY DEF ListingIsCurrent, AttachedSoFar, Recorded, TypeOK
<1>5. MethodsInProgress'
  BY DEF MethodsInProgress, Recorded, Going, TypeOK
<1> QED
  BY <1>1, <1>2, <1>3, <1>4, <1>5

LEMMA FinalizeCopiedIInv ==
    ASSUME IInv, FinalizeCopied
    PROVE  IInv'
<1> USE ConstantsAssumption DEF FinalizeCopied, host, memory, call, IInv
<1>1. TypeOK'
  <2>1. current \in Volumes /\ hidden[current] \in Inodes
    BY DEF MethodsInProgress, TypeOK
  <2>2. content' \in [Inodes -> SUBSET (Payloads \cup {Table})]
    BY <2>1 DEF TypeOK
  <2> QED
    BY <2>2 DEF TypeOK, Ops, Outcomes
<1>2. FilesAreCreated'
  BY DEF FilesAreCreated, TypeOK
<1>3. HeldDevicesBound' /\ DevicesExclusive'
  BY DEF HeldDevicesBound, DevicesExclusive, Recorded, Going, TypeOK
<1>4. ListingIsCurrent' /\ AttachedSoFar'
  BY DEF ListingIsCurrent, AttachedSoFar, Recorded, TypeOK
<1>5. MethodsInProgress'
  BY DEF MethodsInProgress, Recorded, Going, TypeOK
<1> QED
  BY <1>1, <1>2, <1>3, <1>4, <1>5

LEMMA FinalizeUnlinkIInv ==
    ASSUME IInv, FinalizeUnlink
    PROVE  IInv'
<1> USE ConstantsAssumption DEF FinalizeUnlink, host, memory, call, IInv
<1>1. TypeOK'
  BY DEF TypeOK, Ops, Outcomes
<1>2. FilesAreCreated'
  BY DEF FilesAreCreated, TypeOK
<1>3. HeldDevicesBound' /\ DevicesExclusive'
  BY DEF HeldDevicesBound, DevicesExclusive, Recorded, Going, TypeOK
<1>4. ListingIsCurrent' /\ AttachedSoFar'
  BY DEF ListingIsCurrent, AttachedSoFar, Recorded, TypeOK
<1>5. MethodsInProgress'
  BY DEF MethodsInProgress, Recorded, Going, TypeOK
<1> QED
  BY <1>1, <1>2, <1>3, <1>4, <1>5

LEMMA FinalizeReturnIInv ==
    ASSUME IInv, FinalizeReturn
    PROVE  IInv'
<1> USE ConstantsAssumption DEF FinalizeReturn, Return, host, memory, call, IInv
<1>1. TypeOK'
  BY DEF TypeOK, Ops, Outcomes
<1>2. FilesAreCreated'
  BY DEF FilesAreCreated, TypeOK
<1>3. HeldDevicesBound' /\ DevicesExclusive'
  BY DEF HeldDevicesBound, DevicesExclusive, MethodsInProgress, Recorded, Going, TypeOK
<1>4. ListingIsCurrent' /\ AttachedSoFar'
  BY DEF ListingIsCurrent, AttachedSoFar, Recorded, TypeOK
<1>5. MethodsInProgress'
  BY DEF MethodsInProgress, Recorded, Going, TypeOK
<1> QED
  BY <1>1, <1>2, <1>3, <1>4, <1>5

LEMMA ClientWriteIInv ==
    ASSUME IInv, NEW v \in Volumes, NEW p \in Payloads, ClientWrite(v, p)
    PROVE  IInv'
<1> USE ConstantsAssumption DEF ClientWrite, Callable, host, memory, call, IInv
<1>1. TypeOK'
  BY DEF TypeOK, Ops, Outcomes
<1>2. FilesAreCreated'
  BY DEF FilesAreCreated, TypeOK
<1>3. HeldDevicesBound' /\ DevicesExclusive'
  BY DEF HeldDevicesBound, DevicesExclusive, Recorded, Going, TypeOK
<1>4. ListingIsCurrent' /\ AttachedSoFar'
  BY DEF ListingIsCurrent, AttachedSoFar, Recorded, TypeOK
<1>5. MethodsInProgress'
  BY DEF MethodsInProgress, Recorded, Going, TypeOK
<1> QED
  BY <1>1, <1>2, <1>3, <1>4, <1>5

LEMMA OtherDetachIInv ==
    ASSUME IInv, NEW d \in Devices, OtherDetach(d)
    PROVE  IInv'
<1> USE ConstantsAssumption DEF OtherDetach, host, memory, call, IInv
<1>1. TypeOK'
  BY DEF TypeOK, Ops, Outcomes
<1>2. FilesAreCreated'
  BY DEF FilesAreCreated, TypeOK
<1>3. HeldDevicesBound' /\ DevicesExclusive'
  BY DEF HeldDevicesBound, DevicesExclusive, Recorded, Going, TypeOK
<1>4. ListingIsCurrent' /\ AttachedSoFar'
  BY DEF ListingIsCurrent, AttachedSoFar, Recorded, TypeOK
<1>5. MethodsInProgress'
  BY DEF MethodsInProgress, Recorded, Going, TypeOK
<1> QED
  BY <1>1, <1>2, <1>3, <1>4, <1>5

(* Ctrl-C: what is recorded may be released then, but is used no more.     *)
LEMMA MethodInterruptedIInv ==
    ASSUME IInv, MethodInterrupted
    PROVE  IInv'
<1> USE ConstantsAssumption DEF MethodInterrupted, Return, host, memory, call, IInv
<1>1. TypeOK'
  <2>1. backing' \in [Devices -> Inodes \cup {None, Foreign}]
    BY DEF TypeOK
  <2>2. /\ listing' \in [Devices -> Volumes \cup {None, Foreign}]
        /\ tries' \in 0..MaxTries
    BY DEF TypeOK
  <2> QED
    BY <2>1, <2>2 DEF TypeOK, Ops, Outcomes
<1>2. FilesAreCreated'
  BY DEF FilesAreCreated, TypeOK
<1>3. HeldDevicesBound' /\ DevicesExclusive'
  BY DEF HeldDevicesBound, DevicesExclusive, Recorded, Going, TypeOK
<1>4. ListingIsCurrent' /\ AttachedSoFar'
  BY DEF ListingIsCurrent, AttachedSoFar, Recorded, TypeOK
<1>5. MethodsInProgress'
  BY DEF MethodsInProgress, Recorded, Going, TypeOK
<1> QED
  BY <1>1, <1>2, <1>3, <1>4, <1>5

LEMMA ExitIInv ==
    ASSUME IInv, Exit
    PROVE  IInv'
<1>1. emitter' \in BOOLEAN /\ UNCHANGED <<host, memory>>
  BY DEF Exit
<1>2. CASE atexitRegistered
  BY <1>1, <1>2, EnterDetachIInv DEF Exit, Going
<1>3. CASE ~atexitRegistered
  BY <1>1, <1>3, ReturnIInv DEF Exit, Outcomes, Going
<1> QED
  BY <1>2, <1>3

LEMMA RestartIInv ==
    ASSUME IInv, Restart
    PROVE  IInv'
<1> USE ConstantsAssumption DEF Restart, Return, host, memory, call, IInv
<1>1. TypeOK'
  <2>1. loopDevices' \in [Volumes -> Devices \cup {None}]
    OBVIOUS
  <2>2. listing' \in [Devices -> Volumes \cup {None, Foreign}]
    OBVIOUS
  <2>3. tries' \in 0..MaxTries
    OBVIOUS
  <2> QED
    BY <2>1, <2>2, <2>3 DEF TypeOK, Ops, Outcomes
<1>2. FilesAreCreated'
  BY DEF FilesAreCreated, TypeOK
<1>3. HeldDevicesBound' /\ DevicesExclusive'
  BY DEF HeldDevicesBound, DevicesExclusive, Recorded, Going, TypeOK
<1>4. ListingIsCurrent' /\ AttachedSoFar'
  BY DEF ListingIsCurrent, AttachedSoFar, Recorded, TypeOK
<1>5. MethodsInProgress'
  BY DEF MethodsInProgress, Recorded, Going, TypeOK
<1> QED
  BY <1>1, <1>2, <1>3, <1>4, <1>5

LEMMA OtherAttachIInv ==
    ASSUME IInv, NEW d \in Devices, NEW i \in used \cup {Foreign},
           OtherAttach(d, i)
    PROVE  IInv'
<1> USE ConstantsAssumption DEF OtherAttach, host, memory, call, IInv
<1>1. TypeOK'
  BY DEF TypeOK, Ops, Outcomes
<1>2. FilesAreCreated'
  BY DEF FilesAreCreated, TypeOK
<1>3. HeldDevicesBound' /\ DevicesExclusive'
  BY DEF HeldDevicesBound, DevicesExclusive, Recorded, Going, TypeOK
<1>4. ListingIsCurrent' /\ AttachedSoFar'
  BY DEF ListingIsCurrent, AttachedSoFar, HeldDevicesBound, MethodsInProgress, Recorded,
     TypeOK
<1>5. MethodsInProgress'
  BY DEF MethodsInProgress, Recorded, Going, TypeOK
<1> QED
  BY <1>1, <1>2, <1>3, <1>4, <1>5

-----------------------------------------------------------------------------
(* Every step preserves the invariant.                                     *)
LEMMA NextIInv == IInv /\ [Next]_vars => IInv'
<1> SUFFICES ASSUME IInv, [Next]_vars PROVE IInv'
  OBVIOUS
<1>1. CASE CreateStep
  <2>1. CASE CreateUnimplemented \/ CreateLayoutFails \/ CreateReturn
    BY <2>1, ReturnIInv DEF CreateUnimplemented, CreateLayoutFails,
       CreateReturn, Outcomes, IInv, MethodsInProgress, TypeOK
  <2> QED
    BY <1>1, <2>1, CreateZeroImageIInv, CreateLayoutIInv DEF CreateStep
<1>2. CASE AttachStep
  BY <1>2, AttachReuseIInv, AttachFreshIInv, AttachFailsIInv, AttachReturnIInv
  DEF AttachStep
<1>3. CASE DetachStep
  <2>1. CASE DetachReturn
    BY <2>1, ReturnIInv DEF DetachReturn, Going, Outcomes, IInv, MethodsInProgress, TypeOK
  <2> QED
    BY <1>3, <2>1, DetachTryIInv, DetachFailsIInv, DetachGiveUpIInv DEF DetachStep
<1>4. CASE FinalizeStep
  <2>1. CASE FinalizeFails
    BY <2>1, ReturnIInv DEF FinalizeFails, Outcomes, IInv, MethodsInProgress, TypeOK
  <2> QED
    BY <1>4, <2>1, FinalizeRenameIInv, FinalizeCopyIInv, FinalizeCopiedIInv,
       FinalizeUnlinkIInv, FinalizeReturnIInv DEF FinalizeStep
<1>5. CASE ClientCall
  <2>1. CASE CreateCached \/ AttachCached \/ AttachWithoutImages
             \/ VerifyImages \/ FinalizeWithoutImages
    BY <2>1, ReturnIInv DEF CreateCached, AttachCached, AttachWithoutImages,
       VerifyImages, FinalizeWithoutImages, Callable, Outcomes, IInv, TypeOK
  <2> QED
    BY <1>5, <2>1, CreateBeginIInv, AttachBeginIInv, DetachBeginIInv,
       FinalizeBeginIInv, ClientWriteIInv DEF ClientCall
<1>6. CASE Environment
  <2>1. ASSUME NEW d \in Devices, NEW v \in Volumes,
               hidden[v] # None /\ OtherAttach(d, hidden[v])
        PROVE  IInv'
    BY <2>1, OtherAttachIInv DEF IInv, FilesAreCreated
  <2>2. ASSUME NEW d \in Devices, OtherAttach(d, Foreign)
        PROVE  IInv'
    BY <2>2, OtherAttachIInv
  <2> QED
    BY <1>6, <2>1, <2>2, OtherDetachIInv, MethodInterruptedIInv, ExitIInv, RestartIInv
    DEF Environment
<1>7. CASE UNCHANGED vars
  BY <1>7 DEF vars, host, memory, call, IInv, TypeOK, FilesAreCreated,
     HeldDevicesBound, DevicesExclusive, ListingIsCurrent, AttachedSoFar,
     MethodsInProgress, Recorded, Going
<1> QED
  BY <1>1, <1>2, <1>3, <1>4, <1>5, <1>6, <1>7 DEF Next, ServiceStep

LEMMA Invariance == Spec => []IInv
<1> QED
  BY InitIInv, NextIInv, PTL DEF Spec

-----------------------------------------------------------------------------
(* The variables have their types, in every behaviour.                     *)
THEOREM TypeCorrect == Spec => []TypeOK
<1>1. IInv => TypeOK
  BY DEF IInv
<1> QED
  BY <1>1, Invariance, PTL

(* attach_images never gives two volumes the same loop device, also when   *)
(* it reuses devices it finds attached.                                    *)
THEOREM DevicesAreExclusive == Spec => []DevicesExclusive
<1>1. IInv => DevicesExclusive
  BY DEF IInv
<1> QED
  BY <1>1, Invariance, PTL

(* A device the service holds stays bound to a file of the project.        *)
THEOREM HeldDevicesAreBound == Spec => []HeldDevicesBound
<1>1. IInv => HeldDevicesBound
  BY DEF IInv
<1> QED
  BY <1>1, Invariance, PTL

(* detach_images, which goes by device names, never detaches a device that *)
(* another program is using.                                               *)
THEOREM OthersAreSafe == Spec => NeverDetachOthers
<1> DEFINE Safe ==
      \A d \in Devices :
          backing[d] = Foreign /\ backing'[d] # Foreign =>
              UNCHANGED <<memory, emitter, call>>
<1>1. IInv /\ [Next]_vars => [Safe]_vars
  <2> SUFFICES ASSUME IInv, Next, NEW d \in Devices,
                      backing[d] = Foreign, backing'[d] # Foreign
               PROVE  UNCHANGED <<memory, emitter, call>>
    OBVIOUS
  <2>1. backing' # backing
    OBVIOUS
  <2>2. ASSUME NEW v \in Volumes, AttachFresh(v) PROVE FALSE
    BY <2>2, ConstantsAssumption DEF AttachFresh, Record, IInv, TypeOK
  <2>3. ASSUME NEW v \in Volumes, AttachFails(v) PROVE FALSE
    BY <2>1, <2>3 DEF AttachFails, StaleDevices, IInv, ListingIsCurrent, TypeOK
  <2>4. ASSUME NEW v \in Volumes, DetachTry(v) PROVE FALSE
    <3>1. backing[loopDevices[v]] \in Inodes /\ Foreign \notin Inodes
      BY <2>4, ConstantsAssumption
      DEF DetachTry, RunExecutes, IInv, MethodsInProgress, HeldDevicesBound, TypeOK
    <3> QED
      BY <2>4, <3>1 DEF DetachTry, IInv, TypeOK
  <2>5. ASSUME NEW x \in Devices, NEW i, OtherAttach(x, i) PROVE FALSE
    BY <2>5, ConstantsAssumption DEF OtherAttach, IInv, TypeOK
  <2>6. CASE \E x \in Devices : OtherDetach(x)
    BY <2>6 DEF OtherDetach
  <2>7. ASSUME MethodInterrupted PROVE FALSE
    <3>1. CASE op = "attach"
      BY <2>1, <2>7, <3>1, ConstantsAssumption DEF MethodInterrupted, IInv, TypeOK
    <3>2. CASE op = "detach"
      <4>1. PICK v \in todo : backing' = [backing EXCEPT ![loopDevices[v]] = None]
        BY <2>1, <2>7, <3>2 DEF MethodInterrupted
      <4>2. backing[loopDevices[v]] \in Inodes /\ Foreign \notin Inodes
        BY <2>7, <3>2, ConstantsAssumption
        DEF MethodInterrupted, IInv, MethodsInProgress, HeldDevicesBound, TypeOK
      <4> QED
        BY <4>1, <4>2 DEF IInv, TypeOK
    <3> QED
      BY <2>1, <2>7, <3>1, <3>2 DEF MethodInterrupted
  <2> QED
    BY <2>1, <2>2, <2>3, <2>4, <2>5, <2>6, <2>7
    DEF Next, ServiceStep, CreateStep, AttachStep, DetachStep, FinalizeStep,
        ClientCall, Environment, CreateZeroImage, CreateUnimplemented,
        CreateLayout, CreateLayoutFails, CreateReturn, AttachReuse, AttachReturn,
        DetachFails, DetachGiveUp, DetachReturn, FinalizeRename, FinalizeCopy,
        FinalizeCopied, FinalizeUnlink, FinalizeFails, FinalizeReturn, CreateCached,
        CreateBegin, AttachCached, AttachWithoutImages, AttachBegin, DetachBegin,
        VerifyImages, FinalizeWithoutImages, FinalizeBegin, ClientWrite,
        Exit, Restart, host
<1> QED
  BY <1>1, Invariance, PTL DEF Spec, NeverDetachOthers

-----------------------------------------------------------------------------
(***************************************************************************)
(* NoImageLost.  The strengthening follows the methods through their       *)
(* loops: create_images has not put into the dict what it has yet to       *)
(* create, finalize_images removes a file only when the copy has its       *)
(* content, no finished image is also a temporary one or the finished one  *)
(* of another volume, so that truncating one spares the others.            *)
(***************************************************************************)
Moving == {"finalize", "copy", "unlink"}

FinishedApart ==
    \A v, w \in Volumes :
        /\ final[v] \in used \cup {None}
        /\ final[v] # None => final[v] # hidden[w]
        /\ final[v] # None /\ final[v] = final[w] => v = w

LoopsAreConsistent ==
    /\ op \in {"create", "layout"} => images \cap todo = {}
    /\ op \in Moving => images # None /\ todo \subseteq images

HalfMoved ==
    /\ op \in {"copy", "unlink"} => final[current] # None
    /\ op = "unlink" => Table \in content[final[current]]

FInv ==
    IInv /\ FinishedApart /\ LoopsAreConsistent /\ HalfMoved /\ NoImageLost

(***************************************************************************)
(* ImagesArePartitioned, as long as moving a file does not fail, or there  *)
(* is only one image to move: finalize_images still has the files of the   *)
(* volumes it has yet to move.                                             *)
(***************************************************************************)
NoHalfMoves == "move" \notin Faults \/ \E disk : Volumes \ Hybrid \subseteq {disk}

Pending == IF op \in Moving THEN todo ELSE images

(* create_images never gets past a volume of schema `mbr,gpt'.             *)
HybridsHaveNoImage ==
    /\ images # None => images \cap Hybrid = {}
    /\ op = "layout" => current \notin Hybrid

PendingPartitioned ==
    Going /\ images # None =>
        \A v \in Pending : hidden[v] # None /\ Table \in content[hidden[v]]

PInv == FInv /\ HybridsHaveNoImage /\ PendingPartitioned

FilesKept == FinishedApart' /\ LoopsAreConsistent' /\ HalfMoved' /\ NoImageLost'
PendingKept == PendingPartitioned => PendingPartitioned'

LEMMA InitPInv == Init => PInv
BY InitIInv DEF Init, FreshMemory, NoCall, PInv, FInv, FinishedApart, LoopsAreConsistent,
   Moving, HalfMoved, NoImageLost, HybridsHaveNoImage, PendingPartitioned

LEMMA NextHybrids ==
    IInv /\ HybridsHaveNoImage /\ [Next]_vars => HybridsHaveNoImage'
<1> SUFFICES ASSUME IInv, HybridsHaveNoImage, [Next]_vars
             PROVE  HybridsHaveNoImage'
  OBVIOUS
<1> USE DEF HybridsHaveNoImage, host, memory, call
<1>1. CASE CreateStep
  <2>1. ASSUME NEW v \in Volumes, CreateZeroImage(v)
        PROVE  HybridsHaveNoImage'
    BY <2>1 DEF CreateZeroImage
  <2>2. CASE CreateLayout
    BY <2>2, ConstantsAssumption DEF CreateLayout, IInv, MethodsInProgress
  <2> QED
    BY <1>1, <2>1, <2>2
    DEF CreateStep, CreateUnimplemented, CreateLayoutFails, CreateReturn, Return
<1>2. CASE AttachStep \/ DetachStep
  BY <1>2 DEF AttachStep, AttachReuse, AttachFresh, AttachFails, AttachReturn, Record,
     DetachStep, DetachTry, DetachFails, DetachGiveUp, DetachReturn, Return
<1>3. CASE FinalizeStep
  BY <1>3 DEF FinalizeStep, FinalizeRename, FinalizeCopy, FinalizeCopied,
     FinalizeUnlink, FinalizeFails, FinalizeReturn, Return
<1>4. CASE ClientCall
  BY <1>4 DEF ClientCall, CreateCached, CreateBegin, AttachCached, AttachWithoutImages,
     AttachBegin, DetachBegin, VerifyImages, FinalizeWithoutImages, FinalizeBegin,
     ClientWrite, Callable, Enter, Return
<1>5. CASE Environment
  BY <1>5 DEF Environment, OtherDetach, OtherAttach, MethodInterrupted, Exit, Restart,
     Enter, Return
<1>6. CASE UNCHANGED vars
  BY <1>6 DEF vars
<1> QED
  BY <1>1, <1>2, <1>3, <1>4, <1>5, <1>6 DEF Next, ServiceStep

(* A step that changes neither files nor the dict, and enters or goes on   *)
(* with no loop of create_images or finalize_images.                       *)
LEMMA QuietStep ==
    ASSUME FInv, UNCHANGED <<hidden, final, used, content, images>>,
           op' \notin {"create", "layout"} \cup Moving
    PROVE  FilesKept
BY DEF FInv, FilesKept, FinishedApart, LoopsAreConsistent, HalfMoved, NoImageLost, Moving

LEMMA CreateBeginKept ==
    ASSUME FInv, CreateBegin
    PROVE  FilesKept /\ PendingKept
<1> USE ConstantsAssumption DEF CreateBegin, Enter, Callable,
       host, memory, call, FInv, IInv, FilesKept, PendingKept
<1>1. FinishedApart'
  BY DEF FinishedApart, FilesAreCreated, MethodsInProgress, HalfMoved, TypeOK
<1>2. LoopsAreConsistent'
  BY DEF LoopsAreConsistent, Moving, MethodsInProgress, TypeOK
<1>3. HalfMoved'
  BY DEF HalfMoved, FinishedApart, FilesAreCreated, LoopsAreConsistent, Moving,
     MethodsInProgress, NoImageLost, TypeOK
<1>4. NoImageLost'
  BY DEF NoImageLost, HalfMoved, FinishedApart, FilesAreCreated, LoopsAreConsistent,
     Moving, MethodsInProgress, TypeOK
<1>5. PendingPartitioned => PendingPartitioned'
  BY DEF PendingPartitioned, Pending, Moving, LoopsAreConsistent, FinishedApart,
     FilesAreCreated, MethodsInProgress, Going, TypeOK
<1> QED
  BY <1>1, <1>2, <1>3, <1>4, <1>5

LEMMA CreateZeroImageKept ==
    ASSUME FInv, NEW v \in Volumes, CreateZeroImage(v)
    PROVE  FilesKept /\ PendingKept
<1> USE ConstantsAssumption DEF CreateZeroImage,
       host, memory, call, FInv, IInv, FilesKept, PendingKept
<1>1. FinishedApart'
  BY DEF FinishedApart, FilesAreCreated, MethodsInProgress, HalfMoved, TypeOK
<1>2. LoopsAreConsistent'
  BY DEF LoopsAreConsistent, Moving, MethodsInProgress, TypeOK
<1>3. HalfMoved'
  BY DEF HalfMoved, FinishedApart, FilesAreCreated, LoopsAreConsistent, Moving,
     MethodsInProgress, NoImageLost, TypeOK
<1>4. NoImageLost'
  BY DEF NoImageLost, HalfMoved, FinishedApart, FilesAreCreated, LoopsAreConsistent,
     Moving, MethodsInProgress, TypeOK
<1>5. PendingPartitioned => PendingPartitioned'
  BY DEF PendingPartitioned, Pending, Moving, LoopsAreConsistent, FinishedApart,
     FilesAreCreated, MethodsInProgress, Going, TypeOK
<1> QED
  BY <1>1, <1>2, <1>3, <1>4, <1>5

LEMMA CreateLayoutKept ==
    ASSUME FInv, CreateLayout
    PROVE  FilesKept /\ PendingKept
<1> USE ConstantsAssumption DEF CreateLayout,
       host, memory, call, FInv, IInv, FilesKept, PendingKept
<1>1. FinishedApart'
  BY DEF FinishedApart, FilesAreCreated, MethodsInProgress, HalfMoved, TypeOK
<1>2. LoopsAreConsistent'
  BY DEF LoopsAreConsistent, Moving, MethodsInProgress, TypeOK
<1>3. HalfMoved'
  BY DEF HalfMoved, FinishedApart, FilesAreCreated, LoopsAreConsistent, Moving,
     MethodsInProgress, NoImageLost, TypeOK
<1>4. NoImageLost'
  BY DEF NoImageLost, HalfMoved, FinishedApart, FilesAreCreated, LoopsAreConsistent,
     Moving, MethodsInProgress, TypeOK
<1>5. PendingPartitioned => PendingPartitioned'
  BY DEF PendingPartitioned, Pending, Moving, LoopsAreConsistent, FinishedApart,
     FilesAreCreated, MethodsInProgress, Going, TypeOK
<1> QED
  BY <1>1, <1>2, <1>3, <1>4, <1>5

LEMMA FinalizeBeginKept ==
    ASSUME FInv, FinalizeBegin
    PROVE  FilesKept /\ PendingKept
<1> USE ConstantsAssumption DEF FinalizeBegin, Enter, Callable,
       host, memory, call, FInv, IInv, FilesKept, PendingKept
<1>1. FinishedApart'
  BY DEF FinishedApart, FilesAreCreated, MethodsInProgress, HalfMoved, TypeOK
<1>2. LoopsAreConsistent'
  BY DEF LoopsAreConsistent, Moving, MethodsInProgress, TypeOK
<1>3. HalfMoved'
  BY DEF HalfMoved, FinishedApart, FilesAreCreated, LoopsAreConsistent, Moving,
     MethodsInProgress, NoImageLost, TypeOK
<1>4. NoImageLost'
  BY DEF NoImageLost, HalfMoved, FinishedApart, FilesAreCreated, LoopsAreConsistent,
     Moving, MethodsInProgress, TypeOK
<1>5. PendingPartitioned => PendingPartitioned'
  BY DEF PendingPartitioned, Pending, Moving, LoopsAreConsistent, FinishedApart,
     FilesAreCreated, MethodsInProgress, Going, TypeOK
<1> QED
  BY <1>1, <1>2, <1>3, <1>4, <1>5

LEMMA FinalizeRenameKept ==
    ASSUME FInv, NEW v \in Volumes, FinalizeRename(v)
    PROVE  FilesKept /\ PendingKept
<1> USE ConstantsAssumption DEF FinalizeRename,
       host, memory, call, FInv, IInv, FilesKept, PendingKept
<1>1. FinishedApart'
  BY DEF FinishedApart, FilesAreCreated, MethodsInProgress, HalfMoved, TypeOK
<1>2. LoopsAreConsistent'
  BY DEF LoopsAreConsistent, Moving, MethodsInProgress, TypeOK
<1>3. HalfMoved'
  BY DEF HalfMoved, FinishedApart, FilesAreCreated, LoopsAreConsistent, Moving,
     MethodsInProgress, NoImageLost, TypeOK
<1>4. NoImageLost'
  BY DEF NoImageLost, HalfMoved, FinishedApart, FilesAreCreated, LoopsAreConsistent,
     Moving, MethodsInProgress, TypeOK
<1>5. PendingPartitioned => PendingPartitioned'
  BY DEF PendingPartitioned, Pending, Moving, LoopsAreConsistent, FinishedApart,
     FilesAreCreated, MethodsInProgress, Going, TypeOK
<1> QED
  BY <1>1, <1>2, <1>3, <1>4, <1>5

LEMMA FinalizeCopyKept ==
    ASSUME FInv, NEW v \in Volumes, FinalizeCopy(v)
    PROVE  FilesKept /\ PendingKept
<1> USE ConstantsAssumption DEF FinalizeCopy,
       host, memory, call, FInv, IInv, FilesKept, PendingKept
<1>1. FinishedApart'
  BY DEF FinishedApart, FilesAreCreated, MethodsInProgress, HalfMoved, TypeOK
<1>2. LoopsAreConsistent'
  BY DEF LoopsAreConsistent, Moving, MethodsInProgress, TypeOK
<1>3. HalfMoved'
  BY DEF HalfMoved, FinishedApart, FilesAreCreated, LoopsAreConsistent, Moving,
     MethodsInProgress, NoImageLost, TypeOK
<1>4. NoImageLost'
  BY DEF NoImageLost, HalfMoved, FinishedApart, FilesAreCreated, LoopsAreConsistent,
     Moving, MethodsInProgress, TypeOK
<1>5. PendingPartitioned => PendingPartitioned'
  BY DEF PendingPartitioned, Pending, Moving, LoopsAreConsistent, FinishedApart,
     FilesAreCreated, MethodsInProgress, Going, TypeOK
<1> QED
  BY <1>1, <1>2, <1>3, <1>4, <1>5

LEMMA FinalizeCopiedKept ==
    ASSUME FInv, FinalizeCopied
    PROVE  FilesKept /\ PendingKept
<1> USE ConstantsAssumption DEF FinalizeCopied,
       host, memory, call, FInv, IInv, FilesKept, PendingKept
<1>1. FinishedApart'
  BY DEF FinishedApart, FilesAreCreated, MethodsInProgress, HalfMoved, TypeOK
<1>2. LoopsAreConsistent'
  BY DEF LoopsAreConsistent, Moving, MethodsInProgress, TypeOK
<1>3. HalfMoved'
  BY DEF HalfMoved, FinishedApart, FilesAreCreated, LoopsAreConsistent, Moving,
     MethodsInProgress, NoImageLost, TypeOK
<1>4. NoImageLost'
  BY DEF NoImageLost, HalfMoved, FinishedApart, FilesAreCreated, LoopsAreConsistent,
     Moving, MethodsInProgress, TypeOK
<1>5. PendingPartitioned => PendingPartitioned'
  BY DEF PendingPartitioned, Pending, Moving, LoopsAreConsistent, FinishedApart,
     FilesAreCreated, MethodsInProgress, Going, TypeOK
<1> QED
  BY <1>1, <1>2, <1>3, <1>4, <1>5

LEMMA FinalizeUnlinkKept ==
    ASSUME FInv, FinalizeUnlink
    PROVE  FilesKept /\ PendingKept
<1> USE ConstantsAssumption DEF FinalizeUnlink,
       host, memory, call, FInv, IInv, FilesKept, PendingKept
<1>1. FinishedApart'
  BY DEF FinishedApart, FilesAreCreated, MethodsInProgress, HalfMoved, TypeOK
<1>2. LoopsAreConsistent'
  BY DEF LoopsAreConsistent, Moving, MethodsInProgress, TypeOK
<1>3. HalfMoved'
  BY DEF HalfMoved, FinishedApart, FilesAreCreated, LoopsAreConsistent, Moving,
     MethodsInProgress, NoImageLost, TypeOK
<1>4. NoImageLost'
  BY DEF NoImageLost, HalfMoved, FinishedApart, FilesAreCreated, LoopsAreConsistent,
     Moving, MethodsInProgress, TypeOK
<1>5. PendingPartitioned => PendingPartitioned'
  BY DEF PendingPartitioned, Pending, Moving, LoopsAreConsistent, FinishedApart,
     FilesAreCreated, MethodsInProgress, Going, TypeOK
<1> QED
  BY <1>1, <1>2, <1>3, <1>4, <1>5

LEMMA ClientWriteKept ==
    ASSUME FInv, NEW v \in Volumes, NEW p \in Payloads, ClientWrite(v, p)
    PROVE  FilesKept /\ PendingKept
<1> USE ConstantsAssumption DEF ClientWrite, Callable,
       host, memory, call, FInv, IInv, FilesKept, PendingKept
<1>1. FinishedApart'
  BY DEF FinishedApart, FilesAreCreated, MethodsInProgress, HalfMoved, TypeOK
<1>2. LoopsAreConsistent'
  BY DEF LoopsAreConsistent, Moving, MethodsInProgress, TypeOK
<1>3. HalfMoved'
  BY DEF HalfMoved, FinishedApart, FilesAreCreated, LoopsAreConsistent, Moving,
     MethodsInProgress, NoImageLost, TypeOK
<1>4. NoImageLost'
  BY DEF NoImageLost, HalfMoved, FinishedApart, FilesAreCreated, LoopsAreConsistent,
     Moving, MethodsInProgress, TypeOK
<1>5. PendingPartitioned => PendingPartitioned'
  BY DEF PendingPartitioned, Pending, Moving, LoopsAreConsistent, FinishedApart,
     FilesAreCreated, MethodsInProgress, Going, TypeOK
<1> QED
  BY <1>1, <1>2, <1>3, <1>4, <1>5

(* Every step but a failing move.                                          *)
LEMMA NextKept ==
    ASSUME FInv, [Next]_vars, ~FinalizeFails
    PROVE  FilesKept /\ PendingKept
<1>1. CASE CreateStep
  <2>1. CASE CreateUnimplemented \/ CreateLayoutFails \/ CreateReturn
    <3>1. /\ op \in {"create", "layout"} /\ op' = "idle"
          /\ UNCHANGED <<host, memory>> /\ Going
      BY <2>1 DEF CreateUnimplemented, CreateLayoutFails, CreateReturn, Return, FInv, IInv,
         MethodsInProgress
    <3> QED
      BY <3>1, QuietStep DEF host, memory, Moving, PendingKept, PendingPartitioned, Pending
  <2> QED
    BY <1>1, <2>1, CreateZeroImageKept, CreateLayoutKept DEF CreateStep
<1>2. CASE AttachStep \/ DetachStep
  <2>1. /\ op \in {"attach", "detach"} /\ op' \in {"idle", "attach", "detach"}
        /\ UNCHANGED <<hidden, final, used, content, images, emitter>>
    BY <1>2
    DEF AttachStep, AttachReuse, AttachFresh, AttachFails, AttachReturn, Record, DetachStep,
        DetachTry, DetachFails, DetachGiveUp, DetachReturn, Return, host, memory
  <2>2. Going' => Going
    BY <2>1 DEF FInv, IInv, MethodsInProgress, Going
  <2> QED
    BY <2>1, <2>2, QuietStep DEF Moving, PendingKept, PendingPartitioned, Pending
<1>3. CASE FinalizeStep
  <2>1. CASE FinalizeReturn
    BY <2>1 DEF FinalizeReturn, Return, host, FInv, FilesKept, PendingKept, FinishedApart,
       LoopsAreConsistent, HalfMoved, NoImageLost, PendingPartitioned, Moving
  <2> QED
    BY <1>3, <2>1, FinalizeRenameKept, FinalizeCopyKept, FinalizeCopiedKept,
       FinalizeUnlinkKept DEF FinalizeStep
<1>4. CASE ClientCall
  <2>1. CASE CreateCached \/ AttachCached \/ AttachWithoutImages \/ AttachBegin
             \/ DetachBegin \/ VerifyImages \/ FinalizeWithoutImages
    <3>1. /\ Callable /\ op' \in {"idle", "attach", "detach"}
          /\ UNCHANGED <<hidden, final, used, content, images>>
      BY <2>1
      DEF CreateCached, AttachCached, AttachWithoutImages, AttachBegin, DetachBegin,
          VerifyImages, FinalizeWithoutImages, Return, Enter, host, memory
    <3> QED
      BY <3>1, QuietStep DEF Callable, Moving, PendingKept, PendingPartitioned, Pending
  <2> QED
    BY <1>4, <2>1, CreateBeginKept, FinalizeBeginKept, ClientWriteKept DEF ClientCall
<1>5. CASE Environment
  <2>1. CASE Restart
    BY <2>1 DEF Restart, Return, host, FInv, FilesKept, PendingKept, FinishedApart,
       LoopsAreConsistent, HalfMoved, NoImageLost, PendingPartitioned, Moving
  <2>2. CASE MethodInterrupted \/ Exit
    <3>1. /\ op' \in {"idle", "detach"} /\ ~Going'
          /\ UNCHANGED <<hidden, final, used, content, images>>
      BY <2>2 DEF MethodInterrupted, Exit, Return, Enter, Going, host, memory
    <3> QED
      BY <3>1, QuietStep DEF Moving, PendingKept, PendingPartitioned
  <2>3. CASE UNCHANGED <<hidden, final, used, content, memory, emitter, call>>
    BY <2>3 DEF FInv, FilesKept, PendingKept, FinishedApart, LoopsAreConsistent, HalfMoved,
       NoImageLost, PendingPartitioned, Pending, Moving, Going, call, memory
  <2> QED
    BY <1>5, <2>1, <2>2, <2>3 DEF Environment, OtherDetach, OtherAttach
<1>6. CASE UNCHANGED vars
  BY <1>6 DEF vars, host, memory, call, FInv, FilesKept, PendingKept, FinishedApart,
     LoopsAreConsistent, HalfMoved, NoImageLost, PendingPartitioned, Pending, Moving, Going
<1> QED
  BY <1>1, <1>2, <1>3, <1>4, <1>5, <1>6 DEF Next, ServiceStep

LEMMA NextFInv == FInv /\ [Next]_vars => FInv'
<1> SUFFICES ASSUME FInv, [Next]_vars PROVE FInv'
  OBVIOUS
<1>1. IInv'
  BY NextIInv DEF FInv
<1>2. FilesKept
  <2>1. CASE FinalizeFails
    BY <2>1, QuietStep DEF FinalizeFails, Return, Moving, host, memory
  <2> QED
    BY <2>1, NextKept
<1> QED
  BY <1>1, <1>2 DEF FInv, FilesKept

(* No image is lost on its way to the destination, whatever the number of  *)
(* volumes and whatever fails or is interrupted, renamed or copied.        *)
THEOREM ImagesAreNeverLost == Spec => []NoImageLost
<1>1. Init => FInv
  BY InitPInv DEF PInv
<1>2. FInv => NoImageLost
  BY DEF FInv
<1> QED
  BY <1>1, <1>2, NextFInv, PTL DEF Spec

LEMMA NextPInv ==
    ASSUME NoHalfMoves
    PROVE  PInv /\ [Next]_vars => PInv'
<1> SUFFICES ASSUME PInv, [Next]_vars PROVE PInv'
  OBVIOUS
<1> USE DEF PInv
<1>1. FInv' /\ HybridsHaveNoImage'
  BY NextFInv, NextHybrids DEF FInv
<1>2. PendingPartitioned'
  <2>1. CASE FinalizeFails
    <3>1. /\ op \in Moving /\ op' = "idle" /\ UNCHANGED <<host, memory, emitter>>
          /\ op \notin {"idle", "detach"}
      BY <2>1 DEF FinalizeFails, Return, Moving
    <3>2. images # None /\ todo \subseteq images /\ images \subseteq Volumes \ Hybrid
      BY <3>1 DEF FInv, LoopsAreConsistent, HybridsHaveNoImage, IInv, TypeOK
    <3>3. \A v \in todo : hidden[v] # None /\ Table \in content[hidden[v]]
      BY <3>1, <3>2 DEF PendingPartitioned, Pending, FInv, IInv, MethodsInProgress
    <3>4. "move" \in Faults /\ todo # {}
      BY <2>1, <3>3 DEF FinalizeFails
    <3>5. todo = images
      BY <3>2, <3>4 DEF NoHalfMoves
    <3> QED
      BY <3>1, <3>3, <3>5 DEF PendingPartitioned, Pending, Moving, host, memory
  <2> QED
    BY <2>1, NextKept DEF PendingKept
<1> QED
  BY <1>1, <1>2

(* A volume is in the dict of create_images only with its file in place    *)
(* and partitioned: for a project of one volume whatever fails, and for    *)
(* any number of volumes if moves do not fail.                             *)
THEOREM DictedImagesArePartitioned ==
    ASSUME NoHalfMoves
    PROVE  Spec => []ImagesArePartitioned
<1>1. PInv => ImagesArePartitioned
  BY DEF PInv, PendingPartitioned, Pending, Moving, ImagesArePartitioned
<1>2. PInv /\ [Next]_vars => PInv'
  BY NextPInv
<1> QED
  BY <1>1, <1>2, InitPInv, PTL DEF Spec

-----------------------------------------------------------------------------
(***************************************************************************)
(* What can be proved of CallsReturn: a method that has been entered has a *)
(* bounded number of steps left, whatever fails and whatever happens       *)
(* around it.  A volume costs at most MaxTries failed attempts, the one    *)
(* that succeeds or is given up, and two more for the method whose rounds  *)
(* are of three steps.                                                     *)
(***************************************************************************)
StepsOfRound ==
    CASE op = "finalize" -> 2 [] op \in {"create", "copy"} -> 1 [] OTHER -> 0

RoundsLeft ==
    IF op = "idle" THEN 0
    ELSE 1 + Cardinality(todo) * (MaxTries + 3) + (MaxTries - tries) + StepsOfRound

(* The volume in the middle of a round is one that is left.                *)
RoundsOfTheLoop ==
    /\ op \in {"create", "attach", "finalize"} => current = None
    /\ op \in {"layout", "detach", "copy", "unlink"} => current \in todo \cup {None}

LEMMA Multiples ==
    ASSUME NEW a \in Nat, NEW b \in Nat, a <= b, NEW c \in Nat
    PROVE  a * c \in Nat /\ b * c \in Nat /\ a * c <= b * c /\ (a + 1) * c = a * c + c
OBVIOUS

LEMMA RoundsOfTheLoopHolds == Spec => []RoundsOfTheLoop
<1>1. Init => RoundsOfTheLoop
  BY DEF Init, NoCall, RoundsOfTheLoop
<1>2. RoundsOfTheLoop /\ [Next]_vars => RoundsOfTheLoop'
  <2> SUFFICES ASSUME RoundsOfTheLoop, [Next]_vars PROVE RoundsOfTheLoop'
    OBVIOUS
  <2> USE DEF RoundsOfTheLoop, call
  <2>1. CASE CreateStep \/ FinalizeStep
    BY <2>1
    DEF CreateStep, CreateZeroImage, CreateUnimplemented, CreateLayout, CreateLayoutFails,
        CreateReturn, FinalizeStep, FinalizeRename, FinalizeCopy, FinalizeCopied,
        FinalizeUnlink, FinalizeFails, FinalizeReturn, Return
  <2>2. CASE AttachStep
    BY <2>2 DEF AttachStep, AttachReuse, AttachFresh, AttachFails, AttachReturn, Record, Return
  <2>3. CASE DetachStep
    BY <2>3 DEF DetachStep, DetachTry, DetachFails, DetachGiveUp, DetachReturn, Return
  <2>4. CASE ClientCall
    BY <2>4
    DEF ClientCall, CreateCached, CreateBegin, AttachCached, AttachWithoutImages,
        AttachBegin, DetachBegin, VerifyImages, FinalizeWithoutImages, FinalizeBegin,
        ClientWrite, Callable, Enter, Return
  <2>5. CASE Environment
    BY <2>5 DEF Environment, OtherDetach, OtherAttach, MethodInterrupted, Exit, Restart, Enter,
       Return
  <2>6. CASE UNCHANGED vars
    BY <2>6 DEF vars
  <2> QED
    BY <2>1, <2>2, <2>3, <2>4, <2>5, <2>6 DEF Next, ServiceStep
<1> QED
  BY <1>1, <1>2, PTL DEF Spec

(* A round that takes a volume off the loop pays for its attempts.         *)
LEMMA VolumeDone ==
    ASSUME IsFiniteSet(todo), NEW v \in todo, todo' = todo \ {v},
           op # "idle", op' # "idle",
           tries \in 0..MaxTries, tries' \in {0, tries}
    PROVE  RoundsLeft' < RoundsLeft
<1>1. /\ MaxTries \in Nat /\ MaxTries + 3 \in Nat
      /\ tries \in Nat /\ tries <= MaxTries /\ tries' \in Nat /\ tries' <= tries
  BY ConstantsAssumption
<1>2. PICK m \in Nat : Cardinality(todo') = m /\ Cardinality(todo) = m + 1
  <2>1. Cardinality(todo') \in Nat /\ Cardinality(todo) = Cardinality(todo') + 1
    BY FS_RemoveElement, FS_CardinalityType
  <2> QED
    BY <2>1
<1>3. PICK rest \in Nat :
          /\ Cardinality(todo') * (MaxTries + 3) = rest
          /\ Cardinality(todo) * (MaxTries + 3) = rest + MaxTries + 3
  BY <1>1, <1>2, Multiples
<1>4. PICK e, f \in {0, 1, 2} :
          /\ RoundsLeft = 1 + (rest + MaxTries + 3) + (MaxTries - tries) + e
          /\ RoundsLeft' = 1 + rest + (MaxTries - tries') + f
  BY <1>3 DEF RoundsLeft, StepsOfRound
<1>5. \A r, x, t, u \in Nat : \A a, b \in {0, 1, 2} :
          t <= x /\ u <= t =>
              1 + r + (x - u) + b < 1 + (r + x + 3) + (x - t) + a
  OBVIOUS
<1> QED
  BY <1>1, <1>4, <1>5

(* A round of several steps, a failed attempt, or the end of the method.   *)
LEMMA SameVolumes ==
    ASSUME IsFiniteSet(todo), op # "idle", tries \in 0..MaxTries,
           \/ op' = "idle"
           \/ /\ UNCHANGED <<todo, tries>>
              /\ <<op, op'>> \in {<<"create", "layout">>, <<"finalize", "copy">>,
                                  <<"copy", "unlink">>}
           \/ UNCHANGED <<todo, op>> /\ tries' = tries + 1
    PROVE  RoundsLeft' < RoundsLeft
<1>1. MaxTries \in Nat /\ MaxTries + 3 \in Nat /\ Cardinality(todo) \in Nat
  BY ConstantsAssumption, FS_CardinalityType
<1> DEFINE rest == Cardinality(todo) * (MaxTries + 3)
<1>2. rest \in Nat
  BY <1>1, Multiples
<1>3. /\ UNCHANGED todo => rest' = rest
      /\ RoundsLeft = 1 + rest + (MaxTries - tries) + StepsOfRound
      /\ RoundsLeft' = IF op' = "idle" THEN 0
                       ELSE 1 + rest' + (MaxTries - tries') + StepsOfRound'
  BY DEF RoundsLeft
<1>4. /\ StepsOfRound \in {0, 1, 2} /\ StepsOfRound' \in {0, 1, 2}
      /\ UNCHANGED op => StepsOfRound' = StepsOfRound
      /\ <<op, op'>> \in {<<"create", "layout">>, <<"finalize", "copy">>, <<"copy", "unlink">>}
            => StepsOfRound' = StepsOfRound - 1
  BY DEF StepsOfRound
<1> HIDE DEF rest
<1> QED
  BY <1>1, <1>2, <1>3, <1>4

LEMMA ServiceStepsRunOut ==
    ASSUME IsFiniteSet(Volumes), IInv, RoundsOfTheLoop, ServiceStep
    PROVE  op # "idle" /\ RoundsLeft' < RoundsLeft
<1>1. IsFiniteSet(todo) /\ tries \in 0..MaxTries
  BY FS_Subset DEF IInv, TypeOK
<1>2. ASSUME NEW v \in Volumes,
             \/ AttachReuse(v) \/ AttachFresh(v)
             \/ DetachTry(v) \/ DetachGiveUp(v)
             \/ FinalizeRename(v)
      PROVE  op # "idle" /\ RoundsLeft' < RoundsLeft
  <2>1. v \in todo /\ todo' = todo \ {v} /\ op # "idle" /\ op' # "idle"
    BY <1>2, ConstantsAssumption
    DEF AttachReuse, AttachFresh, Record, DetachTry, DetachGiveUp, FinalizeRename,
        RoundsOfTheLoop
  <2>2. tries' \in {0, tries}
    BY <1>2
    DEF AttachReuse, AttachFresh, Record, DetachTry, DetachGiveUp, FinalizeRename
  <2> QED
    BY <1>1, <2>1, <2>2, VolumeDone
<1>3. CASE CreateLayout \/ FinalizeUnlink
  <2>1. /\ current \in todo /\ todo' = todo \ {current}
        /\ op # "idle" /\ op' # "idle" /\ tries' = tries
    BY <1>3 DEF CreateLayout, FinalizeUnlink, IInv, MethodsInProgress
  <2> QED
    BY <1>1, <2>1, VolumeDone
<1>4. CASE \/ \E v \in Volumes : CreateZeroImage(v) \/ FinalizeCopy(v) \/ DetachFails(v)
           \/ FinalizeCopied
  <2>1. /\ op # "idle"
        /\ \/ /\ UNCHANGED <<todo, tries>>
              /\ <<op, op'>> \in {<<"create", "layout">>, <<"finalize", "copy">>,
                                  <<"copy", "unlink">>}
           \/ UNCHANGED <<todo, op>> /\ tries' = tries + 1
    BY <1>4 DEF CreateZeroImage, FinalizeCopy, FinalizeCopied, DetachFails
  <2> QED
    BY <1>1, <2>1, SameVolumes
<1>5. CASE \/ CreateUnimplemented \/ CreateLayoutFails \/ CreateReturn
           \/ (\E v \in Volumes : AttachFails(v)) \/ AttachReturn
           \/ DetachReturn \/ FinalizeFails \/ FinalizeReturn
  <2>1. op # "idle" /\ op' = "idle"
    BY <1>5
    DEF CreateUnimplemented, CreateLayoutFails, CreateReturn, AttachFails, AttachReturn,
        DetachReturn, FinalizeFails, FinalizeReturn, Return
  <2> QED
    BY <1>1, <2>1, SameVolumes
<1> QED
  BY <1>2, <1>3, <1>4, <1>5
  DEF ServiceStep, CreateStep, AttachStep, DetachStep, FinalizeStep

(* Every call returns after a bounded number of its own steps, for any     *)
(* number of volumes and attempts: each step of the method leaves fewer,   *)
(* and nothing that happens between two of them - other programs, a new    *)
(* process - gives it more.                                                *)
THEOREM CallsAreBounded ==
    ASSUME IsFiniteSet(Volumes)
    PROVE  Spec =>
        /\ [](RoundsLeft \in 0..(Cardinality(Volumes) * (MaxTries + 3) + MaxTries + 3))
        /\ [][op # "idle" =>
                 \/ RoundsLeft' < RoundsLeft
                 \/ ~ServiceStep /\ RoundsLeft' = RoundsLeft]_vars
<1>1. IInv => RoundsLeft \in 0..(Cardinality(Volumes) * (MaxTries + 3) + MaxTries + 3)
  <2> SUFFICES ASSUME IInv
               PROVE  RoundsLeft \in 0..(Cardinality(Volumes) * (MaxTries + 3) + MaxTries + 3)
    OBVIOUS
  <2>1. /\ MaxTries \in Nat /\ MaxTries + 3 \in Nat /\ tries \in 0..MaxTries
        /\ todo \in SUBSET Volumes
    BY ConstantsAssumption DEF IInv, TypeOK
  <2>2. /\ Cardinality(todo) \in Nat /\ Cardinality(Volumes) \in Nat
        /\ Cardinality(todo) <= Cardinality(Volumes)
    BY <2>1, FS_Subset, FS_CardinalityType
  <2> DEFINE rest == Cardinality(todo) * (MaxTries + 3)
             all == Cardinality(Volumes) * (MaxTries + 3)
  <2>3. rest \in Nat /\ all \in Nat /\ rest <= all
    BY <2>1, <2>2, Multiples
  <2>4. RoundsLeft = IF op = "idle" THEN 0
                     ELSE 1 + rest + (MaxTries - tries) + StepsOfRound
    BY DEF RoundsLeft
  <2>a. StepsOfRound \in {0, 1, 2}
    BY DEF StepsOfRound
  <2> HIDE DEF rest, all
  <2>5. RoundsLeft \in 0..(all + MaxTries + 3)
    BY <2>1, <2>3, <2>4, <2>a
  <2> QED
    BY <2>5 DEF all
<1>2. IInv /\ RoundsOfTheLoop /\ [Next]_vars =>
          [op # "idle" =>
              \/ RoundsLeft' < RoundsLeft
              \/ ~ServiceStep /\ RoundsLeft' = RoundsLeft]_vars
  <2> SUFFICES ASSUME IInv, RoundsOfTheLoop, Next, op # "idle", ~ServiceStep
               PROVE  RoundsLeft' < RoundsLeft \/ RoundsLeft' = RoundsLeft
    BY ServiceStepsRunOut
  <2>1. CASE UNCHANGED call
    BY <2>1 DEF call, RoundsLeft, StepsOfRound
  <2>2. CASE op' = "idle"
    BY <2>2, SameVolumes, FS_Subset DEF IInv, TypeOK
  <2>3. CASE Environment
    BY <2>1, <2>2, <2>3
    DEF Environment, OtherAttach, OtherDetach, MethodInterrupted, Exit, Restart, Return
  <2>4. CASE ClientCall
    BY <2>4
    DEF ClientCall, CreateCached, CreateBegin, AttachCached, AttachWithoutImages,
        AttachBegin, DetachBegin, VerifyImages, FinalizeWithoutImages, FinalizeBegin,
        ClientWrite, Callable
  <2> QED
    BY <2>3, <2>4 DEF Next
<1> QED
  BY <1>1, <1>2, Invariance, RoundsOfTheLoopHolds, PTL DEF Spec

=============================================================================
