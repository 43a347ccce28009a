---------------------------- MODULE PackRunProofs ----------------------------
(***************************************************************************)
(* The program, on any host: for any number of processes, killed anywhere, *)
(* any loop devices, partitions and parts.                                 *)
(*                                                                         *)
(* The invariant follows the program through its stages and says at each   *)
(* what the temporary image has, where the recorded device leads, and what *)
(* stands at the destination.                                              *)
(***************************************************************************)
EXTENDS PackRun, TLAPS

Draft == hidden[Volume]
Image == final[Volume]
Loop == loopDevices[Volume]

Idle(results) == op = "idle" /\ outcome \in results

Ready == Draft # None /\ Table \in content[Draft]
OnDraft == Loop # None /\ backing[Loop] = Draft
Written == partsHere \cup (Partitions \ unformatted) \subseteq content[Draft]
WholeDraft == Ready /\ Written /\ unformatted = {}
WholeDisk ==
    /\ Draft = None
    /\ Image # None
    /\ {Table} \cup Partitions \cup partsHere \subseteq content[Image]

Files ==
    /\ Draft # None => Draft \in used
    /\ Image # None => Image \in used
    /\ Draft = Image => Draft = None

Running ==
    /\ emitter <=> stage # "exit"
    /\ stage = "exit" => op \in {"idle", "detach"}
    /\ stage \in EndStages => op = "idle"

(* What the methods in progress rely on.                                   *)
InProgress ==
    /\ op = "detach" => todo \subseteq Recorded
    /\ op \in {"create", "layout"} => stage = "prologue_create"
    /\ op = "attach" => stage = "prologue_attach"
    /\ op \in {"finalize", "copy", "unlink"} => stage = "finalize"
    /\ op = "detach" => stage \in {"detach", "exit"}

(* Files that do not exist have no content and no device.                  *)
Made ==
    /\ \A i \in Inodes \ used : content[i] = {}
    /\ \A d \in Devices : backing[d] \in used \cup {None, Foreign}

AtStart ==
    /\ stage = "start" => op = "idle" /\ images = None
    /\ stage \in {"start", "prologue_create"} => Loop = None
    /\ stage \in {"start", "prologue_create", "prologue_attach"} =>
          partsHere = {} /\ unformatted = Partitions

AtCreate ==
    stage = "prologue_create" =>
        \/ op = "create" /\ todo = {Volume} /\ images = {}
        \/ op = "layout" /\ todo = {Volume} /\ images = {} /\ current = Volume /\ Draft # None
        \/ op = "create" /\ todo = {} /\ images = {Volume} /\ Ready
        \/ Idle({"created"}) /\ images = {Volume} /\ Ready
        \/ Idle({"raised"})

AtAttach ==
    stage = "prologue_attach" =>
        /\ images = {Volume}
        /\ Ready
        /\ \/ /\ op = "attach" /\ todo = {Volume} /\ Loop = None
              /\ \A d \in Devices : listing[d] = Volume => backing[d] = Draft
           \/ op = "attach" /\ todo = {} /\ OnDraft
           \/ Idle({"attached"}) /\ OnDraft
           \/ Idle({"raised"})

AtWork ==
    stage \in {"parts", "pack", "pack_create", "pack_attach", "format", "verify"} =>
        /\ op = "idle"
        /\ images = {Volume}
        /\ Ready /\ OnDraft /\ Written
        /\ stage = "pack_create" => outcome = "created"
        /\ stage = "pack_attach" => outcome = "attached"
        /\ stage = "verify" => unformatted = {}

AtDetach ==
    stage = "detach" =>
        /\ images = {Volume}
        /\ Ready /\ Written
        /\ ~raising => unformatted = {}
        /\ \/ op = "detach" /\ todo = {Volume} /\ OnDraft
           \/ op = "detach" /\ todo = {}
           \/ op = "idle"

AtFinalize ==
    stage = "finalize" =>
        \/ op = "finalize" /\ todo = {Volume} /\ WholeDraft
        \/ /\ op = "copy" /\ todo = {Volume} /\ WholeDraft
           /\ current = Volume /\ CrossDevice /\ Image # None
        \/ /\ op = "unlink" /\ todo = {Volume}
           /\ current = Volume /\ CrossDevice
           /\ Draft # None /\ Image # None
           /\ {Table} \cup Partitions \cup partsHere \subseteq content[Image]
        \/ op = "finalize" /\ todo = {} /\ WholeDisk
        \/ Idle({"finalized"}) /\ WholeDisk
        \/ Idle({"raised"})

AtGrub ==
    /\ stage \in GrubStages => op = "idle" /\ WholeDisk
    /\ stage = "grub_install" => grubDevice # None /\ backing[grubDevice] = Image
    /\ stage \notin GrubStages \cup EndStages \cup {"exit"} => grubDevice = None
    /\ grubDevice # None => Image # None /\ Draft = None
    /\ stage = "done" /\ command = "pack" => WholeDisk

PublishedWhole ==
    ~CrossDevice /\ Image # None => Complete(Image)

RInv ==
    /\ TypeOK /\ ProgramTypeOK
    /\ Files /\ Running
    /\ InProgress /\ Made
    /\ AtStart /\ AtCreate /\ AtAttach /\ AtWork /\ AtDetach /\ AtFinalize /\ AtGrub
    /\ PublishedWhole

-----------------------------------------------------------------------------
(* There is one volume, and its name is not that of anything else.         *)
LEMMA OneVolume ==
    /\ Volumes = {Volume} /\ Volume # None /\ Volume # Foreign
    /\ None \notin Devices /\ None \notin Inodes /\ Foreign \notin Inodes /\ Foreign # None
    /\ Payloads = Partitions \cup Parts \cup {Grub} /\ Table \notin Payloads
    /\ MaxTries \in Nat \ {0} /\ {Volume} # None
BY ConstantsAssumption, ProgramAssumption

(* The abbreviations are expanded everywhere.                              *)
USE DEF Draft, Image, Loop, Idle, Ready, OnDraft, Written, WholeDraft, WholeDisk,
        host, memory, call, program, vars, allVars, GrubStages, EndStages

(* A method returns: the variables of the call have their types.           *)
LEMMA ReturnTypes ==
    ASSUME TypeOK, NEW r \in Outcomes, Return(r), UNCHANGED host,
           images' = None \/ images' \subseteq Volumes,
           loopDevices' \in [Volumes -> Devices \cup {None}],
           atexitRegistered' \in BOOLEAN, emitter' \in BOOLEAN
    PROVE  TypeOK'
<1>1. /\ todo' \subseteq Volumes /\ current' \in Volumes \cup {None} /\ tries' \in 0..MaxTries
      /\ listing' \in [Devices -> Volumes \cup {None, Foreign}]
  BY OneVolume DEF Return
<1> QED
  BY <1>1 DEF TypeOK, Ops, Return

LEMMA RecordedVolumes == TypeOK => (Recorded # {} <=> Loop # None) /\ Recorded \in SUBSET Volumes
BY OneVolume DEF Recorded, TypeOK

(* A loop begins.                                                          *)
LEMMA EnterTypes ==
    ASSUME TypeOK, NEW m \in Ops, NEW S \in SUBSET Volumes, Enter(m, S), UNCHANGED host,
           images' = None \/ images' \subseteq Volumes,
           UNCHANGED <<loopDevices, atexitRegistered>>, emitter' \in BOOLEAN,
           listing' \in [Devices -> Volumes \cup {None, Foreign}]
    PROVE  TypeOK'
<1>1. /\ todo' \subseteq Volumes /\ current' \in Volumes \cup {None} /\ tries' \in 0..MaxTries
      /\ outcome' \in Outcomes
  BY OneVolume DEF Enter, TypeOK
<1> QED
  BY <1>1 DEF TypeOK, Enter

(* The service creates the file.                                           *)
LEMMA CreateImageStep ==
    ASSUME RInv, NEW v \in Volumes, CreateZeroImage(v), UNCHANGED program
    PROVE  RInv'
<1> USE OneVolume DEF CreateZeroImage, RInv
<1>1. TypeOK'
  BY DEF TypeOK, Ops, Outcomes
<1>2. ProgramTypeOK'
  BY DEF ProgramTypeOK, TypeOK, LifecycleStages, PackStages
<1>3. Files' /\ Running' /\ InProgress' /\ Made'
  BY DEF Files, TypeOK, ProgramTypeOK, Running, InProgress, Recorded, Made
<1>4. AtStart' /\ AtCreate'
  BY DEF AtStart, AtCreate, TypeOK, ProgramTypeOK
<1>5. AtAttach'
  BY DEF AtAttach, AtCreate, AtStart, TypeOK, ProgramTypeOK
<1>6. AtWork'
  BY DEF AtWork, AtAttach, AtStart, TypeOK, ProgramTypeOK, Files
<1>7. AtDetach'
  BY DEF AtDetach, AtWork, TypeOK, ProgramTypeOK, Files
<1>8. AtFinalize' /\ AtGrub'
  BY DEF AtFinalize, AtGrub, InProgress, GrubStages, EndStages
<1>9. PublishedWhole'
  BY DEF PublishedWhole, Complete, AtFinalize, AtWork, AtGrub, TypeOK, ProgramTypeOK, Files
<1> QED
  BY <1>1, <1>2, <1>3, <1>4, <1>5, <1>6, <1>7, <1>8, <1>9

(* sfdisk writes the table.                                                *)
LEMMA CreateLayoutStep ==
    ASSUME RInv, CreateLayout, UNCHANGED program
    PROVE  RInv'
<1> USE OneVolume DEF CreateLayout, RInv
<1>1. TypeOK'
  <2>1. images = {} /\ current = Volume /\ hidden[Volume] # None
    BY DEF InProgress, AtCreate
  <2>2. content' \in [Inodes -> SUBSET (Payloads \cup {Table})]
    BY <2>1 DEF TypeOK
  <2>3. images' \subseteq Volumes
    BY <2>1
  <2> QED
    BY <2>1, <2>2, <2>3 DEF TypeOK, Ops
<1>2. ProgramTypeOK'
  BY DEF ProgramTypeOK, TypeOK, LifecycleStages, PackStages
<1>3. Files'
  BY DEF Files, TypeOK, ProgramTypeOK
<1>4. Running' /\ InProgress'
  BY DEF Running, InProgress, Recorded, TypeOK, ProgramTypeOK
<1>5. Made'
  BY DEF Made, Files, AtCreate, InProgress, TypeOK
<1>6. AtStart' /\ AtCreate' /\ AtAttach' /\ AtWork' /\ AtDetach' /\ AtFinalize' /\ AtGrub'
  BY DEF AtStart, AtCreate, TypeOK, ProgramTypeOK, AtAttach, AtWork, Files, AtDetach, AtFinalize, AtGrub
<1>7. PublishedWhole'
  BY DEF PublishedWhole, Complete, AtFinalize, AtWork, AtGrub, TypeOK, ProgramTypeOK, Files
<1> QED
  BY <1>1, <1>2, <1>3, <1>4, <1>5, <1>6, <1>7

(* create_images ends.                                                     *)
LEMMA CreateEndStep ==
    ASSUME RInv, CreateUnimplemented \/ CreateLayoutFails \/ CreateReturn, UNCHANGED program
    PROVE  RInv'
<1> USE OneVolume DEF CreateUnimplemented, CreateLayoutFails, CreateReturn, Return, RInv
<1>1. TypeOK'
  BY ReturnTypes DEF TypeOK, Outcomes
<1>2. ProgramTypeOK'
  BY DEF ProgramTypeOK, TypeOK, LifecycleStages, PackStages
<1>3. Files' /\ Running' /\ InProgress' /\ Made'
  BY DEF Files, TypeOK, ProgramTypeOK, Running, InProgress, Recorded, Made
<1>4. AtStart' /\ AtCreate' /\ AtAttach' /\ AtWork' /\ AtDetach' /\ AtFinalize' /\ AtGrub'
  BY DEF AtStart, AtCreate, TypeOK, ProgramTypeOK, AtAttach, AtWork, Files, AtDetach, AtFinalize, AtGrub
<1>5. PublishedWhole'
  BY DEF PublishedWhole, Complete, AtFinalize, AtWork, AtGrub, TypeOK, ProgramTypeOK, Files
<1> QED
  BY <1>1, <1>2, <1>3, <1>4, <1>5

(* A listed device is still on the file.                                   *)
LEMMA AttachReuseStep ==
    ASSUME RInv, NEW v \in Volumes, AttachReuse(v), UNCHANGED program
    PROVE  RInv'
<1> USE OneVolume DEF AttachReuse, Record, SameFile, RInv
<1>1. TypeOK'
  BY DEF TypeOK, Ops, Outcomes
<1>2. ProgramTypeOK'
  BY DEF ProgramTypeOK, TypeOK, LifecycleStages, PackStages
<1>3. Files' /\ Running' /\ InProgress' /\ Made'
  BY DEF Files, TypeOK, ProgramTypeOK, Running, InProgress, Recorded, Made
<1>4. AtStart' /\ AtCreate' /\ AtAttach' /\ AtWork' /\ AtDetach' /\ AtFinalize' /\ AtGrub'
  BY DEF AtStart, AtCreate, TypeOK, ProgramTypeOK, AtAttach, AtWork, Files, AtDetach, AtFinalize, AtGrub
<1>5. PublishedWhole'
  BY DEF PublishedWhole, Complete, AtFinalize, AtWork, AtGrub, TypeOK, ProgramTypeOK, Files
<1> QED
  BY <1>1, <1>2, <1>3, <1>4, <1>5

(* A device is attached.                                                   *)
LEMMA AttachFreshStep ==
    ASSUME RInv, NEW v \in Volumes, AttachFresh(v), UNCHANGED program
    PROVE  RInv'
<1> USE OneVolume DEF AttachFresh, Record, SameFile, RInv
<1>1. TypeOK'
  BY DEF TypeOK, Ops, Outcomes
<1>2. ProgramTypeOK'
  BY DEF ProgramTypeOK, TypeOK, LifecycleStages, PackStages
<1>3. Files' /\ Running' /\ InProgress' /\ Made'
  BY DEF Files, TypeOK, ProgramTypeOK, Running, InProgress, Recorded, Made
<1>4. AtStart' /\ AtCreate' /\ AtAttach' /\ AtWork' /\ AtDetach' /\ AtFinalize' /\ AtGrub'
  BY DEF AtStart, AtCreate, TypeOK, ProgramTypeOK, AtAttach, AtWork, Files, AtDetach, AtFinalize, AtGrub
<1>5. PublishedWhole'
  BY DEF PublishedWhole, Complete, AtFinalize, AtWork, AtGrub, TypeOK, ProgramTypeOK, Files
<1> QED
  BY <1>1, <1>2, <1>3, <1>4, <1>5

(* attach_images raises; no device is stale.                               *)
LEMMA AttachFailsStep ==
    ASSUME RInv, NEW v \in Volumes, AttachFails(v), UNCHANGED program
    PROVE  RInv'
<1> USE OneVolume DEF AttachFails, Return, StaleDevices, RInv
<1>1. TypeOK'
  <2>1. backing' = backing
    BY DEF AtAttach, InProgress, TypeOK
  <2> QED
    BY <2>1, ReturnTypes DEF TypeOK, Outcomes
<1>2. ProgramTypeOK'
  BY DEF ProgramTypeOK, TypeOK, LifecycleStages, PackStages
<1>3. Files' /\ Running' /\ InProgress' /\ Made'
  BY DEF Files, TypeOK, ProgramTypeOK, Running, InProgress, Recorded, Made
<1>4. AtStart' /\ AtCreate' /\ AtAttach' /\ AtWork' /\ AtDetach' /\ AtFinalize' /\ AtGrub'
  BY DEF AtStart, AtCreate, TypeOK, ProgramTypeOK, AtAttach, AtWork, Files, AtDetach, AtFinalize, AtGrub
<1>5. PublishedWhole'
  BY DEF PublishedWhole, Complete, AtFinalize, AtWork, AtGrub, TypeOK, ProgramTypeOK, Files
<1> QED
  BY <1>1, <1>2, <1>3, <1>4, <1>5

(* attach_images returns.                                                  *)
LEMMA AttachReturnStep ==
    ASSUME RInv, AttachReturn, UNCHANGED program
    PROVE  RInv'
<1> USE OneVolume DEF AttachReturn, Return, RInv
<1>1. TypeOK'
  BY ReturnTypes DEF TypeOK, Outcomes
<1>2. ProgramTypeOK'
  BY DEF ProgramTypeOK, TypeOK, LifecycleStages, PackStages
<1>3. Files' /\ Running' /\ InProgress' /\ Made'
  BY DEF Files, TypeOK, ProgramTypeOK, Running, InProgress, Recorded, Made
<1>4. AtStart' /\ AtCreate' /\ AtAttach' /\ AtWork' /\ AtDetach' /\ AtFinalize' /\ AtGrub'
  BY DEF AtStart, AtCreate, TypeOK, ProgramTypeOK, AtAttach, AtWork, Files, AtDetach, AtFinalize, AtGrub
<1>5. PublishedWhole'
  BY DEF PublishedWhole, Complete, AtFinalize, AtWork, AtGrub, TypeOK, ProgramTypeOK, Files
<1> QED
  BY <1>1, <1>2, <1>3, <1>4, <1>5

(* A device is detached.                                                   *)
LEMMA DetachTryStep ==
    ASSUME RInv, NEW v \in Volumes, DetachTry(v), UNCHANGED program
    PROVE  RInv'
<1> USE OneVolume DEF DetachTry, RunExecutes, RInv
<1>1. TypeOK'
  <2>1. loopDevices[v] \in Devices
    BY DEF InProgress, Recorded, TypeOK
  <2> QED
    BY <2>1 DEF TypeOK
<1>2. ProgramTypeOK'
  BY DEF ProgramTypeOK, TypeOK, LifecycleStages, PackStages
<1>3. Files' /\ Running' /\ InProgress' /\ Made'
  BY DEF Files, TypeOK, ProgramTypeOK, Running, InProgress, Recorded, Made
<1>4. AtStart' /\ AtCreate' /\ AtAttach' /\ AtWork' /\ AtDetach' /\ AtFinalize' /\ AtGrub'
  BY DEF AtStart, AtCreate, TypeOK, ProgramTypeOK, AtAttach, AtWork, Files, AtDetach, AtFinalize, AtGrub
<1>5. PublishedWhole'
  BY DEF PublishedWhole, Complete, AtFinalize, AtWork, AtGrub, TypeOK, ProgramTypeOK, Files
<1> QED
  BY <1>1, <1>2, <1>3, <1>4, <1>5

(* A detach fails, or is given up.                                         *)
LEMMA DetachLoopStep ==
    ASSUME RInv, NEW v \in Volumes, DetachFails(v) \/ DetachGiveUp(v), UNCHANGED program
    PROVE  RInv'
<1> USE OneVolume DEF DetachFails, DetachGiveUp, RInv
<1>1. TypeOK'
  <2>1. CASE DetachFails(v)
    BY <2>1 DEF TypeOK
  <2>2. CASE DetachGiveUp(v)
    BY <2>2 DEF TypeOK
  <2> QED
    BY <2>1, <2>2
<1>2. ProgramTypeOK'
  BY DEF ProgramTypeOK, TypeOK, LifecycleStages, PackStages
<1>3. Files' /\ Running' /\ InProgress' /\ Made'
  BY DEF Files, TypeOK, ProgramTypeOK, Running, InProgress, Recorded, Made
<1>4. AtStart' /\ AtCreate' /\ AtAttach' /\ AtWork' /\ AtDetach' /\ AtFinalize' /\ AtGrub'
  BY DEF AtStart, AtCreate, TypeOK, ProgramTypeOK, AtAttach, AtWork, Files, AtDetach, AtFinalize, AtGrub
<1>5. PublishedWhole'
  BY DEF PublishedWhole, Complete, AtFinalize, AtWork, AtGrub, TypeOK, ProgramTypeOK, Files
<1> QED
  BY <1>1, <1>2, <1>3, <1>4, <1>5

(* detach_images returns.                                                  *)
LEMMA DetachReturnStep ==
    ASSUME RInv, DetachReturn, UNCHANGED program
    PROVE  RInv'
<1> USE OneVolume DEF DetachReturn, Return, RInv
<1>1. TypeOK'
  BY ReturnTypes DEF TypeOK, Outcomes
<1>2. ProgramTypeOK'
  BY DEF ProgramTypeOK, TypeOK, LifecycleStages, PackStages
<1>3. Files' /\ Running' /\ InProgress' /\ Made'
  BY DEF Files, TypeOK, ProgramTypeOK, Running, InProgress, Recorded, Made
<1>4. AtStart' /\ AtCreate' /\ AtAttach' /\ AtWork' /\ AtDetach' /\ AtFinalize' /\ AtGrub'
  BY DEF AtStart, AtCreate, TypeOK, ProgramTypeOK, AtAttach, AtWork, Files, AtDetach, AtFinalize, AtGrub
<1>5. PublishedWhole'
  BY DEF PublishedWhole, Complete, AtFinalize, AtWork, AtGrub, TypeOK, ProgramTypeOK, Files
<1> QED
  BY <1>1, <1>2, <1>3, <1>4, <1>5

(* The image is renamed.                                                   *)
LEMMA FinalizeRenameStep ==
    ASSUME RInv, NEW v \in Volumes, FinalizeRename(v), UNCHANGED program
    PROVE  RInv'
<1> USE OneVolume DEF FinalizeRename, RInv
<1>1. TypeOK'
  BY DEF TypeOK, Ops, Outcomes
<1>2. ProgramTypeOK'
  BY DEF ProgramTypeOK, TypeOK, LifecycleStages, PackStages
<1>3. Files' /\ Running' /\ InProgress' /\ Made'
  BY DEF Files, TypeOK, ProgramTypeOK, Running, InProgress, Recorded, Made
<1>4. AtStart' /\ AtCreate' /\ AtAttach' /\ AtWork' /\ AtDetach' /\ AtFinalize' /\ AtGrub'
  BY DEF AtStart, AtCreate, TypeOK, ProgramTypeOK, AtAttach, AtWork, Files, AtDetach, AtFinalize, AtGrub
<1>5. PublishedWhole'
  <2>1. WholeDraft /\ partsHere \subseteq content[Draft]
    BY DEF AtFinalize, InProgress
  <2>2. final'[Volume] = Draft /\ content' = content
    BY DEF TypeOK
  <2> QED
    BY <2>1, <2>2 DEF PublishedWhole, Complete
<1> QED
  BY <1>1, <1>2, <1>3, <1>4, <1>5

(* The copy begins.                                                        *)
LEMMA FinalizeCopyStep ==
    ASSUME RInv, NEW v \in Volumes, FinalizeCopy(v), UNCHANGED program
    PROVE  RInv'
<1> USE OneVolume DEF FinalizeCopy, RInv
<1>1. TypeOK'
  BY DEF TypeOK, Ops, Outcomes
<1>2. ProgramTypeOK'
  BY DEF ProgramTypeOK, TypeOK, LifecycleStages, PackStages
<1>3. Files' /\ Running' /\ InProgress' /\ Made'
  BY DEF Files, TypeOK, ProgramTypeOK, Running, InProgress, Recorded, Made
<1>4. AtStart' /\ AtCreate' /\ AtAttach' /\ AtWork' /\ AtDetach' /\ AtFinalize' /\ AtGrub'
  BY DEF AtStart, AtCreate, TypeOK, ProgramTypeOK, AtAttach, AtWork, Files, AtDetach, AtFinalize, AtGrub
<1>5. PublishedWhole'
  BY DEF PublishedWhole, Complete, AtFinalize, AtWork, AtGrub, TypeOK, ProgramTypeOK, Files
<1> QED
  BY <1>1, <1>2, <1>3, <1>4, <1>5

(* The copy is complete.                                                   *)
LEMMA FinalizeCopiedStep ==
    ASSUME RInv, FinalizeCopied, UNCHANGED program
    PROVE  RInv'
<1> USE OneVolume DEF FinalizeCopied, RInv
<1>1. TypeOK'
  <2>1. current \in Volumes /\ hidden[current] \in Inodes /\ final[current] \in Inodes
    BY DEF InProgress, AtFinalize, TypeOK
  <2>2. content' \in [Inodes -> SUBSET (Payloads \cup {Table})]
    BY <2>1 DEF TypeOK
  <2> QED
    BY <2>1, <2>2 DEF TypeOK, Ops
<1>2. ProgramTypeOK'
  BY DEF ProgramTypeOK, TypeOK, LifecycleStages, PackStages
<1>3. Files'
  BY DEF Files, TypeOK, ProgramTypeOK
<1>4. Running' /\ InProgress'
  BY DEF Running, InProgress, Recorded, TypeOK, ProgramTypeOK
<1>5. Made'
  BY DEF Made, Files, AtFinalize, InProgress, TypeOK
<1>6. AtStart' /\ AtCreate'
  BY DEF AtStart, AtCreate, TypeOK, ProgramTypeOK
<1>7. AtAttach'
  BY DEF AtAttach, AtCreate, AtStart, TypeOK, ProgramTypeOK
<1>8. AtWork'
  BY DEF AtWork, AtAttach, AtStart, TypeOK, ProgramTypeOK, Files
<1>9. AtDetach'
  BY DEF AtDetach, AtWork, TypeOK, ProgramTypeOK, Files
<1>10. AtFinalize' /\ AtGrub'
  <2>1. /\ stage = "finalize" /\ todo = {Volume} /\ current = Volume /\ CrossDevice
        /\ Image # None /\ Draft # None /\ Image \in Inodes
        /\ {Table} \cup Partitions \cup partsHere \subseteq content[Draft]
    BY DEF AtFinalize, InProgress, TypeOK
  <2>2. content'[Image] = content[Draft]
    BY <2>1 DEF TypeOK
  <2> QED
    BY <2>1, <2>2 DEF AtFinalize, AtGrub, InProgress
<1>11. PublishedWhole'
  BY DEF PublishedWhole, AtFinalize, InProgress
<1> QED
  BY <1>1, <1>2, <1>3, <1>4, <1>5, <1>6, <1>7, <1>8, <1>9, <1>10, <1>11

(* The source of the copy is unlinked.                                     *)
LEMMA FinalizeUnlinkStep ==
    ASSUME RInv, FinalizeUnlink, UNCHANGED program
    PROVE  RInv'
<1> USE OneVolume DEF FinalizeUnlink, RInv
<1>1. TypeOK'
  BY DEF TypeOK, Ops, Outcomes
<1>2. ProgramTypeOK'
  BY DEF ProgramTypeOK, TypeOK, LifecycleStages, PackStages
<1>3. Files' /\ Running' /\ InProgress' /\ Made'
  BY DEF Files, TypeOK, ProgramTypeOK, Running, InProgress, Recorded, Made
<1>4. AtStart' /\ AtCreate' /\ AtAttach' /\ AtWork' /\ AtDetach'
  BY DEF AtStart, AtCreate, TypeOK, ProgramTypeOK, AtAttach, AtWork, AtDetach, InProgress
<1>5. AtFinalize' /\ AtGrub'
  BY DEF AtFinalize, AtGrub, InProgress, TypeOK
<1>6. PublishedWhole'
  BY DEF PublishedWhole, AtFinalize, InProgress
<1> QED
  BY <1>1, <1>2, <1>3, <1>4, <1>5, <1>6

(* finalize_images ends.                                                   *)
LEMMA FinalizeEndStep ==
    ASSUME RInv, FinalizeFails \/ FinalizeReturn, UNCHANGED program
    PROVE  RInv'
<1> USE OneVolume DEF FinalizeFails, FinalizeReturn, Return, RInv
<1>1. TypeOK'
  BY ReturnTypes DEF TypeOK, Outcomes
<1>2. ProgramTypeOK'
  BY DEF ProgramTypeOK, TypeOK, LifecycleStages, PackStages
<1>3. Files' /\ Running' /\ InProgress' /\ Made'
  BY DEF Files, TypeOK, ProgramTypeOK, Running, InProgress, Recorded, Made
<1>4. AtStart' /\ AtCreate' /\ AtAttach' /\ AtWork' /\ AtDetach' /\ AtFinalize' /\ AtGrub'
  BY DEF AtStart, AtCreate, TypeOK, ProgramTypeOK, AtAttach, AtWork, Files, AtDetach, AtFinalize, AtGrub
<1>5. PublishedWhole'
  BY DEF PublishedWhole, Complete, AtFinalize, AtWork, AtGrub, TypeOK, ProgramTypeOK, Files
<1> QED
  BY <1>1, <1>2, <1>3, <1>4, <1>5

(* The prologue calls create_images.                                       *)
LEMMA PrologueCreateStep ==
    ASSUME RInv, PrologueCreate
    PROVE  RInv'
<1> USE OneVolume DEF PrologueCreate, Call, Goto, Create, CreateCached, CreateBegin, Callable, Enter, Return, RInv
<1>1. TypeOK'
  <2>1. CASE CreateCached
    BY <2>1, ReturnTypes DEF TypeOK, Outcomes
  <2>2. CASE CreateBegin
    BY <2>2, EnterTypes DEF TypeOK, Ops
  <2> QED
    BY <2>1, <2>2
<1>2. ProgramTypeOK'
  BY DEF ProgramTypeOK, TypeOK, LifecycleStages, PackStages
<1>3. Files' /\ Running' /\ InProgress' /\ Made'
  BY DEF Files, TypeOK, ProgramTypeOK, Running, InProgress, Recorded, Made
<1>4. AtStart' /\ AtCreate' /\ AtAttach' /\ AtWork' /\ AtDetach' /\ AtFinalize' /\ AtGrub'
  BY DEF AtStart, AtCreate, TypeOK, ProgramTypeOK, AtAttach, AtWork, Files, AtDetach, AtFinalize, AtGrub
<1>5. PublishedWhole'
  BY DEF PublishedWhole, Complete, AtFinalize, AtWork, AtGrub, TypeOK, ProgramTypeOK, Files
<1> QED
  BY <1>1, <1>2, <1>3, <1>4, <1>5

(* The prologue calls attach_images.                                       *)
LEMMA PrologueAttachStep ==
    ASSUME RInv, PrologueAttach
    PROVE  RInv'
<1> USE OneVolume DEF PrologueAttach, Call, Goto, Attach, AttachCached, AttachWithoutImages, AttachBegin, BackFile, Recorded, Callable, Enter, Return, RInv
<1>1. TypeOK'
  <2>1. CASE AttachCached \/ AttachWithoutImages
    BY <2>1, ReturnTypes DEF TypeOK, Outcomes
  <2>2. CASE AttachBegin
    <3>1. listing' \in [Devices -> Volumes \cup {None, Foreign}]
      BY <2>2 DEF TypeOK
    <3> QED
      BY <2>2, <3>1, EnterTypes DEF TypeOK, Ops
  <2> QED
    BY <2>1, <2>2
<1>2. ProgramTypeOK'
  BY DEF ProgramTypeOK, TypeOK, LifecycleStages, PackStages
<1>3. Files' /\ Running' /\ InProgress' /\ Made'
  BY DEF Files, TypeOK, ProgramTypeOK, Running, InProgress, Recorded, Made
<1>4. AtStart' /\ AtCreate' /\ AtAttach' /\ AtWork' /\ AtDetach' /\ AtFinalize' /\ AtGrub'
  BY DEF AtStart, AtCreate, TypeOK, ProgramTypeOK, AtAttach, AtWork, Files, AtDetach, AtFinalize, AtGrub
<1>5. PublishedWhole'
  BY DEF PublishedWhole, Complete, AtFinalize, AtWork, AtGrub, TypeOK, ProgramTypeOK, Files
<1> QED
  BY <1>1, <1>2, <1>3, <1>4, <1>5

(* The lifecycle goes on.                                                  *)
LEMMA QuietSteps ==
    ASSUME RInv, PrologueDone \/ PrologueFails \/ PartFails \/ LifecycleDone
    PROVE  RInv'
<1> USE OneVolume DEF PrologueDone, PrologueFails, Raised, PartFails, LifecycleDone, Goto, RInv
<1>1. TypeOK'
  BY DEF TypeOK, Ops, Outcomes
<1>2. ProgramTypeOK'
  BY DEF ProgramTypeOK, TypeOK, LifecycleStages, PackStages
<1>3. Files'
  BY DEF Files, TypeOK, ProgramTypeOK
<1>4. Running' /\ InProgress'
  BY DEF Running, InProgress, AtWork
<1>5. Made'
  BY DEF Made, Files, TypeOK
<1>6. AtStart' /\ AtCreate' /\ AtAttach' /\ AtWork' /\ AtDetach' /\ AtFinalize' /\ AtGrub'
  BY DEF AtStart, AtCreate, TypeOK, ProgramTypeOK, AtAttach, AtWork, Files, AtDetach, AtFinalize, AtGrub
<1>7. PublishedWhole'
  BY DEF PublishedWhole, Complete, AtFinalize, AtWork, AtGrub, TypeOK, ProgramTypeOK, Files
<1> QED
  BY <1>1, <1>2, <1>3, <1>4, <1>5, <1>6, <1>7

(* Pack goes on.                                                           *)
LEMMA PackQuietSteps ==
    ASSUME RInv, PackFails \/ PackAttached \/ DetachedAfterError \/ MovedImages
    PROVE  RInv'
<1> USE OneVolume DEF PackFails, Raised, PackAttached, DetachedAfterError, MovedImages, Goto, RInv
<1>1. TypeOK'
  BY DEF TypeOK, Ops, Outcomes
<1>2. ProgramTypeOK'
  BY DEF ProgramTypeOK, TypeOK, LifecycleStages, PackStages
<1>3. Files' /\ Running' /\ InProgress' /\ Made'
  BY DEF Files, TypeOK, ProgramTypeOK, Running, InProgress, Recorded, Made
<1>4. AtStart' /\ AtCreate' /\ AtAttach' /\ AtWork' /\ AtDetach' /\ AtFinalize' /\ AtGrub'
  BY DEF AtStart, AtCreate, TypeOK, ProgramTypeOK, AtAttach, AtWork, Files, AtDetach, AtFinalize, AtGrub
<1>5. PublishedWhole'
  BY DEF PublishedWhole, Complete, AtFinalize, AtWork, AtGrub, TypeOK, ProgramTypeOK, Files
<1> QED
  BY <1>1, <1>2, <1>3, <1>4, <1>5

(* A part writes to the draft.                                             *)
LEMMA PartStep ==
    ASSUME RInv, NEW p \in Parts, PartRuns(p)
    PROVE  RInv'
<1> USE OneVolume DEF PartRuns, ClientWrite, Callable, RInv
<1>1. TypeOK'
  BY DEF TypeOK, Ops, Outcomes
<1>2. ProgramTypeOK'
  BY DEF ProgramTypeOK, TypeOK, LifecycleStages, PackStages
<1>3. Files' /\ Running' /\ InProgress' /\ Made'
  BY DEF Files, TypeOK, ProgramTypeOK, Running, InProgress, Recorded, Made
<1>4. AtStart' /\ AtCreate' /\ AtAttach' /\ AtWork' /\ AtDetach' /\ AtFinalize' /\ AtGrub'
  BY DEF AtStart, AtCreate, TypeOK, ProgramTypeOK, AtAttach, AtWork, Files, AtDetach, AtFinalize, AtGrub
<1>5. PublishedWhole'
  BY DEF PublishedWhole, Complete, AtFinalize, AtWork, AtGrub, TypeOK, ProgramTypeOK, Files
<1> QED
  BY <1>1, <1>2, <1>3, <1>4, <1>5

(* The second calls find everything done.                                  *)
LEMMA PackCallsStep ==
    ASSUME RInv, PackCreate \/ PackAttach
    PROVE  RInv'
<1> USE OneVolume DEF PackCreate, PackAttach, Call, Goto, Create, CreateCached, CreateBegin, Attach, AttachCached, AttachWithoutImages, AttachBegin, Callable, Return, RInv
<1>1. TypeOK'
  <2>1. images = {Volume} /\ Recorded # {}
    BY RecordedVolumes DEF AtWork
  <2> QED
    BY <2>1, ReturnTypes DEF TypeOK, Outcomes
<1>2. ProgramTypeOK'
  BY DEF ProgramTypeOK, TypeOK, LifecycleStages, PackStages
<1>3. Files'
  BY DEF Files, TypeOK, ProgramTypeOK
<1>4. Running' /\ InProgress'
  <2>1. images = {Volume} /\ Recorded # {}
    BY RecordedVolumes DEF AtWork
  <2> QED
    BY <2>1 DEF Running, InProgress, AtWork
<1>5. Made'
  BY DEF Made, Files, TypeOK
<1>6. AtStart' /\ AtCreate'
  BY DEF AtStart, AtCreate, TypeOK, ProgramTypeOK
<1>7. AtAttach'
  BY DEF AtAttach, AtCreate, AtStart, TypeOK, ProgramTypeOK
<1>8. AtWork'
  <2>1. images = {Volume} /\ Recorded # {}
    BY RecordedVolumes DEF AtWork
  <2> QED
    BY <2>1 DEF AtWork
<1>9. AtDetach'
  BY DEF AtDetach, AtWork, TypeOK, ProgramTypeOK, Files
<1>10. AtFinalize' /\ AtGrub'
  BY DEF AtFinalize, AtGrub, AtDetach, TypeOK, ProgramTypeOK, Files
<1>11. PublishedWhole'
  BY DEF PublishedWhole, Complete, AtFinalize, AtWork, AtGrub, TypeOK, ProgramTypeOK, Files
<1> QED
  BY <1>1, <1>2, <1>3, <1>4, <1>5, <1>6, <1>7, <1>8, <1>9, <1>10, <1>11

(* A partition is formatted in the draft.                                  *)
LEMMA FormatStep ==
    ASSUME RInv, NEW p \in Partitions, Format(p)
    PROVE  RInv'
<1> USE OneVolume DEF Format, ClientWrite, Callable, RInv
<1>1. TypeOK'
  BY DEF TypeOK, Ops, Outcomes
<1>2. ProgramTypeOK'
  BY DEF ProgramTypeOK, TypeOK, LifecycleStages, PackStages
<1>3. Files' /\ Running' /\ InProgress' /\ Made'
  BY DEF Files, TypeOK, ProgramTypeOK, Running, InProgress, Recorded, Made
<1>4. AtStart' /\ AtCreate' /\ AtAttach' /\ AtWork' /\ AtDetach' /\ AtFinalize' /\ AtGrub'
  BY DEF AtStart, AtCreate, TypeOK, ProgramTypeOK, AtAttach, AtWork, Files, AtDetach, AtFinalize, AtGrub
<1>5. PublishedWhole'
  BY DEF PublishedWhole, Complete, AtFinalize, AtWork, AtGrub, TypeOK, ProgramTypeOK, Files
<1> QED
  BY <1>1, <1>2, <1>3, <1>4, <1>5

(* The finally clause.                                                     *)
LEMMA DetachBeginSteps ==
    ASSUME RInv, FormatFails \/ Detach
    PROVE  RInv'
<1> USE OneVolume DEF FormatFails, Detach, DetachBegin, Enter, RInv
<1>1. TypeOK'
  <2>1. Enter("detach", Recorded) /\ UNCHANGED <<host, memory, emitter, listing>>
    OBVIOUS
  <2> QED
    BY <2>1, RecordedVolumes, EnterTypes DEF TypeOK, Ops
<1>2. ProgramTypeOK'
  BY DEF ProgramTypeOK, TypeOK, LifecycleStages, PackStages
<1>3. Files' /\ Running' /\ InProgress' /\ Made'
  BY DEF Files, TypeOK, ProgramTypeOK, Running, InProgress, Recorded, Made
<1>4. AtStart' /\ AtCreate'
  BY DEF AtStart, AtCreate, TypeOK, ProgramTypeOK
<1>5. AtAttach'
  BY DEF AtAttach, AtCreate, AtStart, TypeOK, ProgramTypeOK
<1>6. AtWork'
  BY DEF AtWork, AtAttach, AtStart, TypeOK, ProgramTypeOK, Files
<1>7. AtDetach'
  <2>1. images = {Volume} /\ Ready /\ Written /\ OnDraft /\ Recorded = {Volume}
    BY RecordedVolumes DEF AtWork
  <2> QED
    BY <2>1 DEF AtDetach, AtWork
<1>8. AtFinalize' /\ AtGrub'
  BY DEF AtFinalize, AtGrub, AtDetach, TypeOK, ProgramTypeOK, Files
<1>9. PublishedWhole'
  BY DEF PublishedWhole, Complete, AtFinalize, AtWork, AtGrub, TypeOK, ProgramTypeOK, Files
<1> QED
  BY <1>1, <1>2, <1>3, <1>4, <1>5, <1>6, <1>7, <1>8, <1>9

(* The tables are verified.                                                *)
LEMMA VerifyStep ==
    ASSUME RInv, Verify
    PROVE  RInv'
<1> USE OneVolume DEF Verify, Call, Goto, VerifyImages, Callable, Return, RInv
<1>1. TypeOK'
  BY ReturnTypes DEF TypeOK, Outcomes
<1>2. ProgramTypeOK'
  BY DEF ProgramTypeOK, TypeOK, LifecycleStages, PackStages
<1>3. Files' /\ Running' /\ InProgress' /\ Made'
  BY DEF Files, TypeOK, ProgramTypeOK, Running, InProgress, Recorded, Made
<1>4. AtStart' /\ AtCreate' /\ AtAttach' /\ AtWork' /\ AtDetach' /\ AtFinalize' /\ AtGrub'
  BY DEF AtStart, AtCreate, TypeOK, ProgramTypeOK, AtAttach, AtWork, Files, AtDetach, AtFinalize, AtGrub
<1>5. PublishedWhole'
  BY DEF PublishedWhole, Complete, AtFinalize, AtWork, AtGrub, TypeOK, ProgramTypeOK, Files
<1> QED
  BY <1>1, <1>2, <1>3, <1>4, <1>5

(* The whole draft is moved.                                               *)
LEMMA MoveStep ==
    ASSUME RInv, MoveImages
    PROVE  RInv'
<1> USE OneVolume DEF MoveImages, Call, Goto, Finalize, FinalizeWithoutImages, FinalizeBegin, Callable, Enter, Return, RInv
<1>1. TypeOK'
  <2>1. CASE FinalizeWithoutImages
    BY <2>1, ReturnTypes DEF TypeOK, Outcomes
  <2>2. CASE FinalizeBegin
    BY <2>2, EnterTypes DEF TypeOK, Ops
  <2> QED
    BY <2>1, <2>2
<1>2. ProgramTypeOK'
  BY DEF ProgramTypeOK, TypeOK, LifecycleStages, PackStages
<1>3. Files'
  BY DEF Files, TypeOK, ProgramTypeOK
<1>4. Running' /\ InProgress'
  <2>1. CASE FinalizeWithoutImages
    BY <2>1 DEF Running, InProgress
  <2>2. CASE FinalizeBegin
    BY <2>2 DEF Running, InProgress
  <2> QED
    BY <2>1, <2>2
<1>5. Made'
  BY DEF Made, Files, TypeOK
<1>6. AtStart' /\ AtCreate' /\ AtAttach' /\ AtWork' /\ AtDetach' /\ AtFinalize' /\ AtGrub'
  BY DEF AtStart, AtCreate, TypeOK, ProgramTypeOK, AtAttach, AtWork, Files, AtDetach, AtFinalize, AtGrub
<1>7. PublishedWhole'
  BY DEF PublishedWhole, Complete, AtFinalize, AtWork, AtGrub, TypeOK, ProgramTypeOK, Files
<1> QED
  BY <1>1, <1>2, <1>3, <1>4, <1>5, <1>6, <1>7

(* The image at the destination is attached.                               *)
LEMMA GrubAttachStep ==
    ASSUME RInv, GrubAttach
    PROVE  RInv'
<1> USE OneVolume DEF GrubAttach, RInv
<1>1. TypeOK'
  BY DEF TypeOK, Ops, Outcomes
<1>2. ProgramTypeOK'
  BY DEF ProgramTypeOK, TypeOK, LifecycleStages, PackStages
<1>3. Files' /\ Running' /\ InProgress' /\ Made'
  BY DEF Files, TypeOK, ProgramTypeOK, Running, InProgress, Recorded, Made
<1>4. AtStart' /\ AtCreate' /\ AtAttach' /\ AtWork' /\ AtDetach' /\ AtFinalize' /\ AtGrub'
  BY DEF AtStart, AtCreate, TypeOK, ProgramTypeOK, AtAttach, AtWork, Files, AtDetach, AtFinalize, AtGrub
<1>5. PublishedWhole'
  BY DEF PublishedWhole, Complete, AtFinalize, AtWork, AtGrub, TypeOK, ProgramTypeOK, Files
<1> QED
  BY <1>1, <1>2, <1>3, <1>4, <1>5

(* GRUB is added to it.                                                    *)
LEMMA GrubInstallStep ==
    ASSUME RInv, GrubInstall
    PROVE  RInv'
<1> USE OneVolume DEF GrubInstall, RInv
<1>1. TypeOK'
  BY DEF TypeOK, Ops, Outcomes
<1>2. ProgramTypeOK'
  BY DEF ProgramTypeOK, TypeOK, LifecycleStages, PackStages
<1>3. Files'
  BY DEF Files, TypeOK, ProgramTypeOK
<1>4. Running' /\ InProgress'
  BY DEF Running, InProgress, Recorded, TypeOK, ProgramTypeOK
<1>5. Made'
  BY DEF Made, Files, AtGrub, TypeOK
<1>6. AtStart' /\ AtCreate' /\ AtAttach' /\ AtWork' /\ AtDetach' /\ AtFinalize' /\ AtGrub'
  BY DEF AtStart, AtCreate, TypeOK, ProgramTypeOK, AtAttach, AtWork, Files, AtDetach, AtFinalize, AtGrub
<1>7. PublishedWhole'
  BY DEF PublishedWhole, Complete, AtFinalize, AtWork, AtGrub, TypeOK, ProgramTypeOK, Files
<1> QED
  BY <1>1, <1>2, <1>3, <1>4, <1>5, <1>6, <1>7

(* The child comes to its end.                                             *)
LEMMA GrubChildStep ==
    ASSUME RInv, GrubChild
    PROVE  RInv'
<1> USE OneVolume DEF GrubChild, RInv
<1>1. TypeOK'
  BY DEF TypeOK, Ops, Outcomes
<1>2. ProgramTypeOK'
  BY DEF ProgramTypeOK, TypeOK, LifecycleStages, PackStages
<1>3. Files' /\ Running' /\ InProgress' /\ Made'
  BY DEF Files, TypeOK, ProgramTypeOK, Running, InProgress, Recorded, Made
<1>4. AtStart' /\ AtCreate' /\ AtAttach' /\ AtWork' /\ AtDetach' /\ AtFinalize' /\ AtGrub'
  BY DEF AtStart, AtCreate, TypeOK, ProgramTypeOK, AtAttach, AtWork, Files, AtDetach, AtFinalize, AtGrub
<1>5. PublishedWhole'
  BY DEF PublishedWhole, Complete, AtFinalize, AtWork, AtGrub, TypeOK, ProgramTypeOK, Files
<1> QED
  BY <1>1, <1>2, <1>3, <1>4, <1>5

(* Its devices are detached.                                               *)
LEMMA GrubDetachStep ==
    ASSUME RInv, NEW d \in Devices, GrubDetach(d)
    PROVE  RInv'
<1> USE OneVolume DEF GrubDetach, RInv
<1>1. TypeOK'
  BY DEF TypeOK, Ops, Outcomes
<1>2. ProgramTypeOK'
  BY DEF ProgramTypeOK, TypeOK, LifecycleStages, PackStages
<1>3. Files' /\ Running' /\ InProgress' /\ Made'
  BY DEF Files, TypeOK, ProgramTypeOK, Running, InProgress, Recorded, Made
<1>4. AtStart' /\ AtCreate' /\ AtAttach' /\ AtWork' /\ AtDetach' /\ AtFinalize' /\ AtGrub'
  BY DEF AtStart, AtCreate, TypeOK, ProgramTypeOK, AtAttach, AtWork, Files, AtDetach, AtFinalize, AtGrub
<1>5. PublishedWhole'
  BY DEF PublishedWhole, Complete, AtFinalize, AtWork, AtGrub, TypeOK, ProgramTypeOK, Files
<1> QED
  BY <1>1, <1>2, <1>3, <1>4, <1>5

(* setup_grub ends.                                                        *)
LEMMA GrubQuietSteps ==
    ASSUME RInv, GrubSkipped \/ GrubAttachFails \/ GrubDetachFails \/ GrubDetached
    PROVE  RInv'
<1> USE OneVolume DEF GrubSkipped, GrubAttachFails, GrubDetachFails, GrubDetached, Goto, Fail, RInv
<1>1. TypeOK'
  BY DEF TypeOK, Ops, Outcomes
<1>2. ProgramTypeOK'
  BY DEF ProgramTypeOK, TypeOK, LifecycleStages, PackStages
<1>3. Files'
  BY DEF Files, TypeOK, ProgramTypeOK
<1>4. Running' /\ InProgress'
  BY DEF Running, InProgress, AtGrub
<1>5. Made'
  BY DEF Made, Files, TypeOK
<1>6. AtStart' /\ AtCreate' /\ AtAttach' /\ AtWork' /\ AtDetach' /\ AtFinalize' /\ AtGrub'
  BY DEF AtStart, AtCreate, TypeOK, ProgramTypeOK, AtAttach, AtWork, Files, AtDetach, AtFinalize, AtGrub
<1>7. PublishedWhole'
  BY DEF PublishedWhole, Complete, AtFinalize, AtWork, AtGrub, TypeOK, ProgramTypeOK, Files
<1> QED
  BY <1>1, <1>2, <1>3, <1>4, <1>5, <1>6, <1>7

(* Ctrl-C.                                                                 *)
LEMMA InterruptStep ==
    ASSUME RInv, Interrupt
    PROVE  RInv'
<1> USE OneVolume DEF Interrupt, MethodInterrupted, Return, Fail, RInv
<1>1. TypeOK'
  <2>1. backing' \in [Devices -> Inodes \cup {None, Foreign}]
    BY DEF AtGrub, TypeOK
  <2> QED
    BY <2>1 DEF TypeOK, Ops, Outcomes
<1>2. ProgramTypeOK'
  BY DEF ProgramTypeOK, TypeOK, LifecycleStages, PackStages
<1>3. Files' /\ Running' /\ InProgress' /\ Made'
  BY DEF Files, TypeOK, ProgramTypeOK, Running, InProgress, Recorded, Made
<1>4. AtStart' /\ AtCreate' /\ AtAttach' /\ AtWork' /\ AtDetach' /\ AtFinalize' /\ AtGrub'
  BY DEF AtStart, AtCreate, TypeOK, ProgramTypeOK, AtAttach, AtWork, Files, AtDetach, AtFinalize, AtGrub
<1>5. PublishedWhole'
  BY DEF PublishedWhole, Complete, AtFinalize, AtWork, AtGrub, TypeOK, ProgramTypeOK, Files
<1> QED
  BY <1>1, <1>2, <1>3, <1>4, <1>5

(* The program ends.                                                       *)
LEMMA ExitStep ==
    ASSUME RInv, ProgramExit
    PROVE  RInv'
<1> USE OneVolume DEF ProgramExit, Exit, Enter, Return, Callable, Goto, RInv
<1>1. TypeOK'
  <2>1. CASE atexitRegistered
    <3>1. Enter("detach", Recorded) /\ UNCHANGED <<host, memory, listing>> /\ emitter' = FALSE
      BY <2>1
    <3> QED
      BY <3>1, RecordedVolumes, EnterTypes DEF TypeOK, Ops
  <2>2. CASE ~atexitRegistered
    BY <2>2, ReturnTypes DEF TypeOK, Outcomes
  <2> QED
    BY <2>1, <2>2
<1>2. ProgramTypeOK'
  BY DEF ProgramTypeOK, TypeOK, LifecycleStages, PackStages
<1>3. Files' /\ Running' /\ InProgress' /\ Made'
  BY DEF Files, TypeOK, ProgramTypeOK, Running, InProgress, Recorded, Made
<1>4. AtStart' /\ AtCreate' /\ AtAttach' /\ AtWork' /\ AtDetach' /\ AtFinalize' /\ AtGrub'
  BY DEF AtStart, AtCreate, TypeOK, ProgramTypeOK, AtAttach, AtWork, Files, AtDetach, AtFinalize, AtGrub
<1>5. PublishedWhole'
  BY DEF PublishedWhole, Complete, AtFinalize, AtWork, AtGrub, TypeOK, ProgramTypeOK, Files
<1> QED
  BY <1>1, <1>2, <1>3, <1>4, <1>5

(* The next process finds files and devices.                               *)
LEMMA NewProcessStep ==
    ASSUME RInv, NewProcess
    PROVE  RInv'
<1> USE OneVolume DEF NewProcess, Restart, Fresh, Return, RInv
<1>1. TypeOK'
  <2>1. loopDevices' \in [Volumes -> Devices \cup {None}]
    OBVIOUS
  <2> QED
    BY <2>1, ReturnTypes DEF TypeOK, Outcomes
<1>2. ProgramTypeOK'
  BY DEF ProgramTypeOK, TypeOK, LifecycleStages, PackStages
<1>3. Files' /\ Running' /\ InProgress' /\ Made'
  BY DEF Files, TypeOK, ProgramTypeOK, Running, InProgress, Recorded, Made
<1>4. AtStart' /\ AtCreate' /\ AtAttach' /\ AtWork' /\ AtDetach' /\ AtFinalize' /\ AtGrub'
  BY DEF AtStart, AtCreate, TypeOK, ProgramTypeOK, AtAttach, AtWork, Files, AtDetach, AtFinalize, AtGrub
<1>5. PublishedWhole'
  BY DEF PublishedWhole, Complete, AtFinalize, AtWork, AtGrub, TypeOK, ProgramTypeOK, Files
<1> QED
  BY <1>1, <1>2, <1>3, <1>4, <1>5

(* Other programs use devices not ours.                                    *)
LEMMA OthersStep ==
    ASSUME RInv, OtherPrograms
    PROVE  RInv'
<1> USE OneVolume DEF OtherPrograms, OtherAttach, OtherDetach, RInv
<1>1. TypeOK'
  BY DEF TypeOK, Ops, Outcomes
<1>2. ProgramTypeOK'
  BY DEF ProgramTypeOK, TypeOK, LifecycleStages, PackStages
<1>3. Files' /\ Running' /\ InProgress' /\ Made'
  BY DEF Files, TypeOK, ProgramTypeOK, Running, InProgress, Recorded, Made
<1>4. AtStart' /\ AtCreate' /\ AtAttach' /\ AtWork' /\ AtDetach' /\ AtFinalize' /\ AtGrub'
  BY DEF AtStart, AtCreate, TypeOK, ProgramTypeOK, AtAttach, AtWork, Files, AtDetach, AtFinalize, AtGrub
<1>5. PublishedWhole'
  BY DEF PublishedWhole, Complete, AtFinalize, AtWork, AtGrub, TypeOK, ProgramTypeOK, Files
<1> QED
  BY <1>1, <1>2, <1>3, <1>4, <1>5

-----------------------------------------------------------------------------
(* The first process finds nothing.                                        *)
LEMMA InitInvariant == ProgramInit => RInv
<1> SUFFICES ASSUME ProgramInit PROVE RInv
  OBVIOUS
<1> USE OneVolume DEF ProgramInit, Init, FreshMemory, NoCall
<1>1. TypeOK
  <2>1. /\ backing \in [Devices -> Inodes \cup {None, Foreign}]
        /\ hidden \in [Volumes -> Inodes \cup {None}]
        /\ final \in [Volumes -> Inodes \cup {None}]
        /\ loopDevices \in [Volumes -> Devices \cup {None}]
        /\ listing \in [Devices -> Volumes \cup {None, Foreign}]
        /\ content \in [Inodes -> SUBSET (Payloads \cup {Table})]
    OBVIOUS
  <2>2. /\ used \subseteq Inodes /\ todo \subseteq Volumes
        /\ images = None /\ current = None
        /\ atexitRegistered \in BOOLEAN /\ emitter \in BOOLEAN
        /\ op \in Ops /\ outcome \in Outcomes
    BY DEF Ops, Outcomes
  <2>3. tries \in 0..MaxTries
    OBVIOUS
  <2> QED
    BY <2>1, <2>2, <2>3 DEF TypeOK
<1>2. ProgramTypeOK
  BY DEF ProgramTypeOK, LifecycleStages
<1>3. Files /\ Running /\ InProgress /\ Made
  BY DEF Files, Running, InProgress, Made
<1>4. AtStart /\ AtCreate /\ AtAttach /\ AtWork /\ AtDetach /\ AtFinalize /\ AtGrub
  BY DEF AtStart, AtCreate, AtAttach, AtWork, AtDetach, AtFinalize, AtGrub
<1>5. PublishedWhole
  BY DEF PublishedWhole
<1> QED
  BY <1>1, <1>2, <1>3, <1>4, <1>5 DEF RInv

(* Every step preserves the invariant.                                     *)
LEMMA NextInvariant == RInv /\ [ProgramNext]_allVars => RInv'
<1> SUFFICES ASSUME RInv, [ProgramNext]_allVars PROVE RInv'
  OBVIOUS
<1>1. CASE ServiceRuns
  <2>1. CASE CreateStep
    BY <1>1, <2>1, CreateImageStep, CreateLayoutStep, CreateEndStep
    DEF ServiceRuns, CreateStep
  <2>2. CASE AttachStep
    BY <1>1, <2>2, AttachReuseStep, AttachFreshStep, AttachFailsStep, AttachReturnStep
    DEF ServiceRuns, AttachStep
  <2>3. CASE DetachStep
    BY <1>1, <2>3, DetachTryStep, DetachLoopStep, DetachReturnStep
    DEF ServiceRuns, DetachStep
  <2>4. CASE FinalizeStep
    BY <1>1, <2>4, FinalizeRenameStep, FinalizeCopyStep, FinalizeCopiedStep,
       FinalizeUnlinkStep, FinalizeEndStep
    DEF ServiceRuns, FinalizeStep
  <2> QED
    BY <1>1, <2>1, <2>2, <2>3, <2>4 DEF ServiceRuns, ServiceStep
<1>2. CASE Lifecycle
  BY <1>2, PrologueCreateStep, PrologueAttachStep, QuietSteps, PartStep DEF Lifecycle
<1>3. CASE Pack
  BY <1>3, PackCallsStep, PackQuietSteps, FormatStep, DetachBeginSteps, VerifyStep, MoveStep
  DEF Pack
<1>4. CASE SetupGrub
  BY <1>4, GrubAttachStep, GrubInstallStep, GrubChildStep, GrubDetachStep, GrubQuietSteps DEF SetupGrub
<1>5. CASE UNCHANGED allVars
  BY <1>5 DEF RInv, TypeOK, ProgramTypeOK, Files, Running, InProgress, Made, Recorded,
     AtStart, AtCreate, AtAttach, AtWork, AtDetach, AtFinalize, AtGrub,
     PublishedWhole, Complete
<1> QED
  BY <1>1, <1>2, <1>3, <1>4, <1>5, InterruptStep, ExitStep, NewProcessStep, OthersStep
  DEF ProgramNext

LEMMA Invariance == ProgramSpec => []RInv
<1> QED
  BY InitInvariant, NextInvariant, PTL DEF ProgramSpec

-----------------------------------------------------------------------------
(* The variables have their types, in every behaviour.                     *)
THEOREM ProgramTypeCorrect == ProgramSpec => []ProgramTypeOK
<1>1. RInv => ProgramTypeOK
  BY DEF RInv
<1> QED
  BY <1>1, Invariance, PTL

(* Parts and format_device write to the temporary image and to nothing     *)
(* else, whatever earlier processes left behind.                           *)
THEOREM WritesGoToTheImage == ProgramSpec => []WritesReachTheImage
<1>1. RInv => WritesReachTheImage
  BY DEF RInv, AtWork, WritesReachTheImage
<1> QED
  BY <1>1, Invariance, PTL

(* A pack that succeeds leaves a finished image, renamed or copied.        *)
THEOREM PacksSucceed == ProgramSpec => []SuccessfulPack
<1>1. RInv => SuccessfulPack
  BY DEF RInv, AtGrub, SuccessfulPack, Complete
<1> QED
  BY <1>1, Invariance, PTL

(* On one file system the destination never holds an unfinished image.     *)
THEOREM PublishedImagesAreComplete ==
    ASSUME ~CrossDevice PROVE ProgramSpec => []PublishedImageComplete
<1>1. RInv => PublishedImageComplete
  BY DEF RInv, PublishedWhole, PublishedImageComplete
<1> QED
  BY <1>1, Invariance, PTL

-----------------------------------------------------------------------------
(* Only its owner detaches a device bound to another program's file: the   *)
(* service and setup_grub detach devices on images, and the exit handler,  *)
(* which may hold the name of a device that was released, detaches none.   *)
THEOREM OthersKeepDevices == ProgramSpec => OthersKeepTheirDevices
<1> DEFINE Safe ==
      \A d \in Devices :
          backing[d] = Foreign /\ backing'[d] # Foreign =>
              UNCHANGED <<memory, emitter, call, program>>
<1>1. RInv /\ [ProgramNext]_allVars => [Safe]_allVars
  <2> SUFFICES ASSUME RInv, ProgramNext, NEW d \in Devices,
                      backing[d] = Foreign, backing'[d] # Foreign
               PROVE  UNCHANGED <<memory, emitter, call, program>>
    BY DEF allVars
  <2> USE OneVolume DEF RInv
  <2>1. backing' # backing
    OBVIOUS
  <2>2. CASE ServiceRuns
    <3>1. ASSUME NEW v \in Volumes, AttachFresh(v) PROVE FALSE
      BY <3>1 DEF AttachFresh, TypeOK
    <3>2. ASSUME NEW v \in Volumes, AttachFails(v) PROVE FALSE
      BY <2>1, <3>2 DEF AttachFails, StaleDevices, AtAttach, InProgress, TypeOK
    <3>3. ASSUME NEW v \in Volumes, DetachTry(v) PROVE FALSE
      <4>1. v = Volume /\ Loop # None /\ backing[Loop] = Draft
        BY <2>2, <3>3 DEF DetachTry, RunExecutes, InProgress, Running, AtDetach, ServiceRuns
      <4>2. backing[Loop] # Foreign
        BY <4>1 DEF TypeOK
      <4> QED
        BY <3>3, <4>1, <4>2 DEF DetachTry, TypeOK
    <3> QED
      BY <2>1, <2>2, <3>1, <3>2, <3>3
      DEF ServiceRuns, ServiceStep, CreateStep, AttachStep, DetachStep, FinalizeStep,
          CreateZeroImage, CreateUnimplemented, CreateLayout, CreateLayoutFails,
          CreateReturn, AttachReuse, AttachReturn, DetachFails, DetachGiveUp,
          DetachReturn, FinalizeRename, FinalizeCopy, FinalizeCopied,
          FinalizeUnlink, FinalizeFails, FinalizeReturn
  <2>3. CASE SetupGrub
    <3>1. ASSUME GrubAttach PROVE FALSE
      BY <3>1 DEF GrubAttach, TypeOK
    <3>2. ASSUME NEW x \in Devices, GrubDetach(x) PROVE FALSE
      BY <3>2 DEF GrubDetach, TypeOK
    <3> QED
      BY <2>1, <2>3, <3>1, <3>2
      DEF SetupGrub, GrubSkipped, GrubAttachFails, GrubInstall, GrubChild, GrubDetachFails, GrubDetached
  <2>4. CASE Lifecycle
    BY <2>1, <2>4
    DEF Lifecycle, PrologueCreate, PrologueAttach, PrologueDone, PrologueFails, PartRuns,
        PartFails, LifecycleDone, Call, Raised, Create, CreateCached, CreateBegin,
        Attach, AttachCached, AttachWithoutImages, AttachBegin, ClientWrite
  <2>5. CASE Pack
    BY <2>1, <2>5
    DEF Pack, PackCreate, PackAttach, PackFails, PackAttached, Format, FormatFails,
        Verify, Detach, DetachedAfterError, MoveImages, MovedImages, Call, Raised,
        Create, CreateCached, CreateBegin, Attach, AttachCached, AttachWithoutImages,
        AttachBegin, ClientWrite, DetachBegin, VerifyImages, Finalize,
        FinalizeWithoutImages, FinalizeBegin
  <2>6. CASE OtherPrograms
    BY <2>6 DEF OtherPrograms, OtherAttach, OtherDetach
  <2>7. ASSUME Interrupt PROVE FALSE
    <3>1. \/ backing[d] = None
          \/ op = "detach" /\ stage = "detach" /\ d = Loop /\ todo # {}
      BY <2>1, <2>7 DEF Interrupt, MethodInterrupted, InProgress, TypeOK
    <3>2. ~(op = "detach" /\ stage = "detach" /\ d = Loop /\ todo # {})
      BY DEF AtDetach, TypeOK
    <3> QED
      BY <3>1, <3>2
  <2> QED
    BY <2>1, <2>2, <2>3, <2>4, <2>5, <2>6, <2>7
    DEF ProgramNext, ProgramExit, Exit, NewProcess, Restart
<1> QED
  BY <1>1, Invariance, PTL DEF ProgramSpec, OthersKeepTheirDevices

-----------------------------------------------------------------------------
(* The refinement: what a step does to the draft and to the published      *)
(* image.                                                                  *)
DiskUnchanged == UNCHANGED <<ContentAt(hidden[Volume]), ContentAt(final[Volume])>>

(* A file has a content, and content is never None.                        *)
LEMMA DiskImages ==
    ASSUME RInv
    PROVE  /\ Draft # None => ContentAt(Draft) = content[Draft] /\ content[Draft] # None
           /\ Image # None => ContentAt(Image) = content[Image] /\ content[Image] # None
BY OneVolume, ProgramAssumption DEF RInv, TypeOK, ContentAt

(* What is written to the draft does not reach the published image.        *)
LEMMA DraftWritten ==
    ASSUME RInv, NEW p \in {Table} \cup Partitions \cup Parts, Draft # None,
           content' = [content EXCEPT ![Draft] = @ \cup {p}], UNCHANGED <<hidden, final>>
    PROVE  Disk!Write(p)
<1>1. Draft \in Inodes /\ (Image # None => Image \in Inodes /\ Image # Draft)
  BY OneVolume DEF RInv, Files, TypeOK
<1>2. ContentAt(Image)' = ContentAt(Image)
  BY <1>1 DEF ContentAt, RInv, TypeOK
<1>3. ContentAt(Draft)' = ContentAt(Draft) \cup {p}
  BY <1>1 DEF ContentAt, RInv, TypeOK
<1> QED
  BY <1>2, <1>3, DiskImages DEF Disk!Write

(* The steps of the service.                                               *)
LEMMA ServiceRefines ==
    ASSUME RInv, ServiceRuns, ~CrossDevice
    PROVE  Disk!Next \/ DiskUnchanged
<1> USE OneVolume DEF RInv
<1>1. ASSUME NEW v \in Volumes, CreateZeroImage(v) PROVE Disk!Start
  <2>1. PICK i \in Inodes \ used : hidden' = [hidden EXCEPT ![v] = i]
    BY <1>1 DEF CreateZeroImage
  <2>2. ContentAt(Draft)' = {}
    BY <1>1, <2>1 DEF CreateZeroImage, ContentAt, Made, TypeOK
  <2> QED
    BY <1>1, <2>2 DEF CreateZeroImage, ContentAt, Disk!Start
<1>2. CASE CreateLayout
  <2>1. Draft # None /\ current = Volume
    BY <1>2 DEF CreateLayout, AtCreate, InProgress
  <2> QED
    BY <1>2, <2>1, DraftWritten DEF CreateLayout, Disk!Next
<1>3. ASSUME NEW v \in Volumes, FinalizeRename(v) PROVE Disk!Publish
  <2>1. /\ Draft # None /\ {Table} \cup Partitions \subseteq content[Draft]
        /\ hidden'[Volume] = None /\ final'[Volume] = Draft /\ content' = content
    BY <1>3 DEF FinalizeRename, AtFinalize, InProgress, TypeOK
  <2> QED
    BY <2>1, DiskImages DEF ContentAt, Disk!Publish
<1>4. ASSUME NEW v \in Volumes, FinalizeCopy(v) \/ FinalizeCopied \/ FinalizeUnlink PROVE FALSE
  BY <1>4 DEF FinalizeCopy, FinalizeCopied, FinalizeUnlink, AtFinalize, InProgress
<1>5. CASE UNCHANGED <<hidden, final, content>>
  BY <1>5 DEF DiskUnchanged, ContentAt
<1> QED
  BY <1>1, <1>2, <1>3, <1>4, <1>5
  DEF Disk!Next, ServiceRuns, ServiceStep, CreateStep, AttachStep, DetachStep, FinalizeStep,
      CreateUnimplemented, CreateLayoutFails, CreateReturn, AttachReuse, AttachFresh,
      Record, AttachFails, AttachReturn, DetachTry, DetachFails, DetachGiveUp,
      DetachReturn, FinalizeFails, FinalizeReturn

(* The steps of the program.                                               *)
LEMMA ProgramRefines ==
    ASSUME RInv, ProgramNext, ~CrossDevice
    PROVE  Disk!Next \/ DiskUnchanged
<1> USE OneVolume DEF RInv
<1>1. CASE \E p \in Parts : PartRuns(p)
  <2>1. PICK p \in Parts : PartRuns(p)
    BY <1>1
  <2>2. Disk!Write(p)
    BY <2>1, DraftWritten DEF PartRuns, ClientWrite, AtWork
  <2> QED
    BY <2>2 DEF Disk!Next
<1>2. CASE \E p \in Partitions : Format(p)
  <2>1. PICK p \in Partitions : Format(p)
    BY <1>2
  <2>2. Disk!Write(p)
    BY <2>1, DraftWritten DEF Format, ClientWrite, AtWork
  <2> QED
    BY <2>2 DEF Disk!Next
<1>3. CASE GrubInstall /\ ~UNCHANGED content
  <2>1. /\ Draft = None /\ Image # None /\ backing[grubDevice] = Image
        /\ content' = [content EXCEPT ![Image] = @ \cup {Grub}]
        /\ UNCHANGED <<hidden, final>>
    BY <1>3 DEF GrubInstall, AtGrub
  <2>2. ContentAt(Image)' = ContentAt(Image) \cup {Grub}
    BY <2>1 DEF ContentAt, TypeOK
  <2> QED
    BY <2>1, <2>2, DiskImages DEF ContentAt, Disk!InstallBoot, Disk!Next
<1>4. CASE GrubChild
  <2>1. /\ Draft = None /\ Image # None
        /\ content' = [content EXCEPT ![Image] = @ \cup {Grub}]
        /\ UNCHANGED <<hidden, final>>
    BY <1>4 DEF GrubChild, AtGrub
  <2>2. ContentAt(Image)' = ContentAt(Image) \cup {Grub}
    BY <2>1 DEF ContentAt, TypeOK
  <2> QED
    BY <2>1, <2>2, DiskImages DEF ContentAt, Disk!InstallBoot, Disk!Next
<1>5. CASE UNCHANGED <<hidden, final, content>>
  BY <1>5 DEF DiskUnchanged, ContentAt
<1> QED
  BY <1>1, <1>2, <1>3, <1>4, <1>5, ServiceRefines
  DEF ProgramNext, Lifecycle, Pack, SetupGrub, PrologueCreate, PrologueAttach, PrologueDone,
      PrologueFails, PartFails, LifecycleDone, PackCreate, PackAttach, PackFails,
      PackAttached, FormatFails, Verify, Detach, DetachedAfterError, MoveImages,
      MovedImages, Call, Raised, Create, CreateCached, CreateBegin, Attach, AttachCached,
      AttachWithoutImages, AttachBegin, DetachBegin, VerifyImages, Finalize,
      FinalizeWithoutImages, FinalizeBegin, GrubSkipped, GrubAttach, GrubAttachFails,
      GrubInstall, GrubDetach, GrubDetachFails, GrubDetached, Interrupt,
      MethodInterrupted, ProgramExit, Exit, NewProcess, Restart, OtherPrograms, OtherAttach, OtherDetach

(* On one file system the program implements Publishing.                   *)
THEOREM PublishesWholeImages ==
    ASSUME ~CrossDevice PROVE ProgramSpec => PublishesWhole
<1>1. ProgramInit => Disk!Init
  BY OneVolume DEF ProgramInit, Init, Disk!Init, ContentAt
<1>2. RInv /\ [ProgramNext]_allVars
         => [Disk!Next]_<<ContentAt(hidden[Volume]), ContentAt(final[Volume])>>
  <2>1. CASE ProgramNext
    BY <2>1, ProgramRefines DEF DiskUnchanged
  <2>2. CASE UNCHANGED allVars
    BY <2>2 DEF ContentAt
  <2> QED
    BY <2>1, <2>2
<1> QED
  BY <1>1, <1>2, Invariance, PTL DEF ProgramSpec, PublishesWhole, Disk!Spec

-----------------------------------------------------------------------------
(* The devices on files of this process.  They are released before the     *)
(* image is moved, and again after GRUB is installed; `losetup -d' does    *)
(* its work, so that the retry loop has no second round.                   *)
Released == \A d \in Devices : backing[d] \notin used \ earlier

DevicesOfProcess ==
    /\ stage \in {"start", "prologue_create", "finalize", "grub", "pack_failed"} => Released
    /\ stage = "done" /\ command = "pack" => Released
    /\ stage \in {"prologue_attach", "parts", "pack", "pack_create", "pack_attach",
                  "format", "verify", "detach"} =>
          \A d \in Devices : backing[d] \in used \ earlier => d = Loop /\ backing[d] = Draft
    /\ stage = "prologue_attach" /\ op = "attach" /\ todo = {Volume} => Released
    /\ stage = "detach" /\ op = "detach" /\ todo = {Volume} => current = None
    /\ stage = "detach" /\ (op = "idle" \/ todo = {}) => Released
    /\ stage \in {"grub_install", "grub_detach"} =>
          \A d \in Devices : backing[d] \in used \ earlier => backing[d] = Image

LEMMA ServiceDevices ==
    ASSUME RInv, DevicesOfProcess, ServiceRuns, "detach" \notin Faults
    PROVE  DevicesOfProcess'
<1> USE OneVolume DEF RInv, ServiceRuns, Released
<1>1. CASE CreateStep
  BY <1>1
  DEF CreateStep, CreateZeroImage, CreateUnimplemented, CreateLayout, CreateLayoutFails,
      CreateReturn, Return, DevicesOfProcess, InProgress, Made, TypeOK, ProgramTypeOK
<1>2. ASSUME NEW v \in Volumes, AttachReuse(v) PROVE DevicesOfProcess'
  BY <1>2 DEF AttachReuse, Record, SameFile, DevicesOfProcess, AtAttach, InProgress, TypeOK
<1>3. ASSUME NEW v \in Volumes, AttachFresh(v) PROVE DevicesOfProcess'
  BY <1>3 DEF AttachFresh, Record, DevicesOfProcess, AtAttach, InProgress, TypeOK
<1>4. ASSUME NEW v \in Volumes, AttachFails(v) PROVE DevicesOfProcess'
  BY <1>4 DEF AttachFails, StaleDevices, Return, DevicesOfProcess, AtAttach, InProgress, TypeOK
<1>5. CASE AttachReturn
  BY <1>5 DEF AttachReturn, Return, DevicesOfProcess, InProgress
<1>6. ASSUME NEW v \in Volumes, DetachTry(v) PROVE DevicesOfProcess'
  BY <1>6 DEF DetachTry, DevicesOfProcess, AtDetach, InProgress, TypeOK
<1>7. ASSUME NEW v \in Volumes, DetachFails(v) \/ DetachGiveUp(v) PROVE DevicesOfProcess'
  BY <1>7
  DEF DetachFails, DetachGiveUp, RunExecutes, DevicesOfProcess, AtDetach, InProgress,
      Running, TypeOK
<1>8. CASE DetachReturn
  BY <1>8 DEF DetachReturn, Return, DevicesOfProcess, InProgress
<1>9. CASE FinalizeStep
  BY <1>9
  DEF FinalizeStep, FinalizeRename, FinalizeCopy, FinalizeCopied, FinalizeUnlink,
      FinalizeFails, FinalizeReturn, Return, DevicesOfProcess, InProgress, Made, TypeOK, ProgramTypeOK
<1> QED
  BY <1>1, <1>2, <1>3, <1>4, <1>5, <1>6, <1>7, <1>8, <1>9
  DEF ServiceStep, AttachStep, DetachStep

LEMMA ProgramDevices ==
    ASSUME RInv, DevicesOfProcess, ProgramNext, "detach" \notin Faults
    PROVE  DevicesOfProcess'
<1> USE OneVolume DEF RInv, Released
<1>1. CASE Lifecycle
  BY <1>1
  DEF Lifecycle, PrologueCreate, PrologueAttach, PrologueDone, PrologueFails, PartRuns,
      PartFails, LifecycleDone, Call, Raised, Goto, Create, CreateCached, CreateBegin,
      Attach, AttachCached, AttachWithoutImages, AttachBegin, ClientWrite, Enter, Return,
      DevicesOfProcess, AtWork
<1>2. CASE Pack
  <2>1. CASE PackCreate \/ PackAttach
    <3>1. images = {Volume} /\ Recorded # {}
      BY <2>1, RecordedVolumes DEF PackCreate, PackAttach, Call, AtWork
    <3> QED
      BY <2>1, <3>1
      DEF PackCreate, PackAttach, Call, Goto, Create, CreateCached, CreateBegin, Attach,
          AttachCached, AttachWithoutImages, AttachBegin, Return, DevicesOfProcess
  <2>2. CASE PackFails \/ PackAttached \/ DetachedAfterError \/ MovedImages
    BY <2>2
    DEF PackFails, PackAttached, DetachedAfterError, MovedImages, Raised, Goto,
        DevicesOfProcess, AtWork
  <2>3. ASSUME NEW p \in Partitions, Format(p) PROVE DevicesOfProcess'
    BY <2>3 DEF Format, ClientWrite, DevicesOfProcess, AtWork
  <2>4. CASE FormatFails \/ Detach
    <3>1. Recorded = {Volume}
      BY <2>4, RecordedVolumes DEF FormatFails, Detach, AtWork
    <3> QED
      BY <2>4, <3>1
      DEF FormatFails, Detach, DetachBegin, Enter, DevicesOfProcess, AtWork
  <2>5. CASE Verify
    BY <2>5 DEF Verify, Call, VerifyImages, Return, Goto, DevicesOfProcess
  <2>6. CASE MoveImages
    BY <2>6
    DEF MoveImages, Call, Finalize, FinalizeWithoutImages, FinalizeBegin, Callable,
        Enter, Return, Goto, DevicesOfProcess
  <2> QED
    BY <1>2, <2>1, <2>2, <2>3, <2>4, <2>5, <2>6 DEF Pack
<1>3. CASE SetupGrub
  BY <1>3
  DEF SetupGrub, GrubSkipped, GrubAttach, GrubAttachFails, GrubInstall, GrubChild, GrubDetach,
      GrubDetachFails, GrubDetached, Goto, Fail, DevicesOfProcess, AtGrub, TypeOK
<1>4. CASE Interrupt \/ ProgramExit
  BY <1>4 DEF Interrupt, ProgramExit, Goto, Fail, DevicesOfProcess
<1>5. CASE NewProcess
  BY <1>5 DEF NewProcess, Restart, Return, Fresh, DevicesOfProcess
<1>6. CASE OtherPrograms
  BY <1>6 DEF OtherPrograms, OtherAttach, OtherDetach, DevicesOfProcess, TypeOK
<1> QED
  BY <1>1, <1>2, <1>3, <1>4, <1>5, <1>6, ServiceDevices DEF ProgramNext

(* When pack is over, no loop device is left on a file of the process.     *)
THEOREM PackReleases ==
    ASSUME "detach" \notin Faults PROVE ProgramSpec => []PackReleasesDevices
<1>1. ProgramInit => DevicesOfProcess
  BY DEF ProgramInit, Init, DevicesOfProcess, Released
<1>2. RInv /\ DevicesOfProcess /\ [ProgramNext]_allVars => DevicesOfProcess'
  <2>1. CASE UNCHANGED allVars
    BY <2>1 DEF DevicesOfProcess, Released
  <2> QED
    BY <2>1, ProgramDevices
<1>3. DevicesOfProcess => PackReleasesDevices
  BY DEF DevicesOfProcess, Released, PackReleasesDevices
<1> QED
  BY <1>1, <1>2, <1>3, Invariance, PTL DEF ProgramSpec

=============================================================================
