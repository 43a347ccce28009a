---------------------------- MODULE ProjectModel ----------------------------
(***************************************************************************)
(* From imagecraft.yaml to what the rest of the program works with: the    *)
(* selection by platform (services/project.py, grammar.py), the validators *)
(* of the models (models/volume.py, models/project.py), the list of        *)
(* partitions craft-parts makes directories for, and the partitions GRUB   *)
(* mounts (pack/grubutil.py).  The first partition of the list is the one  *)
(* parts fill by default; it has to be the one that becomes "/".           *)
(*                                                                         *)
(* A device "(volume/a/b)" is <<"a", "b">>, "(b)" is <<"b">>, "()" is      *)
(* <<>>; a partition name is <<volume, item>>.                             *)
(***************************************************************************)
EXTENDS Naturals, Sequences

CONSTANTS
    Documents,  \* the documents of a run
    Platforms,
    VolumeName, \* the key of `volumes'
    Names,      \* names and labels of structure items
    Devices,    \* what a filesystem entry may name
    None        \* Python's None

(* An entry carries the platforms its grammar statement selects it for.    *)
Entry == [name : Names, label : Names \cup {None}, number : (1..128) \cup {None},
          on : SUBSET Platforms]
MountEntry == [mount : {"/", "/boot"}, device : Devices, on : SUBSET Platforms]

ASSUME DocumentsAssumption ==
    /\ \A d \in Documents :
          /\ d.schema \in {"gpt", "mbr", "mbr,gpt"}
          /\ d.structure \in Seq(Entry)
          /\ d.filesystems \in Seq(MountEntry)
          /\ d.filesystem \in {"default", "other"}
          /\ d.badGrammar \subseteq {"volumes", "filesystems"}
    /\ None \notin Names /\ None \notin 1..128

VARIABLES
    document,
    platform,
    pc,
    structure,    \* the structure items of the volume
    filesystems,  \* the entries of the one filesystem
    i,            \* the next item of the running loop
    partitions,   \* the list get_partitions builds
    validDefaultAlias,
    imageMounts   \* what _image_mounts builds: [number, mount]

input == <<document, platform>>
models == <<structure, filesystems>>
listing == <<partitions, validDefaultAlias>>
vars == <<input, pc, models, i, listing, imageMounts>>

Volume == [schema |-> document.schema, structure |-> structure]

Layout == INSTANCE VolumeLayout WITH
    Disks <- {}, SectorSizes <- {512},
    disk <- Volume, sectorSize <- 512, imageBytes <- 0, sized <- <<>>,
    start <- 0, extSectors <- 0, lines <- <<>>

Stopped == {"invalid", "no_default", "refused", "unimplemented", "image_error"}

Init ==
    /\ document \in Documents
    /\ platform \in Platforms
    /\ pc = "volumes"
    /\ structure = <<>> /\ filesystems = <<>>
    /\ i = 1
    /\ partitions = <<>>
    /\ validDefaultAlias = FALSE
    /\ imageMounts = <<>>

-----------------------------------------------------------------------------
(* transform_yaml: the grammar statements, section by section              *)

Selected(entry, list) == IF platform \in entry.on THEN Append(list, entry) ELSE list

ProcessItem ==
    /\ pc = "volumes" /\ pc \notin document.badGrammar
    /\ i \in DOMAIN document.structure
    /\ structure' = Selected(document.structure[i], structure)
    /\ i' = i + 1
    /\ UNCHANGED <<input, pc, filesystems, listing, imageMounts>>

VolumesProcessed ==
    /\ pc = "volumes" /\ pc \notin document.badGrammar
    /\ i \notin DOMAIN document.structure
    /\ pc' = "filesystems"
    /\ i' = 1
    /\ UNCHANGED <<input, models, listing, imageMounts>>

ProcessMount ==
    /\ pc = "filesystems" /\ pc \notin document.badGrammar
    /\ i \in DOMAIN document.filesystems
    /\ filesystems' = Selected(document.filesystems[i], filesystems)
    /\ i' = i + 1
    /\ UNCHANGED <<input, pc, structure, listing, imageMounts>>

FilesystemsProcessed ==
    /\ pc = "filesystems" /\ pc \notin document.badGrammar
    /\ i \notin DOMAIN document.filesystems
    /\ pc' = "validate"
    /\ i' = 1
    /\ UNCHANGED <<input, models, listing, imageMounts>>

GrammarSyntaxError ==
    /\ pc \in document.badGrammar
    /\ pc' = "invalid"
    /\ UNCHANGED <<input, models, i, listing, imageMounts>>

-----------------------------------------------------------------------------
(* The validators of the models                                            *)

Numbers == {structure[n].number : n \in DOMAIN structure}

(* Variant: a list with an unnumbered item is returned unchecked.          *)
NumbersValidUnmixed ==
    /\ None \notin Numbers =>
          \A m, n \in DOMAIN structure :
              m # n => structure[m].number # structure[n].number
    /\ document.schema # "gpt" => Numbers \subseteq {None}

(* All or none, each once; the items of the other schemas have no such     *)
(* field, and unknown keys are forbidden.                                  *)
NumbersValid ==
    /\ \/ Numbers \subseteq {None}
       \/ /\ None \notin Numbers
          /\ \A m, n \in DOMAIN structure :
                m # n => structure[m].number # structure[n].number
    /\ document.schema # "gpt" => Numbers \subseteq {None}

(* Variant: a missing label stays missing.                                 *)
LabelAsGiven(item) == item.label

Label(item) == IF item.label = None THEN item.name ELSE item.label

LabelsValid ==
    \A m, n \in DOMAIN structure : m # n => Label(structure[m]) # Label(structure[n])

FilesystemsValid == filesystems # <<>> /\ filesystems[1].mount = "/"

ModelsValid ==
    structure # <<>> /\ NumbersValid /\ LabelsValid /\ FilesystemsValid

Accept ==
    /\ pc = "validate"
    /\ ModelsValid
    /\ structure' = [n \in DOMAIN structure |->
                        [structure[n] EXCEPT !.label = Label(structure[n])]]
    /\ pc' = "alias"
    /\ UNCHANGED <<input, filesystems, i, listing, imageMounts>>

Reject ==
    /\ pc = "validate"
    /\ ~ModelsValid
    /\ pc' = "invalid"
    /\ UNCHANGED <<input, models, i, listing, imageMounts>>

-----------------------------------------------------------------------------
(* get_partitions                                                          *)

Alias == filesystems[1].device
PartitionName(item) == <<VolumeName, item.name>>

AliasToDefault ==
    /\ pc = "alias"
    /\ pc' = IF document.filesystem = "default" /\ Alias # <<>>
             THEN "partitions" ELSE "no_default"
    /\ UNCHANGED <<input, models, i, listing, imageMounts>>

(* Variant: the root's partition stays where it stands in the structure.   *)
PartitionItemAppended ==
    /\ pc = "partitions"
    /\ i \in DOMAIN structure
    /\ validDefaultAlias' = (validDefaultAlias \/ PartitionName(structure[i]) = Alias)
    /\ partitions' = Append(partitions, PartitionName(structure[i]))
    /\ i' = i + 1
    /\ UNCHANGED <<input, pc, models, imageMounts>>

(* Variant: no `continue' after the insertion.                             *)
PartitionItemTwice ==
    /\ pc = "partitions"
    /\ i \in DOMAIN structure
    /\ LET name == PartitionName(structure[i])
       IN  /\ validDefaultAlias' = (validDefaultAlias \/ name = Alias)
           /\ partitions' = IF name = Alias /\ i = 1 THEN <<name>>
                            ELSE IF name = Alias THEN <<name>> \o Tail(partitions) \o <<name>>
                            ELSE Append(partitions, name)
    /\ i' = i + 1
    /\ UNCHANGED <<input, pc, models, imageMounts>>

PartitionItem ==
    /\ pc = "partitions"
    /\ i \in DOMAIN structure
    /\ LET name == PartitionName(structure[i])
       IN  \/ /\ name = Alias
              /\ partitions' = <<name>> \o partitions
              /\ validDefaultAlias' = TRUE
           \/ /\ name # Alias
              /\ partitions' = Append(partitions, name)
              /\ UNCHANGED validDefaultAlias
    /\ i' = i + 1
    /\ UNCHANGED <<input, pc, models, imageMounts>>

PartitionsDone ==
    /\ pc = "partitions"
    /\ i \notin DOMAIN structure
    /\ pc' = IF validDefaultAlias THEN "lifecycle" ELSE "no_default"
    /\ i' = 1
    /\ UNCHANGED <<input, models, listing, imageMounts>>

(* craft-parts refuses a list that names a partition twice.                *)
PartitionsUnique ==
    \A m, n \in DOMAIN partitions : m # n => partitions[m] # partitions[n]

LifecycleSetup ==
    /\ pc = "lifecycle"
    /\ pc' = IF PartitionsUnique THEN "create" ELSE "refused"
    /\ UNCHANGED <<input, models, i, listing, imageMounts>>

-----------------------------------------------------------------------------
(* create_images and, when the image is finished, _image_mounts            *)

CreateImages ==
    /\ pc = "create"
    /\ pc' = IF document.schema = "mbr,gpt" THEN "unimplemented" ELSE "mounts"
    /\ UNCHANGED <<input, models, i, listing, imageMounts>>

(* _partition_name_from_device: the last component.                        *)
NameFromDevice(device) == IF device = <<>> THEN None ELSE device[Len(device)]
Found(name) == \E n \in DOMAIN structure : structure[n].name = name

ImageMount ==
    /\ pc = "mounts"
    /\ i \in DOMAIN filesystems
    /\ LET name == NameFromDevice(filesystems[i].device)
       IN  /\ Found(name)
           /\ imageMounts' = Append(imageMounts,
                  [number |-> Layout!part_num(name), mount |-> filesystems[i].mount])
    /\ i' = i + 1
    /\ UNCHANGED <<input, pc, models, listing>>

PartitionNotFound ==
    /\ pc = "mounts"
    /\ i \in DOMAIN filesystems
    /\ ~Found(NameFromDevice(filesystems[i].device))
    /\ pc' = "image_error"
    /\ UNCHANGED <<input, models, i, listing, imageMounts>>

ImageMountsDone ==
    /\ pc = "mounts"
    /\ i \notin DOMAIN filesystems
    /\ pc' = "done"
    /\ UNCHANGED <<input, models, i, listing, imageMounts>>

-----------------------------------------------------------------------------

Next ==
    \/ ProcessItem \/ VolumesProcessed \/ ProcessMount \/ FilesystemsProcessed
    \/ GrammarSyntaxError
    \/ Accept \/ Reject
    \/ AliasToDefault \/ PartitionItem \/ PartitionsDone \/ LifecycleSetup
    \/ CreateImages
    \/ ImageMount \/ PartitionNotFound \/ ImageMountsDone

Spec == Init /\ [][Next]_vars

-----------------------------------------------------------------------------

Listed ==
    pc \in {"lifecycle", "refused", "create", "mounts", "unimplemented", "image_error", "done"}
Created == pc \in {"mounts", "image_error", "done"}

(* Types; labels are set once the models have accepted the document.       *)
TypeOK ==
    /\ pc \in {"volumes", "filesystems", "validate", "alias", "partitions", "lifecycle",
               "create", "mounts", "done"} \cup Stopped
    /\ structure \in Seq(Entry)
    /\ filesystems \in Seq(MountEntry)
    /\ i \in Nat \ {0}
    /\ partitions \in Seq({VolumeName} \X Names)
    /\ validDefaultAlias \in BOOLEAN
    /\ imageMounts \in Seq([number : Nat \ {0}, mount : {"/", "/boot"}])
    /\ pc \notin {"volumes", "filesystems", "validate", "invalid"} =>
          \A n \in DOMAIN structure : structure[n].label # None

(* The partition that parts fill by default is the one that is mounted as  *)
(* "/" for GRUB, and it is mounted first: get_partitions and _image_mounts *)
(* find it by different rules, whole name and last component.              *)
RootIsDefault ==
    /\ Listed => partitions[1] = Alias
    /\ Created /\ imageMounts # <<>> =>
          /\ imageMounts[1].mount = "/"
          /\ \E k \in DOMAIN structure :
                /\ PartitionName(structure[k]) = partitions[1]
                /\ imageMounts[1].number = Layout!ServiceNumber(k)

(* GRUB's mounts are the filesystem entries, in the order of the document, *)
(* each of the partition that pack has filled for the item the entry names *)
(* - the number of a mount is that of the item's loop path - and a list    *)
(* that is complete has them all.                                          *)
MountsMatchLoopPaths ==
    /\ \A n \in DOMAIN imageMounts :
          /\ n \in DOMAIN filesystems
          /\ imageMounts[n].mount = filesystems[n].mount
          /\ \E k \in DOMAIN structure :
                /\ structure[k].name = NameFromDevice(filesystems[n].device)
                /\ imageMounts[n].number = Layout!ServiceNumber(k)
    /\ pc = "done" => DOMAIN imageMounts = DOMAIN filesystems

(* pack looks for a prime directory for every structure item: each is in   *)
(* the list that craft-parts is given, and the list is no longer than the  *)
(* structure, so that craft-parts refuses it only where names are shared.  *)
EveryItemHasADirectory ==
    Listed =>
        /\ Len(partitions) = Len(structure)
        /\ \A k \in DOMAIN structure : \E m \in DOMAIN partitions :
              partitions[m] = PartitionName(structure[k])

(* A volume that create_images lays out is one the layout is made for:     *)
(* what VolumeLayout assumes of its input follows from the validators and  *)
(* from the refusal of craft-parts.                                        *)
LayoutAccepts == Created => Layout!ValidDisk(Volume)

=============================================================================
