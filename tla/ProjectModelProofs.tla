------------------------- MODULE ProjectModelProofs -------------------------
(***************************************************************************)
(* Theorems about every document, of any number of structure items and     *)
(* filesystem entries: what the rest of the program assumes of a project   *)
(* is what the validators, get_partitions and craft-parts leave through.   *)
(*                                                                         *)
(* That names are unique is checked by nobody but craft-parts, and on the  *)
(* list of partitions, not on the structure.  The invariant of the loop    *)
(* therefore carries it over, item by item (Names in `Built').             *)
(***************************************************************************)
EXTENDS ProjectModel, TLAPS

Items == DOMAIN structure
Name(k) == PartitionName(structure[k])

Types ==
    /\ document \in Documents
    /\ pc \in {"volumes", "filesystems", "validate", "alias", "partitions", "lifecycle",
               "create", "mounts", "done"} \cup Stopped
    /\ structure \in Seq(Entry)
    /\ filesystems \in Seq(MountEntry)
    /\ i \in Nat \ {0}
    /\ partitions \in Seq({VolumeName} \X Names)
    /\ validDefaultAlias \in BOOLEAN
    /\ imageMounts \in Seq([number : Nat \ {0}, mount : {"/", "/boot"}])

Unread == {"volumes", "filesystems", "validate", "invalid"}

(* What the validators leave through.                                      *)
Accepted ==
    pc \notin Unread =>
        /\ structure # <<>>
        /\ NumbersValid
        /\ FilesystemsValid
        /\ \A n \in Items : structure[n].label # None

(* The list of partitions after n items.                                   *)
Built(n) ==
    /\ Len(partitions) = n
    /\ \A k \in 1..n : \E m \in DOMAIN partitions : partitions[m] = Name(k)
    /\ validDefaultAlias =>
          /\ partitions # <<>> /\ partitions[1] = Alias
          /\ \E k \in 1..n : Name(k) = Alias
    /\ PartitionsUnique =>
          \A j, k \in 1..n : j # k => structure[j].name # structure[k].name

Listing ==
    /\ pc \in Unread \cup {"alias"} =>
          partitions = <<>> /\ ~validDefaultAlias
    /\ pc \in {"validate", "alias"} => i = 1
    /\ pc = "partitions" => i \in 1..(Len(structure) + 1) /\ Built(i - 1)
    /\ Listed => validDefaultAlias /\ Built(Len(structure))
    /\ pc \in {"create", "mounts", "image_error", "done"} => PartitionsUnique

(* The root is the first mount, under the number the service uses.         *)
Root ==
    /\ imageMounts[1].mount = "/"
    /\ \E k \in Items :
          /\ Name(k) = partitions[1]
          /\ imageMounts[1].number = Layout!ServiceNumber(k)

Mounting ==
    /\ ~Created => imageMounts = <<>>
    /\ pc \in {"lifecycle", "create"} => i = 1
    /\ pc = "mounts" => i = Len(imageMounts) + 1
    /\ Created => document.schema # "mbr,gpt"
    /\ Created /\ imageMounts # <<>> => Root

(* Each mount so far is of the item its entry names.                       *)
Matching ==
    \A n \in DOMAIN imageMounts :
        /\ n \in DOMAIN filesystems
        /\ imageMounts[n].mount = filesystems[n].mount
        /\ \E k \in Items :
              /\ structure[k].name = NameFromDevice(filesystems[n].device)
              /\ imageMounts[n].number = Layout!ServiceNumber(k)

AllMounted == pc = "done" => Len(imageMounts) = Len(filesystems)

PInv == Types /\ Accepted /\ Listing /\ Mounting /\ Matching /\ AllMounted

-----------------------------------------------------------------------------

(* What an element of a list, and a longer list, is.                       *)
LEMMA ListElement ==
    ASSUME NEW S, NEW list \in Seq(S), NEW n \in DOMAIN list
    PROVE  list[n] \in S
  OBVIOUS

LEMMA ListGrows ==
    ASSUME NEW S, NEW list \in Seq(S), NEW e \in S
    PROVE  /\ Append(list, e) \in Seq(S)
           /\ <<e>> \o list \in Seq(S)
  OBVIOUS

(* Documents are what the constants' assumption says.                      *)
LEMMA DocumentFacts ==
    ASSUME document \in Documents
    PROVE  /\ document.schema \in {"gpt", "mbr", "mbr,gpt"}
           /\ document.structure \in Seq(Entry)
           /\ document.filesystems \in Seq(MountEntry)
  BY DocumentsAssumption

(* With unique names the first item of a name is the only one, and its     *)
(* number is the one its position says.                                    *)
LEMMA NumberOfName ==
    ASSUME structure \in Seq(Entry), NEW k \in Items,
           \A j, m \in Items : j # m => structure[j].name # structure[m].name
    PROVE  Layout!part_num(structure[k].name) =
              IF structure[k].number # None THEN structure[k].number
              ELSE IF Layout!NeedsExtended /\ k > 3 THEN k + 1
              ELSE k
<1> DEFINE First(j) == /\ structure[j].name = structure[k].name
                       /\ \A m \in 1..(j - 1) : structure[m].name # structure[k].name
<1>0. Items = 1..Len(structure) /\ Len(structure) \in Nat
  BY DEF Items
<1>1. \A j \in Items : First(j) <=> j = k
  <2>1. \A m \in 1..(k - 1) : m \in Items /\ m # k
    BY <1>0
  <2> QED
    BY <2>1
<1>2. Layout!FirstNamed(structure[k].name) = CHOOSE j \in Items : First(j)
  BY <1>0 DEF Layout!FirstNamed, Layout!Items, Layout!structure, Volume
<1>3. (CHOOSE j \in Items : First(j)) = k
  BY <1>1
<1> QED
  BY <1>2, <1>3
  DEF Layout!part_num, Layout!PRIMARY_SLOTS_WITH_EXTENDED, Layout!structure, Volume

(* The loop paths and the mounts use the same number.                      *)
LEMMA NumbersMeet ==
    ASSUME structure \in Seq(Entry), NEW k \in Items, NumbersValid,
           document.schema \in {"gpt", "mbr"},
           \A j, m \in Items : j # m => structure[j].name # structure[m].name
    PROVE  /\ Layout!part_num(structure[k].name) = Layout!ServiceNumber(k)
           /\ Layout!ServiceNumber(k) \in Nat \ {0}
<1>1. /\ structure[k].number \in (1..128) \cup {None}
      /\ document.schema # "gpt" => structure[k].number = None
      /\ k \in Nat \ {0}
  <2>1. structure[k] \in Entry /\ k \in 1..Len(structure) /\ Len(structure) \in Nat
    BY DEF Items
  <2>2. structure[k].number \in Numbers
    BY DEF Numbers, Items
  <2>3. structure[k].number \in (1..128) \cup {None}
    BY <2>1 DEF Entry
  <2>4. document.schema # "gpt" => structure[k].number = None
    BY <2>2 DEF NumbersValid
  <2> QED
    BY <2>1, <2>3, <2>4
<1>2. Layout!NeedsExtended => document.schema # "gpt"
  BY DEF Layout!NeedsExtended, Volume
<1>3. Layout!ServiceNumber(k) =
        IF structure[k].number # None THEN structure[k].number
        ELSE IF Layout!NeedsExtended /\ k > 3 THEN k + 1
        ELSE k
  BY <1>1, <1>2
  DEF Layout!ServiceNumber, Layout!PRIMARY_SLOTS_WITH_EXTENDED, Layout!structure, Volume
<1>4. Layout!part_num(structure[k].name) = Layout!ServiceNumber(k)
  BY <1>3, NumberOfName
<1>5. CASE structure[k].number # None
  <2>1. structure[k].number \in 1..128
    BY <1>1, <1>5
  <2>2. Layout!ServiceNumber(k) = structure[k].number
    BY <1>3, <1>5
  <2>3. Layout!ServiceNumber(k) \in 1..128
    BY <2>1, <2>2
  <2>4. \A n \in 1..128 : n \in Nat \ {0}
    OBVIOUS
  <2> QED
    BY <1>4, <2>3, <2>4
<1>6. CASE structure[k].number = None
  <2>1. Layout!ServiceNumber(k) = k + 1 \/ Layout!ServiceNumber(k) = k
    BY <1>3, <1>6
  <2> QED
    BY <1>1, <1>4, <2>1
<1> QED
  BY <1>5, <1>6

(* When the mounts are computed, names are unique and the numbers meet.    *)
LEMMA NumbersApply ==
    ASSUME PInv, pc = "mounts"
    PROVE  /\ \A j, m \in Items : j # m => structure[j].name # structure[m].name
           /\ \A k \in Items :
                 /\ Layout!part_num(structure[k].name) = Layout!ServiceNumber(k)
                 /\ Layout!part_num(structure[k].name) \in Nat \ {0}
<1>1. structure \in Seq(Entry) /\ document.schema \in {"gpt", "mbr"}
  BY DocumentFacts DEF PInv, Types, Mounting, Created
<1>2. NumbersValid
  BY DEF PInv, Accepted, Unread
<1>3. Items = 1..Len(structure)
  BY <1>1 DEF Items
<1>4. \A j, m \in Items : j # m => structure[j].name # structure[m].name
  BY <1>3 DEF PInv, Listing, Listed, Built
<1> QED
  BY <1>1, <1>2, <1>4, NumbersMeet

-----------------------------------------------------------------------------

(* The initial state satisfies the invariant.                              *)
LEMMA InitOK == Init => PInv
<1> SUFFICES ASSUME Init PROVE PInv
  OBVIOUS
<1> USE DEF Init
<1>1. Types
  <2>1. /\ structure \in Seq(Entry)
        /\ filesystems \in Seq(MountEntry)
        /\ partitions \in Seq({VolumeName} \X Names)
        /\ imageMounts \in Seq([number : Nat \ {0}, mount : {"/", "/boot"}])
    OBVIOUS
  <2>2. validDefaultAlias \in BOOLEAN
    BY Zenon
  <2>3. document \in Documents /\ pc = "volumes" /\ i \in Nat \ {0}
    OBVIOUS
  <2> QED
    BY <2>1, <2>2, <2>3 DEF Types
<1>2. Accepted /\ Listing /\ Mounting /\ Matching /\ AllMounted
  BY DEF Accepted, Unread, Listing, Listed, Mounting, Created, Matching, AllMounted
<1> QED
  BY <1>1, <1>2 DEF PInv

(* Types are kept, given what else the invariant says of the list.         *)
LEMMA TypesStep == PInv /\ [Next]_vars => Types'
<1> SUFFICES ASSUME PInv, [Next]_vars PROVE Types'
  OBVIOUS
<1>0. Types
  BY DEF PInv
<1> USE DEF input, models, listing
<1>1. CASE ProcessItem
  <2>1. structure \in Seq(Entry) /\ document.structure[i] \in Entry
    BY <1>0, <1>1, DocumentFacts, ListElement DEF Types, ProcessItem
  <2>2. structure' \in Seq(Entry)
    BY <1>1, <2>1, ListGrows DEF ProcessItem, Selected
  <2> QED
    BY <1>0, <1>1, <2>2 DEF Types, ProcessItem
<1>2. CASE ProcessMount
  <2>1. filesystems \in Seq(MountEntry) /\ document.filesystems[i] \in MountEntry
    BY <1>0, <1>2, DocumentFacts, ListElement DEF Types, ProcessMount
  <2>2. filesystems' \in Seq(MountEntry)
    BY <1>2, <2>1, ListGrows DEF ProcessMount, Selected
  <2> QED
    BY <1>0, <1>2, <2>2 DEF Types, ProcessMount
<1>3. CASE VolumesProcessed \/ FilesystemsProcessed
  BY <1>0, <1>3 DEF Types, VolumesProcessed, FilesystemsProcessed
<1>4. CASE GrammarSyntaxError \/ Reject
  BY <1>0, <1>4 DEF Types, GrammarSyntaxError, Reject, Stopped
<1>5. CASE Accept
  <2>1. \A n \in DOMAIN structure : structure[n] \in Entry
    BY <1>0, ListElement DEF Types
  <2>2. \A e \in Entry : [e EXCEPT !.label = Label(e)] \in Entry
    BY DEF Entry, Label
  <2>3. DOMAIN structure = 1..Len(structure) /\ Len(structure) \in Nat
    BY <1>0 DEF Types
  <2>4. structure' = [n \in 1..Len(structure) |->
                        [structure[n] EXCEPT !.label = Label(structure[n])]]
    BY <1>5, <2>3 DEF Accept
  <2>5. \A n \in 1..Len(structure) :
           [structure[n] EXCEPT !.label = Label(structure[n])] \in Entry
    BY <2>1, <2>2, <2>3
  <2>6. structure' \in Seq(Entry)
    BY <2>3, <2>4, <2>5
  <2> QED
    BY <1>0, <1>5, <2>6 DEF Types, Accept
<1>6. CASE AliasToDefault \/ PartitionsDone \/ LifecycleSetup \/ CreateImages
           \/ PartitionNotFound \/ ImageMountsDone
  <2>1. pc' \in {"partitions", "no_default", "lifecycle", "create", "refused",
                 "unimplemented", "mounts", "image_error", "done"}
    BY <1>6
    DEF AliasToDefault, PartitionsDone, LifecycleSetup, CreateImages, PartitionNotFound,
        ImageMountsDone
  <2>2. UNCHANGED <<document, structure, filesystems, partitions, validDefaultAlias,
                    imageMounts>>
    BY <1>6
    DEF AliasToDefault, PartitionsDone, LifecycleSetup, CreateImages, PartitionNotFound,
        ImageMountsDone
  <2>3. i' \in {i, 1}
    BY <1>6
    DEF AliasToDefault, PartitionsDone, LifecycleSetup, CreateImages, PartitionNotFound,
        ImageMountsDone
  <2> QED
    BY <1>0, <2>1, <2>2, <2>3 DEF Types, Stopped
<1>7. CASE PartitionItem
  <2>1. structure[i] \in Entry
    BY <1>0, <1>7, ListElement DEF Types, PartitionItem
  <2>2. PartitionName(structure[i]) \in {VolumeName} \X Names
    BY <2>1 DEF PartitionName, Entry
  <2>3. partitions' \in Seq({VolumeName} \X Names)
    <3> DEFINE S == {VolumeName} \X Names
    <3>1. partitions \in Seq(S) /\ PartitionName(structure[i]) \in S
      BY <1>0, <2>2 DEF Types
    <3> HIDE DEF S
    <3>2. /\ Append(partitions, PartitionName(structure[i])) \in Seq(S)
          /\ <<PartitionName(structure[i])>> \o partitions \in Seq(S)
      BY <3>1, ListGrows
    <3>3. partitions' \in Seq(S)
      BY <1>7, <3>2 DEF PartitionItem
    <3> QED
      BY <3>3 DEF S
  <2>4. validDefaultAlias' \in BOOLEAN
    BY <1>0, <1>7 DEF Types, PartitionItem
  <2>5. i' \in Nat \ {0}
    BY <1>0, <1>7 DEF Types, PartitionItem
  <2>6. UNCHANGED <<document, pc, structure, filesystems, imageMounts>>
    BY <1>7 DEF PartitionItem
  <2> QED
    BY <1>0, <2>3, <2>4, <2>5, <2>6 DEF Types
<1>8. CASE ImageMount
  <2>1. pc = "mounts" /\ i \in DOMAIN filesystems
    BY <1>8 DEF ImageMount
  <2> DEFINE name == NameFromDevice(filesystems[i].device)
  <2>2. PICK k \in Items : structure[k].name = name
    BY <1>8 DEF ImageMount, Found, Items
  <2>3. Layout!part_num(structure[k].name) \in Nat \ {0}
    BY <2>1, NumbersApply
  <2>4. filesystems[i].mount \in {"/", "/boot"}
    <3>1. filesystems[i] \in MountEntry
      BY <1>0, <2>1, ListElement DEF Types
    <3> QED
      BY <3>1 DEF MountEntry
  <2>5. [number |-> Layout!part_num(name), mount |-> filesystems[i].mount]
           \in [number : Nat \ {0}, mount : {"/", "/boot"}]
    BY <2>2, <2>3, <2>4
  <2>6. imageMounts' \in Seq([number : Nat \ {0}, mount : {"/", "/boot"}])
    BY <1>0, <1>8, <2>5 DEF Types, ImageMount
  <2> QED
    BY <1>0, <1>8, <2>6 DEF Types, ImageMount
<1>9. CASE UNCHANGED vars
  BY <1>0, <1>9 DEF Types, vars
<1> QED
  BY <1>1, <1>2, <1>3, <1>4, <1>5, <1>6, <1>7, <1>8, <1>9 DEF Next

(* The validators let nothing else through, and nothing is changed later.  *)
LEMMA AcceptedStep == PInv /\ [Next]_vars => Accepted'
<1> SUFFICES ASSUME PInv, [Next]_vars PROVE Accepted'
  OBVIOUS
<1>0. Types /\ Accepted
  BY DEF PInv
<1>1. CASE pc' \in Unread
  BY <1>1 DEF Accepted
<1>2. CASE Accept
  <2>1. /\ DOMAIN structure' = DOMAIN structure
        /\ \A n \in DOMAIN structure :
              structure'[n] = [structure[n] EXCEPT !.label = Label(structure[n])]
    BY <1>2 DEF Accept
  <2>2. \A n \in DOMAIN structure : structure[n] \in Entry
    BY <1>0, ListElement DEF Types
  <2>3. \A n \in DOMAIN structure :
           /\ structure'[n].number = structure[n].number
           /\ structure'[n].label = Label(structure[n])
    BY <2>1, <2>2 DEF Entry
  <2>4. ModelsValid /\ UNCHANGED <<document, filesystems>>
    BY <1>2 DEF Accept, input
  <2>5. NumbersValid'
    <3>1. Numbers' = Numbers
      BY <2>1, <2>3 DEF Numbers
    <3> QED
      BY <2>1, <2>3, <2>4, <3>1 DEF NumbersValid, ModelsValid
  <2>6. FilesystemsValid'
    BY <2>4 DEF ModelsValid, FilesystemsValid
  <2>7. \A n \in DOMAIN structure' : structure'[n].label # None
    <3>1. \A n \in DOMAIN structure : structure[n].name # None
      BY <2>2, DocumentsAssumption DEF Entry
    <3> QED
      BY <2>1, <2>3, <3>1 DEF Label
  <2>8. structure' # <<>>
    <3>1. structure \in Seq(Entry) /\ structure # <<>>
      BY <1>0, <2>4 DEF Types, ModelsValid
    <3>2. 1 \in DOMAIN structure
      BY <3>1
    <3> QED
      BY <2>1, <3>2
  <2> QED
    BY <2>5, <2>6, <2>7, <2>8 DEF Accepted, Items
<1>3. CASE pc \notin Unread /\ UNCHANGED <<document, structure, filesystems>>
  BY <1>0, <1>3
  DEF Accepted, Items, NumbersValid, Numbers, FilesystemsValid
<1>4. \/ pc' \in Unread
      \/ Accept
      \/ pc \notin Unread /\ UNCHANGED <<document, structure, filesystems>>
  <2>1. CASE ProcessItem \/ VolumesProcessed \/ ProcessMount \/ FilesystemsProcessed
               \/ GrammarSyntaxError \/ Reject
    BY <2>1
    DEF ProcessItem, VolumesProcessed, ProcessMount, FilesystemsProcessed,
        GrammarSyntaxError, Reject, Unread
  <2>2. CASE \/ AliasToDefault \/ PartitionItem \/ PartitionsDone \/ LifecycleSetup
             \/ CreateImages \/ ImageMount \/ PartitionNotFound \/ ImageMountsDone
    BY <2>2
    DEF AliasToDefault, PartitionItem, PartitionsDone, LifecycleSetup, CreateImages,
        ImageMount, PartitionNotFound, ImageMountsDone, Unread, input, models
  <2>3. CASE UNCHANGED vars
    BY <2>3 DEF vars, input, models
  <2> QED
    BY <2>1, <2>2, <2>3 DEF Next
<1> QED
  BY <1>1, <1>2, <1>3, <1>4

(* One more item: it is added in front or at the end, the others move      *)
(* together, and a list without repetitions was one before.                *)
LEMMA BuiltStep ==
    ASSUME Types, PartitionItem, i \in 1..(Len(structure) + 1), Built(i - 1)
    PROVE  i' \in 1..(Len(structure) + 1) /\ (Built(i - 1))'
<1> DEFINE L == Len(partitions)
           atEnd == Name(i) # Alias
           place == IF atEnd THEN L + 1 ELSE 1
           moved(m) == IF atEnd THEN m ELSE m + 1
<1>1. /\ i \in DOMAIN structure /\ i' = i + 1
      /\ UNCHANGED <<structure, filesystems>>
      /\ partitions \in Seq({VolumeName} \X Names)
      /\ Len(structure) \in Nat /\ DOMAIN structure = 1..Len(structure)
  BY DEF PartitionItem, models, Types
<1>2. L = i - 1 /\ L \in Nat /\ DOMAIN partitions = 1..L
  BY <1>1 DEF Built
<1>3. /\ Len(partitions') = L + 1 /\ DOMAIN partitions' = 1..(L + 1)
      /\ partitions'[place] = Name(i)
      /\ \A m \in 1..L : partitions'[moved(m)] = partitions[m]
  <2>1. CASE atEnd
    <3>1. partitions' = Append(partitions, Name(i))
      BY <2>1 DEF PartitionItem, Name
    <3> QED
      BY <1>1, <1>2, <2>1, <3>1
  <2>2. CASE ~atEnd
    <3>1. partitions' = <<Name(i)>> \o partitions
      BY <2>2 DEF PartitionItem, Name
    <3> QED
      BY <1>1, <1>2, <2>2, <3>1
  <2> QED
    BY <2>1, <2>2
<1>4. /\ place \in 1..(L + 1)
      /\ \A m \in 1..L : moved(m) \in 1..(L + 1) /\ moved(m) # place
      /\ \A m, n \in 1..L : m # n => moved(m) # moved(n)
  BY <1>2
<1>5. Alias' = Alias /\ \A k \in 1..i : Name(k)' = Name(k)
  BY <1>1 DEF Alias, Name, PartitionName
<1> HIDE DEF place, moved
<1>6. \A k \in 1..i : \E m \in DOMAIN partitions' : partitions'[m] = Name(k)
  <2> TAKE k \in 1..i
  <2>1. CASE k = i
    BY <1>3, <1>4, <2>1
  <2>2. CASE k # i
    <3>1. k \in 1..(i - 1)
      BY <1>1, <2>2
    <3>2. PICK m \in 1..L : partitions[m] = Name(k)
      BY <1>2, <3>1 DEF Built
    <3> QED
      BY <1>3, <1>4, <3>2
  <2> QED
    BY <2>1, <2>2
<1>7. validDefaultAlias' =>
         /\ partitions' # <<>> /\ partitions'[1] = Alias
         /\ \E k \in 1..i : Name(k) = Alias
  <2>1. CASE atEnd
    <3>1. validDefaultAlias' = validDefaultAlias
      BY <2>1 DEF PartitionItem, Name
    <3>2. SUFFICES ASSUME validDefaultAlias
                   PROVE  /\ partitions' # <<>> /\ partitions'[1] = Alias
                          /\ \E k \in 1..i : Name(k) = Alias
      BY <3>1
    <3>3. partitions # <<>> /\ partitions[1] = Alias /\ \E k \in 1..(i - 1) : Name(k) = Alias
      BY <3>2 DEF Built
    <3>4. partitions' = Append(partitions, Name(i))
      BY <2>1 DEF PartitionItem, Name
    <3>5. partitions' # <<>> /\ partitions'[1] = Alias
      BY <1>1, <3>3, <3>4
    <3> QED
      BY <1>1, <3>3, <3>5
  <2>2. CASE ~atEnd
    <3>1. partitions' = <<Name(i)>> \o partitions /\ Name(i) = Alias
      BY <2>2 DEF PartitionItem, Name
    <3>2. partitions' # <<>> /\ partitions'[1] = Alias
      BY <1>1, <3>1
    <3> QED
      BY <1>1, <3>1, <3>2
  <2> QED
    BY <2>1, <2>2
<1>8. ASSUME PartitionsUnique'
      PROVE  \A j, k \in 1..i : j # k => structure[j].name # structure[k].name
  <2>1. \A m, n \in 1..(L + 1) : m # n => partitions'[m] # partitions'[n]
    BY <1>3, <1>8 DEF PartitionsUnique
  <2>2. \A m, n \in 1..L : m # n => partitions[m] # partitions[n]
    BY <1>3, <1>4, <2>1
  <2>3. \A j, k \in 1..(i - 1) : j # k => structure[j].name # structure[k].name
    BY <1>2, <2>2 DEF Built, PartitionsUnique
  <2>4. \A k \in 1..(i - 1) : structure[k].name # structure[i].name
    <3> SUFFICES ASSUME NEW k \in 1..(i - 1) PROVE structure[k].name # structure[i].name
      OBVIOUS
    <3>1. PICK m \in 1..L : partitions[m] = Name(k)
      BY <1>2 DEF Built
    <3>2. Name(k) # Name(i)
      BY <1>3, <1>4, <2>1, <3>1
    <3> QED
      BY <3>2 DEF Name, PartitionName
  <2>5. \A k \in 1..i : k = i \/ k \in 1..(i - 1)
    BY <1>1
  <2> QED
    BY <2>3, <2>4, <2>5
<1>9. i' - 1 = i /\ i' \in 1..(Len(structure) + 1) /\ Len(partitions') = i
  BY <1>1, <1>2, <1>3
<1> QED
  BY <1>1, <1>5, <1>6, <1>7, <1>8, <1>9 DEF Built, Name, PartitionName

-----------------------------------------------------------------------------

(* The list as far as it has been built.                                   *)
LEMMA ListingStep == PInv /\ [Next]_vars => Listing'
<1> SUFFICES ASSUME PInv, [Next]_vars PROVE Listing'
  OBVIOUS
<1>0. Types /\ Listing
  BY DEF PInv
<1>1. CASE ProcessItem \/ VolumesProcessed \/ ProcessMount \/ FilesystemsProcessed
  <2>1. /\ pc \in {"volumes", "filesystems"}
        /\ pc' \in {"volumes", "filesystems", "validate"}
        /\ pc' = "validate" => i' = 1
        /\ UNCHANGED listing
    BY <1>1 DEF ProcessItem, VolumesProcessed, ProcessMount, FilesystemsProcessed
  <2> QED
    BY <1>0, <2>1 DEF Listing, Listed, Unread, listing
<1>2. CASE GrammarSyntaxError \/ Reject
  <2>1. pc \in {"volumes", "filesystems", "validate"} /\ pc' = "invalid" /\ UNCHANGED listing
    BY <1>0, <1>2, DocumentsAssumption DEF GrammarSyntaxError, Reject, Types
  <2> QED
    BY <1>0, <2>1 DEF Listing, Listed, Unread, listing
<1>3. CASE Accept
  BY <1>0, <1>3 DEF Listing, Listed, Unread, listing, Accept
<1>4. CASE AliasToDefault
  <2>1. /\ pc = "alias" /\ pc' \in {"partitions", "no_default"}
        /\ i' = 1 /\ partitions' = <<>> /\ ~validDefaultAlias'
        /\ UNCHANGED structure
    BY <1>0, <1>4 DEF AliasToDefault, Listing, Unread, listing, models
  <2>2. i' - 1 = 0 /\ i' \in 1..(Len(structure') + 1)
    BY <1>0, <2>1 DEF Types
  <2>3. Built(0)'
    BY <2>1 DEF Built
  <2> QED
    BY <2>1, <2>2, <2>3 DEF Listing, Listed, Unread
<1>5. CASE PartitionItem
  <2>1. /\ pc = "partitions" /\ pc' = "partitions"
        /\ UNCHANGED structure
        /\ i \in 1..(Len(structure) + 1) /\ Built(i - 1)
    BY <1>0, <1>5 DEF PartitionItem, Listing, models
  <2>2. i' \in 1..(Len(structure) + 1) /\ (Built(i - 1))'
    BY <1>0, <1>5, <2>1, BuiltStep
  <2> QED
    BY <2>1, <2>2 DEF Listing, Listed, Unread
<1>6. CASE PartitionsDone
  <2>1. /\ pc = "partitions" /\ i \in 1..(Len(structure) + 1) /\ Built(i - 1)
        /\ i \notin DOMAIN structure
        /\ pc' \in {"lifecycle", "no_default"} /\ pc' = "lifecycle" => validDefaultAlias
        /\ UNCHANGED <<structure, filesystems, partitions, validDefaultAlias>>
    BY <1>0, <1>6 DEF PartitionsDone, Listing, models, listing
  <2>2. i - 1 = Len(structure)
    BY <1>0, <2>1 DEF Types
  <2>3. Built(Len(structure))'
    BY <2>1, <2>2 DEF Built, Alias, Name, PartitionName, PartitionsUnique
  <2>4. pc' = "lifecycle" => validDefaultAlias'
    BY <1>6 DEF PartitionsDone, listing
  <2>5. pc' \in {"lifecycle", "no_default"}
    BY <1>6 DEF PartitionsDone
  <2> QED
    BY <2>3, <2>4, <2>5 DEF Listing, Listed, Unread
<1>7. CASE LifecycleSetup \/ CreateImages \/ ImageMount \/ PartitionNotFound
           \/ ImageMountsDone
  <2>1. /\ pc \in {"lifecycle", "create", "mounts"}
        /\ pc' \in {"refused", "unimplemented", "create", "mounts", "image_error", "done"}
        /\ UNCHANGED <<structure, filesystems, partitions, validDefaultAlias>>
        /\ pc' \in {"create", "mounts", "image_error", "done"} =>
              PartitionsUnique \/ pc \in {"create", "mounts"}
    BY <1>7
    DEF LifecycleSetup, CreateImages, ImageMount, PartitionNotFound, ImageMountsDone,
        models, listing
  <2>2. Built(Len(structure)) /\ validDefaultAlias
    BY <1>0, <2>1 DEF Listing, Listed
  <2>3. Built(Len(structure))'
    BY <2>1, <2>2 DEF Built, Alias, Name, PartitionName, PartitionsUnique
  <2>4. pc' \in {"create", "mounts", "image_error", "done"} => PartitionsUnique'
    BY <1>0, <2>1 DEF Listing, PartitionsUnique
  <2> QED
    BY <2>1, <2>2, <2>3, <2>4 DEF Listing, Listed, Unread
<1>8. CASE UNCHANGED vars
  BY <1>0, <1>8
  DEF Listing, Listed, Built, Alias, Name, PartitionName, PartitionsUnique, vars, models,
      listing
<1> QED
  BY <1>1, <1>2, <1>3, <1>4, <1>5, <1>6, <1>7, <1>8 DEF Next

-----------------------------------------------------------------------------

(* The mounts, the first of which is the root.                             *)
LEMMA MountingStep == PInv /\ [Next]_vars => Mounting'
<1> SUFFICES ASSUME PInv, [Next]_vars PROVE Mounting'
  OBVIOUS
<1>0. Types /\ Mounting
  BY DEF PInv
<1>1. CASE \/ ProcessItem \/ VolumesProcessed \/ ProcessMount \/ FilesystemsProcessed
           \/ GrammarSyntaxError \/ Reject \/ Accept \/ AliasToDefault \/ PartitionItem
           \/ PartitionsDone
  <2>1. /\ ~Created
        /\ pc' \notin {"create", "mounts", "image_error", "done"}
        /\ pc' = "lifecycle" => i' = 1
        /\ UNCHANGED imageMounts
    BY <1>0, <1>1, DocumentsAssumption
    DEF ProcessItem, VolumesProcessed, ProcessMount, FilesystemsProcessed,
        GrammarSyntaxError, Reject, Accept, AliasToDefault, PartitionItem, PartitionsDone,
        Created, Types
  <2> QED
    BY <1>0, <2>1 DEF Mounting, Created
<1>2. CASE LifecycleSetup
  BY <1>0, <1>2 DEF LifecycleSetup, Mounting, Created, input, models, listing
<1>3. CASE CreateImages
  <2>1. imageMounts = <<>> /\ i = 1 /\ pc = "create"
    BY <1>0, <1>3 DEF CreateImages, Mounting, Created
  <2>2. /\ pc' \in {"unimplemented", "mounts"}
        /\ pc' = "mounts" => document'.schema # "mbr,gpt"
        /\ imageMounts' = <<>> /\ i' = 1
    BY <1>3, <2>1 DEF CreateImages, input
  <2>3. i' = Len(imageMounts') + 1
    <3>1. Len(imageMounts') = 0
      BY <2>2
    <3>2. i' = 1
      BY <2>2
    <3> QED
      BY <3>1, <3>2
  <2> QED
    BY <2>2, <2>3 DEF Mounting, Created
<1>4. CASE ImageMount
  <2> DEFINE mount == [number |-> Layout!part_num(NameFromDevice(filesystems[i].device)),
                       mount |-> filesystems[i].mount]
  <2>1. /\ pc = "mounts" /\ pc' = "mounts"
        /\ i = Len(imageMounts) + 1 /\ i' = i + 1
        /\ imageMounts' = Append(imageMounts, mount)
        /\ UNCHANGED <<document, structure, filesystems, partitions>>
    BY <1>0, <1>4 DEF ImageMount, Mounting, input, models, listing
  <2> HIDE DEF mount
  <2>2. i' = Len(imageMounts') + 1 /\ imageMounts' # <<>>
    BY <1>0, <2>1 DEF Types
  <2>3. Root'
    <3>1. CASE imageMounts # <<>>
      <4>1. Root
        BY <1>0, <2>1, <3>1 DEF Mounting, Created
      <4>2. imageMounts'[1] = imageMounts[1]
        BY <1>0, <2>1, <3>1 DEF Types
      <4> QED
        BY <2>1, <4>1, <4>2
        DEF Root, Items, Name, PartitionName, Layout!ServiceNumber, Layout!structure,
            Layout!NeedsExtended, Volume
    <3>2. CASE imageMounts = <<>>
      <4>1. i = 1 /\ imageMounts'[1] = mount
        BY <2>1, <3>2
      <4>2. filesystems[1].mount = "/"
        BY <2>1 DEF PInv, Accepted, Unread, FilesystemsValid
      <4>3. partitions[1] = Alias /\ \E k \in 1..Len(structure) : Name(k) = Alias
        BY <2>1 DEF PInv, Listing, Listed, Built
      <4>4. PICK k \in Items : Name(k) = Alias
        BY <1>0, <4>3 DEF Types, Items
      <4>5. NameFromDevice(filesystems[1].device) = structure[k].name
        BY <4>4 DEF Alias, Name, PartitionName, NameFromDevice
      <4>6. Layout!part_num(structure[k].name) = Layout!ServiceNumber(k)
        BY <2>1, NumbersApply
      <4>7. mount.number = Layout!ServiceNumber(k) /\ mount.mount = "/"
        BY <4>1, <4>2, <4>5, <4>6 DEF mount
      <4>8. Layout!ServiceNumber(k)' = Layout!ServiceNumber(k)
        BY <2>1
        DEF Layout!ServiceNumber, Layout!structure, Layout!NeedsExtended, Volume
      <4> QED
        BY <2>1, <4>1, <4>3, <4>4, <4>7, <4>8 DEF Root, Items, Name, PartitionName
    <3> QED
      BY <3>1, <3>2
  <2> QED
    BY <1>0, <2>1, <2>2, <2>3 DEF Mounting, Created
<1>5. CASE PartitionNotFound \/ ImageMountsDone \/ UNCHANGED vars
  <2>1. /\ Created' <=> Created
        /\ UNCHANGED <<document, structure, filesystems, partitions, imageMounts, i>>
        /\ pc' \in {"lifecycle", "create", "mounts"} => pc' = pc
    BY <1>5 DEF PartitionNotFound, ImageMountsDone, vars, input, models, listing, Created
  <2>2. Root => Root'
    BY <2>1
    DEF Root, Items, Name, PartitionName, Layout!ServiceNumber, Layout!structure,
        Layout!NeedsExtended, Volume
  <2> QED
    BY <1>0, <2>1, <2>2 DEF Mounting, Created
<1> QED
  BY <1>1, <1>2, <1>3, <1>4, <1>5 DEF Next

(* The mounts are those of the entries, up to the one the loop is at.      *)
LEMMA MatchingStep == PInv /\ [Next]_vars => Matching' /\ AllMounted'
<1> SUFFICES ASSUME PInv, [Next]_vars PROVE Matching' /\ AllMounted'
  OBVIOUS
<1>0. Types /\ Mounting /\ Matching /\ AllMounted
  BY DEF PInv
<1>1. CASE \/ ProcessItem \/ VolumesProcessed \/ ProcessMount \/ FilesystemsProcessed
           \/ GrammarSyntaxError \/ Reject \/ Accept \/ AliasToDefault \/ PartitionItem
           \/ PartitionsDone \/ LifecycleSetup \/ CreateImages
  <2>1. ~Created /\ imageMounts' = imageMounts /\ pc' # "done"
    BY <1>0, <1>1, DocumentsAssumption
    DEF ProcessItem, VolumesProcessed, ProcessMount, FilesystemsProcessed,
        GrammarSyntaxError, Reject, Accept, AliasToDefault, PartitionItem, PartitionsDone,
        LifecycleSetup, CreateImages, listing, Created, Types
  <2>2. imageMounts' = <<>>
    BY <1>0, <2>1 DEF Mounting
  <2>3. DOMAIN imageMounts' = {}
    BY <2>2
  <2> QED
    BY <2>1, <2>3 DEF Matching, AllMounted
<1>2. CASE ImageMount
  <2> DEFINE name == NameFromDevice(filesystems[i].device)
             mount == [number |-> Layout!part_num(name), mount |-> filesystems[i].mount]
  <2>1. /\ pc = "mounts" /\ pc' = "mounts"
        /\ i = Len(imageMounts) + 1 /\ i \in DOMAIN filesystems
        /\ imageMounts' = Append(imageMounts, mount)
        /\ UNCHANGED <<document, structure, filesystems>>
        /\ Found(name)
    BY <1>0, <1>2 DEF ImageMount, Mounting, input, models, listing
  <2>2. PICK k \in Items : structure[k].name = name
    BY <2>1 DEF Found, Items
  <2>3. mount.mount = filesystems[i].mount /\ mount.number = Layout!ServiceNumber(k)
    BY <2>1, <2>2, NumbersApply
  <2> HIDE DEF mount
  <2>4. \A m \in Items : Layout!ServiceNumber(m)' = Layout!ServiceNumber(m)
    BY <2>1
    DEF Layout!ServiceNumber, Layout!structure, Layout!NeedsExtended, Volume
  <2>5. /\ DOMAIN imageMounts' = 1..i
        /\ imageMounts'[i] = mount
        /\ DOMAIN imageMounts = 1..(i - 1)
        /\ \A n \in 1..(i - 1) : imageMounts'[n] = imageMounts[n]
    BY <1>0, <2>1 DEF Types
  <2>6. ASSUME NEW n \in 1..i
        PROVE  /\ n \in DOMAIN filesystems
               /\ imageMounts'[n].mount = filesystems[n].mount
               /\ \E m \in Items :
                     /\ structure[m].name = NameFromDevice(filesystems[n].device)
                     /\ imageMounts'[n].number = Layout!ServiceNumber(m)
    <3>1. CASE n = i
      BY <2>1, <2>2, <2>3, <2>5, <3>1
    <3>2. CASE n # i
      <4>1. n \in DOMAIN imageMounts /\ imageMounts'[n] = imageMounts[n]
        BY <1>0, <2>5, <3>2 DEF Types
      <4> QED
        BY <1>0, <4>1 DEF Matching
    <3> QED
      BY <3>1, <3>2
  <2> QED
    BY <2>1, <2>4, <2>5, <2>6 DEF Matching, AllMounted, Items
<1>3. CASE PartitionNotFound \/ ImageMountsDone \/ UNCHANGED vars
  <2>1. UNCHANGED <<document, structure, filesystems, imageMounts>>
    BY <1>3 DEF PartitionNotFound, ImageMountsDone, vars, input, models, listing
  <2>2. Matching'
    BY <1>0, <2>1
    DEF Matching, Items, Layout!ServiceNumber, Layout!structure, Layout!NeedsExtended, Volume
  <2>3. AllMounted'
    <3>1. CASE ImageMountsDone
      <4>1. i = Len(imageMounts) + 1 /\ i \notin DOMAIN filesystems
        BY <1>0, <3>1 DEF ImageMountsDone, Mounting
      <4>2. /\ DOMAIN imageMounts = 1..Len(imageMounts) /\ Len(imageMounts) \in Nat
            /\ DOMAIN filesystems = 1..Len(filesystems) /\ Len(filesystems) \in Nat
        BY <1>0 DEF Types
      <4>3. Len(imageMounts) # 0 => Len(imageMounts) \in DOMAIN filesystems
        BY <1>0, <4>2 DEF Matching
      <4>4. \A a, f \in Nat :
                a + 1 \notin 1..f /\ (a # 0 => a \in 1..f) => a = f
        OBVIOUS
      <4>5. Len(imageMounts) = Len(filesystems)
        BY <4>1, <4>2, <4>3, <4>4
      <4> QED
        BY <2>1, <4>5 DEF AllMounted
    <3> QED
      BY <1>0, <1>3, <2>1, <3>1 DEF PartitionNotFound, vars, AllMounted
  <2> QED
    BY <2>2, <2>3
<1> QED
  BY <1>1, <1>2, <1>3 DEF Next

LEMMA Invariance == Spec => []PInv
<1>1. PInv /\ [Next]_vars => PInv'
  BY TypesStep, AcceptedStep, ListingStep, MountingStep, MatchingStep DEF PInv
<1> QED
  BY InitOK, <1>1, PTL DEF Spec

-----------------------------------------------------------------------------

(* Types, and the labels of accepted items, for every document.            *)
THEOREM TypeCorrect == Spec => []TypeOK
<1>1. PInv => TypeOK
  BY DEF PInv, Types, Accepted, Unread, Items, TypeOK
<1> QED
  BY <1>1, Invariance, PTL

(* The partition filled by default is the one mounted as "/", and it is    *)
(* mounted under the number its loop path has, for lists of any length.    *)
THEOREM TheRootIsTheDefault == Spec => []RootIsDefault
<1>1. PInv => RootIsDefault
  BY DEF PInv, Listing, Listed, Built, Mounting, Root, Items, Name, RootIsDefault
<1> QED
  BY <1>1, Invariance, PTL

(* Every filesystem entry is mounted from the partition that was filled    *)
(* for the item it names, for documents with any number of both.           *)
THEOREM MountsAreTheFilledPartitions == Spec => []MountsMatchLoopPaths
<1>1. ASSUME PInv PROVE MountsMatchLoopPaths
  <2>1. pc = "done" => DOMAIN imageMounts = DOMAIN filesystems
    BY <1>1 DEF PInv, Types, AllMounted
  <2> QED
    BY <1>1, <2>1 DEF PInv, Matching, Items, MountsMatchLoopPaths
<1> QED
  BY <1>1, Invariance, PTL

(* Every structure item is in the list that craft-parts is given.          *)
THEOREM ItemsHaveDirectories == Spec => []EveryItemHasADirectory
<1>1. ASSUME PInv PROVE EveryItemHasADirectory
  <2>1. DOMAIN structure = 1..Len(structure)
    BY <1>1 DEF PInv, Types
  <2> QED
    BY <1>1, <2>1 DEF PInv, Listing, Built, Name, EveryItemHasADirectory
<1> QED
  BY <1>1, Invariance, PTL

(* What VolumeLayout assumes of a volume holds of every volume that gets   *)
(* as far as create_images: the theorems about layouts apply to it.        *)
THEOREM AcceptedVolumesCanBeLaidOut == Spec => []LayoutAccepts
<1>1. ASSUME PInv, Created PROVE Layout!ValidDisk(Volume)
  <2>1. /\ structure \in Seq(Entry) /\ structure # <<>>
        /\ document.schema \in {"gpt", "mbr"}
        /\ NumbersValid
    BY <1>1, DocumentFacts DEF PInv, Types, Accepted, Unread, Created, Mounting
  <2>2. \A j, k \in DOMAIN structure : j # k => structure[j].name # structure[k].name
    <3>1. DOMAIN structure = 1..Len(structure)
      BY <2>1
    <3> QED
      BY <1>1, <3>1 DEF PInv, Listing, Listed, Created, Built
  <2>3. \A j \in DOMAIN structure : structure[j].number \in Numbers
    BY DEF Numbers
  <2>4. \A j, k \in DOMAIN structure :
           /\ structure[j].number = None <=> structure[k].number = None
           /\ j # k /\ structure[j].number # None =>
                 structure[j].number # structure[k].number
           /\ document.schema = "mbr" => structure[j].number = None
    BY <2>1, <2>3 DEF NumbersValid
  <2> QED
    BY <2>1, <2>2, <2>4 DEF Layout!ValidDisk, Volume
<1>2. PInv => LayoutAccepts
  BY <1>1 DEF LayoutAccepts
<1> QED
  BY <1>2, Invariance, PTL

=============================================================================
