-------------------------- MODULE GrubChrootProofs --------------------------
(***************************************************************************)
(* Theorems about setup_grub, for every list of filesystem entries with    *)
(* "/" first - in any order, on top of one another or not -, every tree of *)
(* directories and every combination of faults.  The invariant GInv        *)
(* follows the list of mounts up and down: what is mounted is what the     *)
(* loop has passed, and on the way down anything left behind the loop has  *)
(* been noted as an error, and is what `umount' failed on or hidden by it. *)
(***************************************************************************)
EXTENDS GrubChroot, TLAPS

N == Len(order)

Parent == pc \in {"start", "image_mounts"} =>
    /\ k = 1 /\ mounted = {} /\ recorded = {} /\ child = "none"
    /\ ~umountErrors /\ exception = "none"
    /\ pc = "image_mounts" => device

(* No mount is taken away from below another.                              *)
MountsStand == \A r \in mounted : StandsOn(r) \subseteq mounted

(* The loop of _setup has mounted the entries before k.                    *)
SettingUp ==
    pc = "setup" =>
        /\ k \in 1..(N + 1)
        /\ mounted = 1..(k - 1) /\ recorded = 1..(k - 1)
        /\ child = "none" /\ device /\ exception = "none" /\ ~umountErrors

(* While the parent waits, nothing is unmounted.                           *)
Waiting ==
    /\ pc \in {"recv", "join"} => mounted = 1..N /\ device /\ exception = "none"
                                   /\ child # "none"
    /\ pc \notin {"recv", "join"} /\ interrupted = "none" =>
          child \in {"none", "exited", "killed"}

(* `umount' failed on entry m, or on one that hides it.                    *)
Accounted(m) == \E s \in stuck : s >= m /\ AtOrBelow(order[m], order[s])

(* The loop of _cleanup has passed the entries after k.                    *)
CleaningUp ==
    pc = "cleanup" =>
        /\ k \in 0..N
        /\ \A n \in mounted : n > k => umountErrors /\ Accounted(n)

(* After a missing directory, that of entry j, _cleanup meets the mounts    *)
(* from the last one to the first, each on top.                            *)
Unwinding ==
    pc = "cleanup" /\ exception = "ChrootMountError" /\ stuck = {} =>
        /\ ~umountErrors
        /\ \E j \in 1..N :
              /\ recorded = 1..j
              /\ k >= j => mounted = 1..(j - 1) /\ ~Exists(j)
              /\ k < j => mounted = 1..k

CleanedUp ==
    /\ pc = "detach" /\ mounted # {} => exception # "none"
    /\ pc = "returned" => mounted = {}
    /\ pc \in {"detach", "raised"} /\ interrupted # "cleanup" =>
          \A m \in mounted : Accounted(m)

Done ==
    CASE child = "check" -> {}
      [] child = "install" -> {"check"}
      [] child = "divert" -> {"check", "install"}
      [] child = "update" -> {"check", "install", "divert"}
      [] child = "undivert" -> {"check", "install", "divert", "update"}
      [] OTHER -> ran

(* How far the child is, what it has answered, and what the parent knows.  *)
Answers ==
    /\ ran = Done
    /\ child \in Commands \cup {"none"} => pipe = "none"
    /\ child = "none" => ran = {} /\ answer = "none"
    /\ pipe = "result" => ran \in {{}, Commands}
    /\ answer # "none" => answer = pipe
    /\ pc # "recv" /\ child # "none" /\ interrupted # "recv" => answer # "none"
    /\ pc = "recv" => answer = "none"
    /\ pc = "cleanup" /\ exception # "none" /\ interrupted = "none" => child = "none"
    /\ pc = "detach" /\ exception = "none" => answer # "error"
    /\ pc = "returned" => answer # "error"

(* Ctrl-C is on its way out, as itself or as the error of the clean up.    *)
Interrupted ==
    interrupted # "none" =>
        /\ pc \in {"cleanup", "detach", "raised"}
        /\ exception \notin {"none", "ChrootMountError"}

GInv ==
    /\ TypeOK /\ Interrupted
    /\ mounted \subseteq recorded /\ MountsStand /\ Unwinding
    /\ Parent /\ SettingUp /\ Waiting /\ CleaningUp /\ CleanedUp
    /\ Answers

USE DEF Running

-----------------------------------------------------------------------------
(* What the list of mounts is made of.                                     *)
LEMMA OrderFacts ==
    ASSUME order \in Mounts
    PROVE  /\ order \in Seq(Seq(STRING)) /\ \A n \in 1..N : order[n] \in Seq(STRING)
           /\ N \in Nat /\ N >= 1 /\ DOMAIN order = 1..N
           /\ Len(Kernel) \in Nat /\ Len(Kernel) < N
           /\ \A n \in (N - Len(Kernel) + 1)..N :
                 /\ n - (N - Len(Kernel)) \in DOMAIN Kernel
                 /\ order[n] = Kernel[n - (N - Len(Kernel))]
<1> PICK f \in Filesystems : order = f \o Kernel
  BY DEF Mounts
<1>1. f \in Seq(Seq(STRING)) /\ f # <<>> /\ Kernel \in Seq(Seq(STRING))
  BY ChrootAssumption
<1>2. Len(f) \in Nat /\ Len(f) >= 1 /\ Len(Kernel) \in Nat /\ DOMAIN Kernel = 1..Len(Kernel)
  BY <1>1
<1>3. /\ order \in Seq(Seq(STRING)) /\ N = Len(f) + Len(Kernel)
      /\ \A n \in 1..N : order[n] = IF n <= Len(f) THEN f[n] ELSE Kernel[n - Len(f)]
  BY <1>1 DEF N
<1>4. N \in Nat /\ DOMAIN order = 1..N /\ \A n \in 1..N : order[n] \in Seq(STRING)
  BY <1>3 DEF N
<1> QED
  BY <1>2, <1>3, <1>4

LEMMA PathsNest ==
    /\ \A p \in Seq(STRING) : AtOrBelow(p, p)
    /\ \A p, q, r \in Seq(STRING) :
          AtOrBelow(p, q) /\ AtOrBelow(q, r) => AtOrBelow(p, r)
BY DEF AtOrBelow

(* A mount that no later one hides is what its path leads to.              *)
LEMMA UnhiddenIsOnTop ==
    ASSUME TypeOK, NEW n \in mounted,
           \A c \in mounted : c > n => ~AtOrBelow(order[n], order[c])
    PROVE  Resolve(n) = {n} /\ Top(n) = {n} /\ Exists(n)
<1>1. n \in Nat /\ mounted \subseteq Nat /\ order[n] \in Seq(STRING)
  BY OrderFacts DEF TypeOK
<1>2. AtOrBelow(order[n], order[n])
  BY <1>1, PathsNest
<1>3. \A m \in mounted : AtOrBelow(order[n], order[m]) => m <= n
  BY <1>1
<1>4. n \in Resolve(n)
  BY <1>2, <1>3 DEF Resolve
<1>5. ASSUME NEW d \in Resolve(n) PROVE d = n
  <2>1. d \in mounted /\ d <= n /\ n <= d
    BY <1>2, <1>3, <1>5 DEF Resolve
  <2> QED
    BY <1>1, <2>1
<1>6. Resolve(n) = {n}
  BY <1>4, <1>5
<1> QED
  BY <1>6 DEF Top, Exists

(* Standing on a mount is handed down.                                     *)
LEMMA TreesNest ==
    ASSUME TypeOK, NEW t \in 1..N, NEW q \in 1..N, NEW r \in 1..N,
           t \in StandsOn(q), q \in StandsOn(r)
    PROVE  t \in StandsOn(r)
<1>1. /\ N \in Nat
      /\ order[t] \in Seq(STRING) /\ order[q] \in Seq(STRING) /\ order[r] \in Seq(STRING)
  BY OrderFacts DEF TypeOK
<1>2. t < q /\ q < r /\ AtOrBelow(order[q], order[t]) /\ AtOrBelow(order[r], order[q])
  BY <1>1 DEF StandsOn
<1>3. AtOrBelow(order[r], order[t])
  BY <1>1, <1>2, PathsNest
<1>4. ASSUME NEW c \in (t + 1)..(r - 1), Below(order[t], order[c]) PROVE FALSE
  <2>1. c \in 1..N /\ order[c] \in Seq(STRING)
    <3>1. c \in 1..N
      BY <1>1
    <3> QED
      BY <3>1, OrderFacts DEF TypeOK
  <2>2. CASE c < q
    BY <1>1, <1>4, <2>1, <2>2 DEF StandsOn
  <2>3. CASE c = q
    BY <1>1, <1>2, <1>4, <2>1, <2>3 DEF Below, AtOrBelow
  <2>4. CASE c > q
    <3>1. Below(order[q], order[c])
      BY <1>1, <1>2, <1>4, <2>1 DEF Below, AtOrBelow
    <3> QED
      BY <1>1, <1>4, <2>1, <2>4, <3>1 DEF StandsOn
  <2> QED
    BY <1>1, <2>1, <2>2, <2>3, <2>4
<1> QED
  BY <1>1, <1>2, <1>3, <1>4 DEF StandsOn

(* Unmounting a set of mounts with everything that stands on them leaves   *)
(* no mount without the ones it stands on.                                 *)
LEMMA UnmountingTrees ==
    ASSUME MountsStand, NEW gone,
           \A r \in gone : Tree(r) \subseteq gone,
           mounted' = mounted \ gone, order' = order
    PROVE  MountsStand'
<1> SUFFICES ASSUME NEW r \in mounted \ gone, NEW m \in StandsOn(r)
             PROVE  m \in mounted \ gone
  BY DEF MountsStand, StandsOn
<1>1. m \in mounted
  BY DEF MountsStand
<1>2. m \in gone => r \in Tree(m)
  BY DEF Tree
<1> QED
  BY <1>1, <1>2

LEMMA TreesAreClosed ==
    ASSUME TypeOK, NEW t \in mounted
    PROVE  \A r \in Tree(t) : Tree(r) \subseteq Tree(t)
<1> SUFFICES ASSUME NEW q \in Tree(t), NEW r \in Tree(q) PROVE r \in Tree(t)
  OBVIOUS
<1>1. q \in 1..N /\ r \in 1..N /\ t \in 1..N /\ r \in mounted
  BY OrderFacts DEF TypeOK, Tree
<1>2. CASE q = t \/ r = q
  BY <1>2 DEF Tree
<1>3. CASE t \in StandsOn(q) /\ q \in StandsOn(r)
  BY <1>1, <1>3, TreesNest DEF Tree
<1> QED
  BY <1>2, <1>3 DEF Tree

(* Where nothing is mounted or unmounted.                                  *)
LEMMA HostUnchanged ==
    ASSUME MountsStand, UNCHANGED <<order, present, mounted>>
    PROVE  /\ MountsStand'
           /\ Unwinding /\ UNCHANGED <<pc, k, exception, stuck, umountErrors, recorded>>
                 => Unwinding'
<1>1. MountsStand' /\ N' = N
  BY DEF MountsStand, StandsOn, N
<1>2. ASSUME NEW j PROVE Resolve(j)' = Resolve(j)
  BY DEF Resolve
<1>3. ASSUME NEW j \in 1..N, ~Exists(j) PROVE ~Exists(j)'
  BY <1>2, <1>3 DEF Exists
<1> QED
  BY <1>1, <1>3 DEF Unwinding

LEMMA InitGInv == Init => GInv
<1> SUFFICES ASSUME Init PROVE GInv
  OBVIOUS
<1> USE DEF Init
<1>1. TypeOK
  <2>1. k \in 0..(Len(order) + 1)
    BY OrderFacts DEF N
  <2> QED
    BY <2>1 DEF TypeOK
<1>2. Parent /\ mounted \subseteq recorded /\ MountsStand /\ Unwinding
      /\ SettingUp /\ Waiting /\ CleaningUp /\ CleanedUp
  BY DEF MountsStand, Unwinding, Parent, SettingUp, Waiting, CleaningUp, CleanedUp
<1>3. Answers /\ Interrupted
  BY DEF Answers, Done, Commands, Interrupted
<1> QED
  BY <1>1, <1>2, <1>3 DEF GInv

-----------------------------------------------------------------------------
(* The parent up to the first mount, and after the last.                   *)
LEMMA OutsideGInv ==
    ASSUME GInv, Skip \/ AttachLoopdev \/ ImageMounts \/ DetachLoopdevs \/ Leave
    PROVE  GInv'
<1> USE DEF GInv, Skip, AttachLoopdev, ImageMounts, DetachLoopdevs,
            Leave, Raise
<1>1. TypeOK'
  BY DEF TypeOK
<1>2. (mounted \subseteq recorded)' /\ MountsStand' /\ Unwinding'
  BY HostUnchanged DEF Unwinding
<1>3. Parent' /\ Waiting' /\ CleaningUp' /\ CleanedUp'
  BY DEF Parent, Waiting, CleaningUp, CleanedUp, Accounted, N
<1>4. SettingUp'
  <2>1. 1..(1 - 1) = {}
    OBVIOUS
  <2> SUFFICES ASSUME pc' = "setup" PROVE SettingUp'
    BY DEF SettingUp
  <2>2. child' = "none" /\ device' /\ exception' = "none" /\ ~umountErrors'
    BY DEF Parent
  <2>3. k' = 1 /\ mounted' = {} /\ recorded' = {}
    BY DEF Parent
  <2>4. /\ k' \in 1..(N + 1)
        /\ mounted' = 1..(k' - 1) /\ recorded' = 1..(k' - 1)
    BY <2>1, <2>3, OrderFacts DEF TypeOK, N
  <2> QED
    BY <2>2, <2>4 DEF SettingUp, N
<1>5. Answers' /\ Interrupted'
  BY DEF Answers, Done, Commands, Parent, Interrupted
<1> QED
  BY <1>1, <1>2, <1>3, <1>4, <1>5

(* One mount, or the failure of it.                                        *)
LEMMA MountEntryGInv ==
    ASSUME GInv, MountEntry
    PROVE  GInv'
<1> USE DEF GInv, MountEntry, CleanupBegin, Raise
<1>0. /\ N \in Nat /\ DOMAIN order = 1..N /\ k \in 1..N /\ 1..k = 1..(k - 1) \cup {k}
      /\ mounted = 1..(k - 1) /\ recorded = 1..(k - 1) /\ N' = N
  BY OrderFacts DEF TypeOK, SettingUp, N
<1>1. TypeOK'
  <2>1. order' = order /\ present' = present
    OBVIOUS
  <2>2. mounted' \subseteq DOMAIN order /\ recorded' \subseteq DOMAIN order /\ stuck' = stuck
    BY <1>0
  <2>3. k' \in 0..(Len(order) + 1)
    BY <1>0 DEF N
  <2>4. pc' \in Running /\ exception' \in {exception, "ChrootMountError", "CalledProcessError"}
    BY DEF TypeOK
  <2> QED
    BY <2>1, <2>2, <2>3, <2>4 DEF TypeOK
<1>2. (mounted \subseteq recorded)' /\ MountsStand'
  BY <1>0 DEF MountsStand, StandsOn
<1>7. Unwinding'
  <2> SUFFICES ASSUME pc' = "cleanup", exception' = "ChrootMountError", stuck' = {}
               PROVE  Unwinding'
    BY DEF Unwinding
  <2>1. ~Exists(k) /\ mounted' = mounted /\ k' = N /\ ~umountErrors'
    BY DEF SettingUp, N
  <2>2. PICK j \in 1..N : j = k
    BY <1>0
  <2>3. ~Exists(j)'
    BY <2>1, <2>2 DEF Exists, Resolve
  <2>4. recorded' = 1..j /\ mounted' = 1..(j - 1) /\ k' >= j /\ ~(k' < j)
    BY <1>0, <2>1, <2>2
  <2> QED
    BY <1>0, <2>1, <2>3, <2>4 DEF Unwinding
<1>3. Parent' /\ Waiting' /\ CleanedUp'
  BY DEF Parent, Waiting, CleanedUp, SettingUp
<1>4. SettingUp'
  <2>1. pc' = "setup" => /\ k' = k + 1 /\ mounted' = 1..k /\ recorded' = 1..k
                         /\ child' = "none" /\ device' /\ exception' = "none"
    BY <1>0 DEF SettingUp
  <2>2. k + 1 \in 1..(N + 1) /\ (k + 1) - 1 = k
    BY <1>0
  <2> QED
    BY <1>0, <2>1, <2>2 DEF SettingUp
<1>5. CleaningUp'
  BY <1>0 DEF CleaningUp, N
<1>6. Answers' /\ Interrupted'
  BY DEF Answers, Done, Commands, SettingUp, Interrupted
<1> QED
  BY <1>1, <1>2, <1>3, <1>4, <1>5, <1>6, <1>7

(* The child is started, its answer received, its end awaited.             *)
LEMMA ExecuteGInv ==
    ASSUME GInv, ChildStart \/ Recv \/ Join
    PROVE  GInv'
<1> USE DEF GInv
<1>1. CASE ChildStart
  <2> USE <1>1 DEF ChildStart
  <2>1. k = N + 1 /\ mounted = 1..N /\ child = "none" /\ device /\ N' = N
    BY OrderFacts DEF TypeOK, SettingUp, N
  <2>2. TypeOK'
    BY DEF TypeOK, Commands
  <2>3. Parent' /\ (mounted \subseteq recorded)' /\ MountsStand' /\ Unwinding' /\ SettingUp' /\ Waiting' /\ CleaningUp' /\ CleanedUp'
    BY <2>1, HostUnchanged DEF Unwinding, Parent, SettingUp, Waiting, CleaningUp, CleanedUp
  <2>4. Answers' /\ Interrupted'
    BY <2>1 DEF Answers, Done, Commands, Interrupted
  <2> QED
    BY <2>2, <2>3, <2>4
<1>2. CASE Recv
  <2> USE <1>2 DEF Recv
  <2>1. TypeOK'
    BY DEF TypeOK
  <2>2. Parent' /\ (mounted \subseteq recorded)' /\ MountsStand' /\ Unwinding' /\ SettingUp' /\ Waiting' /\ CleaningUp' /\ CleanedUp'
    BY HostUnchanged DEF Unwinding, N, Parent, SettingUp, Waiting, CleaningUp, CleanedUp
  <2>3. Answers' /\ Interrupted'
    BY DEF Answers, Done, Commands, Waiting, Interrupted
  <2> QED
    BY <2>1, <2>2, <2>3
<1>3. CASE Join
  <2> USE <1>3 DEF Join, CleanupBegin, Raise
  <2>1. TypeOK'
    BY DEF TypeOK, N
  <2>2. Parent' /\ (mounted \subseteq recorded)' /\ MountsStand' /\ Unwinding' /\ SettingUp' /\ Waiting' /\ CleanedUp'
    BY HostUnchanged DEF Unwinding, Parent, SettingUp, Waiting, CleanedUp
  <2>3. CleaningUp'
    BY OrderFacts DEF TypeOK, CleaningUp, N
  <2>4. Answers' /\ Interrupted'
    BY DEF Answers, Done, Commands, Interrupted
  <2> QED
    BY <2>1, <2>2, <2>3, <2>4
<1> QED
  BY <1>1, <1>2, <1>3

LEMMA ChildGInv ==
    ASSUME GInv, ChildStep \/ ChildKilled
    PROVE  GInv'
<1> USE DEF GInv, ChildStep, ChildKilled, CommandRuns, Undivert, GrubMissing,
            CommandFails, ChildExits, ChildUnchanged
<1>0. /\ child \in Commands \cup {"sent"} /\ pc' = pc
      /\ pc \in {"recv", "join"} \/ interrupted # "none"
  BY DEF Waiting, Commands, TypeOK
<1>1. TypeOK'
  <2>1. TypeOK
    OBVIOUS
  <2>2. child' \in Commands \cup {"sent", "exited", "killed"} /\ ran' \subseteq ran \cup Commands
    BY DEF Commands, Following
  <2>3. pipe' \in {pipe, "result", "error"}
    OBVIOUS
  <2>4. UNCHANGED <<interrupted, order, named, present, mounted, pc, k, recorded, stuck,
                    umountErrors, exception, answer, device>>
    BY DEF ChildUnchanged
  <2> HIDE DEF GInv, ChildStep, ChildKilled
  <2> QED
    BY <2>1, <2>2, <2>3, <2>4 DEF TypeOK
<1>2. (mounted \subseteq recorded)' /\ MountsStand' /\ Unwinding'
  BY HostUnchanged DEF Unwinding
<1>3. Parent' /\ SettingUp' /\ CleaningUp' /\ CleanedUp'
  BY <1>0 DEF Parent, Interrupted, SettingUp, CleaningUp, CleanedUp, Accounted, N
<1>4. Waiting' /\ Interrupted'
  BY <1>0 DEF Waiting, Interrupted, Commands, Following, N
<1>5. Answers'
  <2>1. CASE CommandRuns
    BY <1>0, <2>1 DEF Answers, Done, Commands, Following
  <2>2. CASE Undivert
    BY <1>0, <2>2 DEF Answers, Done, Commands
  <2>3. CASE GrubMissing
    BY <1>0, <2>3 DEF Answers, Done, Commands
  <2>4. CASE CommandFails
    BY <1>0, <2>4 DEF Answers, Done, Commands
  <2>5. CASE ChildExits \/ ChildKilled
    BY <1>0, <2>5 DEF Answers, Done, Commands
  <2> QED
    BY <2>1, <2>2, <2>3, <2>4, <2>5
<1> QED
  BY <1>1, <1>2, <1>3, <1>4, <1>5

(* One round of _cleanup.  Entry k is hidden by a mount whose turn is      *)
(* over, or is gone, or is noted.                                          *)
LEMMA CleanupRoundGInv ==
    ASSUME GInv, UmountSkip \/ UmountEntry \/ UmountFails
    PROVE  GInv'
<1> USE DEF GInv
<1> DEFINE Noted(n) == \E s \in stuck' : s >= n /\ AtOrBelow(order[n], order[s])
<1>0. /\ pc = "cleanup" /\ pc' = pc /\ k \in 1..N /\ k' = k - 1 /\ DOMAIN order = 1..N
      /\ N \in Nat
      /\ UNCHANGED <<order, present, recorded, exception, answer, named, device, pipe,
                     child, ran, interrupted, N>>
  BY OrderFacts DEF TypeOK, CleaningUp, UmountSkip, UmountEntry, UmountFails, N
<1>1. mounted' \subseteq mounted
  BY DEF UmountSkip, UmountEntry, UmountFails
<1>2. umountErrors' \in BOOLEAN /\ (umountErrors => umountErrors')
  <2>1. umountErrors' = umountErrors \/ umountErrors' = TRUE
    BY DEF UmountSkip, UmountEntry, UmountFails
  <2>2. umountErrors \in BOOLEAN
    BY DEF TypeOK
  <2>3. CASE umountErrors' = umountErrors
    BY <2>2, <2>3
  <2>4. CASE umountErrors' = TRUE
    BY <2>4
  <2> QED
    BY <2>1, <2>3, <2>4
<1>3. stuck \subseteq stuck' /\ stuck' \subseteq DOMAIN order
  BY DEF UmountSkip, UmountEntry, UmountFails, TypeOK, Top, Resolve
<1>4. TypeOK'
  <2>1. mounted' \subseteq DOMAIN order
    BY <1>1 DEF TypeOK
  <2>2. k' \in 0..(Len(order) + 1)
    BY <1>0 DEF N
  <2> QED
    BY <1>0, <1>2, <1>3, <2>1, <2>2 DEF TypeOK
<1>5. ASSUME NEW n, Accounted(n) PROVE Noted(n)
  <2>1. PICK s \in stuck : s >= n /\ AtOrBelow(order[n], order[s])
    BY <1>5 DEF Accounted
  <2> QED
    BY <1>3, <2>1
<1>6. k \in mounted' => umountErrors' /\ Noted(k)
  <2> SUFFICES ASSUME k \in mounted' PROVE umountErrors' /\ Noted(k)
    OBVIOUS
  <2>0. k \in mounted /\ k \in recorded
    BY <1>1
  <2>1. CASE \E c \in mounted : c > k /\ AtOrBelow(order[k], order[c])
    <3>1. PICK c \in mounted : c > k /\ AtOrBelow(order[k], order[c])
      BY <2>1
    <3>2. umountErrors /\ Accounted(c)
      BY <1>0, <3>1 DEF CleaningUp
    <3>3. PICK s \in stuck : s >= c /\ AtOrBelow(order[c], order[s])
      BY <3>2 DEF Accounted
    <3>4. /\ c \in 1..N /\ s \in 1..N
          /\ order[k] \in Seq(STRING) /\ order[c] \in Seq(STRING) /\ order[s] \in Seq(STRING)
      <4>1. c \in 1..N /\ s \in 1..N
        BY <1>0, <3>3 DEF TypeOK
      <4> QED
        BY <1>0, <4>1, OrderFacts DEF TypeOK
    <3>5. s >= k /\ AtOrBelow(order[k], order[s])
      BY <1>0, <3>1, <3>3, <3>4, PathsNest
    <3>6. Accounted(k)
      BY <3>5 DEF Accounted
    <3> QED
      BY <1>2, <1>5, <3>2, <3>6
  <2>2. CASE \A c \in mounted : c > k => ~AtOrBelow(order[k], order[c])
    <3>1. Top(k) = {k} /\ Exists(k)
      BY <2>0, <2>2, UnhiddenIsOnTop
    <3>2. ~UmountSkip
      BY <2>0, <3>1 DEF UmountSkip
    <3>3. ~UmountEntry
      BY <2>0, <3>1 DEF UmountEntry, Tree
    <3>4. umountErrors' /\ k \in stuck'
      BY <3>1, <3>2, <3>3 DEF UmountFails
    <3>5. order[k] \in Seq(STRING) /\ AtOrBelow(order[k], order[k])
      BY <1>0, OrderFacts, PathsNest DEF TypeOK
    <3> QED
      BY <1>0, <3>4, <3>5
  <2> QED
    BY <2>1, <2>2
<1>7. CleaningUp'
  <2> SUFFICES ASSUME NEW n \in mounted', n > k - 1 PROVE umountErrors' /\ Noted(n)
    BY <1>0 DEF CleaningUp, Accounted
  <2>1. n \in 1..N
    BY <1>0, <1>1 DEF TypeOK
  <2>2. CASE n = k
    BY <1>6, <2>2
  <2>3. CASE n > k
    BY <1>0, <1>1, <1>2, <1>5, <2>3 DEF CleaningUp
  <2> QED
    BY <1>0, <2>1, <2>2, <2>3
<1>8. Parent' /\ (mounted \subseteq recorded)' /\ SettingUp' /\ Waiting' /\ CleanedUp'
  BY <1>0, <1>1 DEF Parent, SettingUp, Waiting, CleanedUp
<1>10. MountsStand'
  <2>1. CASE mounted' = mounted
    BY <1>0, <2>1, HostUnchanged
  <2>2. CASE UmountEntry
    <3>1. PICK t \in Top(k) : mounted' = mounted \ Tree(t)
      BY <2>2 DEF UmountEntry
    <3> QED
      BY <1>0, <3>1, TreesAreClosed, UnmountingTrees DEF Top, Resolve
  <2>3. CASE UmountFails /\ mounted' # mounted
    <3>0. PICK t \in Top(k) : \E gone \in Partly(t) : mounted' = mounted \ gone
      BY <2>3 DEF UmountFails
    <3>1. PICK gone \in Partly(t) : mounted' = mounted \ gone
      BY <3>0
    <3>2. \A r \in gone : Tree(r) \subseteq gone
      BY <3>1 DEF Partly
    <3> QED
      BY <1>0, <3>1, <3>2, UnmountingTrees
  <2> QED
    BY <2>1, <2>2, <2>3 DEF UmountSkip
<1>11. Unwinding'
  <2> SUFFICES ASSUME exception = "ChrootMountError", stuck' = {}
               PROVE  Unwinding'
    BY <1>0 DEF Unwinding
  <2>1. stuck = {}
    BY <1>3
  <2>2. PICK j \in 1..N :
          /\ recorded = 1..j
          /\ k >= j => mounted = 1..(j - 1) /\ ~Exists(j)
          /\ k < j => mounted = 1..k
    BY <1>0, <2>1 DEF Unwinding
  <2>3. ~umountErrors
    BY <1>0, <2>1 DEF Unwinding
  <2>4. CASE k > j
    <3>1. UmountSkip
      BY <1>0, <2>2, <2>4 DEF UmountEntry, UmountFails
    <3> QED
      BY <1>0, <2>2, <2>3, <2>4, <3>1 DEF UmountSkip, Unwinding, Exists, Resolve
  <2>5. CASE k = j
    <3>1. Top(k) = {}
      BY <2>2, <2>5 DEF Top, Exists
    <3>2. UmountSkip
      BY <2>2, <2>5, <3>1 DEF UmountEntry, UmountFails
    <3> QED
      BY <1>0, <2>2, <2>3, <2>5, <3>2 DEF UmountSkip, Unwinding
  <2>6. CASE k < j
    <3>1. Top(k) = {k} /\ Exists(k)
      BY <1>0, <2>2, <2>6, UnhiddenIsOnTop
    <3>2. UmountEntry
      BY <1>0, <2>2, <2>6, <3>1 DEF UmountSkip, UmountFails
    <3>3. Tree(k) = {k}
      BY <1>0, <2>2, <2>6 DEF Tree, StandsOn
    <3>4. mounted' = 1..(k - 1) /\ umountErrors' = umountErrors
      BY <1>0, <2>2, <2>6, <3>1, <3>2, <3>3 DEF UmountEntry
    <3> QED
      BY <1>0, <2>2, <2>3, <2>6, <3>4 DEF Unwinding
  <2> QED
    BY <1>0, <2>4, <2>5, <2>6
<1>9. Answers' /\ Interrupted'
  BY <1>0 DEF Answers, Done, Commands, Interrupted
<1> QED
  BY <1>4, <1>7, <1>8, <1>9, <1>10, <1>11

LEMMA CleanupDoneGInv ==
    ASSUME GInv, CleanupDone
    PROVE  GInv'
<1> USE DEF GInv, CleanupDone
<1>1. \A n \in mounted : umountErrors /\ Accounted(n)
  BY OrderFacts DEF CleaningUp, TypeOK, N
<1>2. TypeOK'
  BY DEF TypeOK
<1>3. Parent' /\ (mounted \subseteq recorded)' /\ MountsStand' /\ Unwinding' /\ SettingUp' /\ Waiting' /\ CleaningUp'
  BY HostUnchanged DEF Unwinding, Parent, SettingUp, Waiting, CleaningUp
<1>4. CleanedUp'
  BY <1>1 DEF CleanedUp, Accounted, TypeOK
<1>5. Answers' /\ Interrupted'
  BY DEF Answers, Done, Commands, Interrupted
<1> QED
  BY <1>2, <1>3, <1>4, <1>5

(* Ctrl-C.  What the child has done and is going to do no longer matters.  *)
LEMMA InterruptGInv ==
    ASSUME GInv, Interrupt
    PROVE  GInv'
<1> USE DEF GInv, Interrupt, CleanupBegin, Raise
<1>1. recorded \subseteq recorded' /\ recorded' \subseteq DOMAIN order
  BY DEF TypeOK
<1>2. TypeOK'
  <2>1. k' \in 0..(Len(order) + 1)
    BY OrderFacts DEF TypeOK, N
  <2> QED
    BY <1>1, <2>1 DEF TypeOK
<1>3. (mounted \subseteq recorded)' /\ MountsStand' /\ Unwinding'
  BY <1>1, HostUnchanged DEF Unwinding
<1>4. Parent' /\ SettingUp' /\ Waiting'
  BY DEF Parent, SettingUp, Waiting
<1>5. CleaningUp' /\ CleanedUp'
  BY OrderFacts DEF TypeOK, CleaningUp, CleanedUp, Accounted, Parent, N
<1>6. Answers' /\ Interrupted'
  BY DEF Answers, Done, Commands, Interrupted
<1> QED
  BY <1>2, <1>3, <1>4, <1>5, <1>6

LEMMA StepGInv == GInv /\ [Next]_vars => GInv'
<1> SUFFICES ASSUME GInv, [Next]_vars PROVE GInv'
  OBVIOUS
<1>1. CASE Skip \/ AttachLoopdev \/ ImageMounts \/ DetachLoopdevs \/ Leave
  BY <1>1, OutsideGInv
<1>2. CASE MountEntry
  BY <1>2, MountEntryGInv
<1>3. CASE ChildStart \/ Recv \/ Join
  BY <1>3, ExecuteGInv
<1>4. CASE ChildStep \/ ChildKilled
  BY <1>4, ChildGInv
<1>5. CASE UmountSkip \/ UmountEntry \/ UmountFails
  BY <1>5, CleanupRoundGInv
<1>6. CASE CleanupDone
  BY <1>6, CleanupDoneGInv
<1>7. CASE Interrupt
  BY <1>7, InterruptGInv
<1>8. CASE UNCHANGED vars
  BY <1>8, HostUnchanged DEF vars, GInv, TypeOK, N, Accounted, Parent, SettingUp, Waiting,
              CleaningUp, CleanedUp, Answers, Done,
              Interrupted
<1> QED
  BY <1>1, <1>2, <1>3, <1>4, <1>5, <1>6, <1>7, <1>8 DEF Next, ParentStep

LEMMA GInvHolds == Spec => []GInv
<1> QED
  BY InitGInv, StepGInv, PTL DEF Spec

-----------------------------------------------------------------------------
(* The variables of setup_grub keep their types.                           *)
THEOREM TypeCorrect == Spec => []TypeOK
<1>1. GInv => TypeOK
  BY DEF GInv
<1> QED
  BY <1>1, GInvHolds, PTL

(* The GRUB commands run with everything mounted and the image's loop      *)
(* device attached: Chroot.execute unmounts nothing before the child has   *)
(* ended.                                                                  *)
THEOREM CommandsSeeTheWholeChroot == Spec => []TargetInFullChroot
<1>1. GInv => TargetInFullChroot
  <2> SUFFICES ASSUME GInv, child \in Commands \cup {"sent"}, interrupted = "none"
               PROVE  /\ mounted = DOMAIN order /\ device
                      /\ \A n \in DOMAIN order : n > N - Len(Kernel) => Resolve(n) = {n}
    BY DEF TargetInFullChroot, N
  <2> USE DEF GInv
  <2>1. mounted = 1..N /\ device
    BY DEF Waiting, Commands
  <2>2. /\ N \in Nat /\ Len(Kernel) \in Nat /\ DOMAIN order = 1..N
        /\ \A n \in (N - Len(Kernel) + 1)..N :
              /\ n - (N - Len(Kernel)) \in DOMAIN Kernel
              /\ order[n] = Kernel[n - (N - Len(Kernel))]
    BY OrderFacts DEF TypeOK
  <2>3. ASSUME NEW n \in 1..N, n > N - Len(Kernel), NEW c \in mounted, c > n
        PROVE  ~AtOrBelow(order[n], order[c])
    <3>1. n \in (N - Len(Kernel) + 1)..N /\ c \in (N - Len(Kernel) + 1)..N
      BY <2>1, <2>2, <2>3
    <3>2. DEFINE i == n - (N - Len(Kernel))
                 j == c - (N - Len(Kernel))
    <3>3. /\ i \in DOMAIN Kernel /\ j \in DOMAIN Kernel
          /\ order[n] = Kernel[i] /\ order[c] = Kernel[j]
      BY <2>2, <3>1
    <3>4. i < j
      BY <2>1, <2>2, <2>3
    <3> HIDE DEF i, j
    <3>5. ~AtOrBelow(Kernel[i], Kernel[j])
      BY <3>3, <3>4, ChrootAssumption
    <3> QED
      BY <3>3, <3>5
  <2>4. ASSUME NEW n \in 1..N, n > N - Len(Kernel) PROVE Resolve(n) = {n}
    BY <2>1, <2>3, <2>4, UnhiddenIsOnTop
  <2> QED
    BY <2>1, <2>2, <2>4
<1> QED
  BY <1>1, GInvHolds, PTL

(* setup_grub raises when Chroot._cleanup has left something mounted, also *)
(* where the exception in flight would have been ignored.                  *)
THEOREM LeftMountsAreReported == Spec => []LeftMountsReported
<1>1. GInv => LeftMountsReported
  BY DEF GInv, CleanedUp, LeftMountsReported, Ended
<1> QED
  BY <1>1, GInvHolds, PTL

(* Chroot._cleanup leaves nothing mounted but what umount itself failed    *)
(* on, after any partial _setup.                                           *)
THEOREM CleanupIsComplete == Spec => []CleanAfterwards
<1>1. GInv => CleanAfterwards
  BY DEF GInv, CleanedUp, CleanAfterwards, Accounted, Ended
<1> QED
  BY <1>1, GInvHolds, PTL

(* When setup_grub returns, _grub_install has run all its commands or has  *)
(* changed nothing.                                                        *)
THEOREM InstallationIsAtomic == Spec => []AllOrNothing
<1>1. GInv => AllOrNothing
  BY DEF GInv, Answers, AllOrNothing, TypeOK, Waiting, Interrupted
<1> QED
  BY <1>1, GInvHolds, PTL

(* Chroot._cleanup meets no error of its own after a missing directory,    *)
(* whichever it was and whatever lies on what: setup_grub ignores it.      *)
THEOREM MissingDirectoriesAreQuiet == Spec => []MissingDirectoryQuiet
<1>1. GInv => MissingDirectoryQuiet
  BY DEF GInv, Unwinding, MissingDirectoryQuiet
<1> QED
  BY <1>1, GInvHolds, PTL

(* The mounts in the chroot are a tree at all times: `umount --recursive', *)
(* also where it fails half-way, takes nothing away from below another.    *)
THEOREM MountsAlwaysStand == Spec => []MountsStand
<1>1. GInv => MountsStand
  BY DEF GInv
<1> QED
  BY <1>1, GInvHolds, PTL

-----------------------------------------------------------------------------
(* The steps the parent and the child can still take, and Ctrl-C.          *)
ParentLeft ==
    CASE pc = "start" -> 2 * N + 8
      [] pc = "image_mounts" -> 2 * N + 7
      [] pc = "setup" -> (N + 1 - k) + N + 6
      [] pc = "recv" -> N + 5
      [] pc = "join" -> N + 4
      [] pc = "cleanup" -> k + 3
      [] pc = "detach" -> IF device THEN 2 ELSE 1
      [] pc \in {"returned", "raised"} -> 0

ChildLeft ==
    CASE child = "none" -> 7
      [] child = "check" -> 6
      [] child = "install" -> 5
      [] child = "divert" -> 4
      [] child = "update" -> 3
      [] child = "undivert" -> 2
      [] child = "sent" -> 1
      [] child \in {"exited", "killed"} -> 0

StepsLeft == ParentLeft + ChildLeft

LEMMA ValuesOfParentLeft ==
    /\ pc = "start" => ParentLeft = 2 * N + 8
    /\ pc = "image_mounts" => ParentLeft = 2 * N + 7
    /\ pc = "setup" => ParentLeft = (N + 1 - k) + N + 6
    /\ pc = "recv" => ParentLeft = N + 5
    /\ pc = "join" => ParentLeft = N + 4
    /\ pc = "cleanup" => ParentLeft = k + 3
    /\ pc = "detach" => ParentLeft = IF device THEN 2 ELSE 1
    /\ pc \in {"returned", "raised"} => ParentLeft = 0
  BY DEF ParentLeft

LEMMA ParentLeftAfterwards ==
    ASSUME N' = N
    PROVE  /\ pc' = "start" => ParentLeft' = 2 * N + 8
           /\ pc' = "image_mounts" => ParentLeft' = 2 * N + 7
           /\ pc' = "setup" => ParentLeft' = (N + 1 - k') + N + 6
           /\ pc' = "recv" => ParentLeft' = N + 5
           /\ pc' = "join" => ParentLeft' = N + 4
           /\ pc' = "cleanup" => ParentLeft' = k' + 3
           /\ pc' = "detach" => ParentLeft' = IF device' THEN 2 ELSE 1
           /\ pc' \in {"returned", "raised"} => ParentLeft' = 0
  BY DEF ParentLeft

LEMMA RangesOfLeft ==
    ASSUME GInv
    PROVE  N \in Nat /\ ParentLeft \in 0..(2 * N + 8) /\ ChildLeft \in 0..7
<1>1. N \in Nat /\ N >= 1
  BY OrderFacts DEF GInv, TypeOK
<1>2. /\ pc \in Running \cup {"returned", "raised"}
      /\ pc = "setup" => k \in 1..(N + 1)
      /\ pc = "cleanup" => k \in 0..N
  BY DEF GInv, TypeOK, SettingUp, CleaningUp
<1>3. ParentLeft \in 0..(2 * N + 8)
  BY <1>1, <1>2, ValuesOfParentLeft DEF Running
<1>4. ChildLeft \in 0..7
  BY DEF ChildLeft, GInv, TypeOK, Commands
<1> QED
  BY <1>1, <1>3, <1>4

LEMMA SumsDecrease ==
    \A p, pp, c, cc \in Nat :
        \/ pp < p /\ (cc = c \/ cc < c)
        \/ pp = p /\ cc < c
        => pp + cc < p + c
  OBVIOUS

LEMMA OrderStays ==
    ASSUME Next
    PROVE  order' = order
  BY DEF Next, ParentStep, ChildStep, Skip, AttachLoopdev, ImageMounts, MountEntry,
         ChildStart, Recv, Join, UmountSkip, UmountEntry, UmountFails, CleanupDone,
         DetachLoopdevs, Leave, CommandRuns, Undivert, GrubMissing, CommandFails,
         ChildExits, ChildKilled, ChildUnchanged, Interrupt

LEMMA StepsRunOut ==
    ASSUME GInv, Next
    PROVE  StepsLeft' < StepsLeft
<1>1. N \in Nat /\ N >= 1 /\ N' = N /\ DOMAIN order = 1..N
  BY OrderFacts, OrderStays DEF GInv, TypeOK, N
<1>2. GInv'
  BY StepGInv
<1>3. /\ pc \in Running \cup {"returned", "raised"}
      /\ pc = "setup" => k \in 1..(N + 1)
      /\ pc = "cleanup" => k \in 0..N
      /\ pc = "start" => child = "none"
      /\ pc = "setup" => child = "none"
  BY DEF GInv, TypeOK, SettingUp, CleaningUp, Parent
<1>4. /\ pc' = "setup" => k' \in 1..(N + 1)
      /\ pc' = "cleanup" => k' \in 0..N
  BY <1>1, <1>2 DEF GInv, SettingUp, CleaningUp
<1>5. /\ ParentLeft \in Nat /\ ChildLeft \in Nat
      /\ ParentLeft' \in Nat /\ ChildLeft' \in Nat
  <2>1. ParentLeft \in Nat /\ ChildLeft \in Nat
    BY RangesOfLeft
  <2>2. pc' \in Running \cup {"returned", "raised"}
    BY <1>2 DEF GInv, TypeOK
  <2>3. ParentLeft' \in Nat
    BY <1>1, <1>4, <2>2, ParentLeftAfterwards DEF Running
  <2>4. ChildLeft' \in Nat
    BY <1>2 DEF ChildLeft, GInv, TypeOK, Commands
  <2> QED
    BY <2>1, <2>3, <2>4
<1>6. ASSUME \/ ParentLeft' < ParentLeft /\ (ChildLeft' = ChildLeft \/ ChildLeft' < ChildLeft)
             \/ ParentLeft' = ParentLeft /\ ChildLeft' < ChildLeft
      PROVE  StepsLeft' < StepsLeft
  BY <1>5, <1>6, SumsDecrease DEF StepsLeft
<1>7. CASE \/ Skip \/ AttachLoopdev \/ ImageMounts \/ MountEntry
           \/ Recv \/ Join \/ CleanupDone \/ DetachLoopdevs \/ Leave \/ Interrupt
  <2>1. child' = child
    BY <1>7 DEF Skip, AttachLoopdev, ImageMounts, MountEntry, Recv, Join, CleanupDone,
                DetachLoopdevs, Leave, Interrupt
  <2>2. ChildLeft' = ChildLeft
    BY <2>1 DEF ChildLeft
  <2>3. ParentLeft' < ParentLeft
    <3>1. CASE Skip \/ AttachLoopdev \/ ImageMounts \/ Interrupt
      BY <1>1, <1>3, <1>4, <3>1, ValuesOfParentLeft, ParentLeftAfterwards
      DEF Skip, AttachLoopdev, ImageMounts, Interrupt, Raise, CleanupBegin, N
    <3>2. CASE MountEntry
      BY <1>1, <1>3, <1>4, <3>2, ValuesOfParentLeft, ParentLeftAfterwards
      DEF MountEntry, Raise, CleanupBegin, N
    <3>3. CASE Recv \/ Join \/ CleanupDone \/ DetachLoopdevs \/ Leave
      BY <1>1, <1>3, <3>3, ValuesOfParentLeft, ParentLeftAfterwards
      DEF Recv, Join, CleanupDone, DetachLoopdevs, Leave, Raise, CleanupBegin, N
    <3> QED
      BY <1>7, <3>1, <3>2, <3>3
  <2> QED
    BY <1>6, <2>2, <2>3
<1>8. CASE ChildStart
  <2>1. pc = "setup" /\ pc' = "recv" /\ child = "none" /\ child' = "check"
    BY <1>3, <1>8 DEF ChildStart
  <2>2. ParentLeft' < ParentLeft
    BY <1>1, <1>3, <2>1, ValuesOfParentLeft, ParentLeftAfterwards
  <2>3. ChildLeft' < ChildLeft
    BY <2>1 DEF ChildLeft
  <2> QED
    BY <1>6, <2>2, <2>3
<1>9. CASE UmountSkip \/ UmountEntry \/ UmountFails
  <2>1. pc = "cleanup" /\ pc' = "cleanup" /\ k' = k - 1 /\ child' = child
    BY <1>9 DEF UmountSkip, UmountEntry, UmountFails
  <2>2. ParentLeft' < ParentLeft
    BY <1>1, <1>3, <2>1, ValuesOfParentLeft, ParentLeftAfterwards
  <2>3. ChildLeft' = ChildLeft
    BY <2>1 DEF ChildLeft
  <2> QED
    BY <1>6, <2>2, <2>3
<1>10. CASE ChildStep \/ ChildKilled
  <2>1. pc' = pc /\ k' = k /\ device' = device
    BY <1>10
    DEF ChildStep, CommandRuns, Undivert, GrubMissing, CommandFails, ChildExits,
        ChildKilled, ChildUnchanged
  <2>2. ParentLeft' = ParentLeft
    BY <1>1, <1>3, <2>1, ValuesOfParentLeft, ParentLeftAfterwards DEF Running
  <2>3. ChildLeft' < ChildLeft
    BY <1>10
    DEF ChildStep, CommandRuns, Undivert, GrubMissing, CommandFails, ChildExits,
        ChildKilled, Commands, Following, ChildLeft
  <2> QED
    BY <1>6, <2>2, <2>3
<1> QED
  BY <1>7, <1>8, <1>9, <1>10 DEF Next, ParentStep

(* setup_grub takes at most 2 * N + 15 steps for N mounts, with any fault  *)
(* and with Ctrl-C: neither Chroot._cleanup nor the child goes round in    *)
(* circles, so that all it can do for ever is to wait.                     *)
THEOREM SetupIsBounded ==
    Spec => [](StepsLeft \in 0..(2 * Len(order) + 15)) /\ [][StepsLeft' < StepsLeft]_vars
<1>1. GInv => StepsLeft \in 0..(2 * Len(order) + 15)
  BY RangesOfLeft DEF StepsLeft, N
<1>2. GInv /\ [Next]_vars => [StepsLeft' < StepsLeft]_vars
  BY StepsRunOut
<1> QED
  BY <1>1, <1>2, GInvHolds, PTL DEF Spec

=============================================================================
