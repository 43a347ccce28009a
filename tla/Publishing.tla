----------------------------- MODULE Publishing -----------------------------
(***************************************************************************)
(* What somebody who takes disk images from the destination directory may  *)
(* rely on: an image is drafted out of sight, can be started anew at any   *)
(* time, appears at the destination in one step and only when it has all   *)
(* it needs, and is changed there by nothing but the boot loader's         *)
(* installation, until the next one takes its place.                       *)
(***************************************************************************)
CONSTANTS
    Needed,     \* what a disk image needs before it is published
    Extra,      \* what else may be written to a draft
    Boot,       \* what the installation of the boot loader adds
    Absent      \* there is no such file

VARIABLES
    draft,      \* the image under construction
    published   \* the image at the destination

Init ==
    /\ draft = Absent
    /\ published = Absent

Start ==
    /\ draft' = {}
    /\ UNCHANGED published

Write(p) ==
    /\ draft # Absent
    /\ draft' = draft \cup {p}
    /\ UNCHANGED published

Publish ==
    /\ draft # Absent
    /\ Needed \subseteq draft
    /\ published' = draft
    /\ draft' = Absent

InstallBoot ==
    /\ published # Absent
    /\ published' = published \cup {Boot}
    /\ UNCHANGED draft

Next ==
    \/ Start \/ Publish \/ InstallBoot
    \/ \E p \in Needed \cup Extra : Write(p)

Spec == Init /\ [][Next]_<<draft, published>>

=============================================================================
