----------------------------- MODULE GrubStages -----------------------------
(***************************************************************************)
(* The joint of the two models: setup_grub in detail (GrubChroot) does to  *)
(* the host and to the program nothing but what PackRun's stages "grub" to *)
(* "grub_detach" say it may do.                                            *)
(***************************************************************************)
EXTENDS GrubChroot

Stage ==
    CASE pc = "start" -> "grub"
      [] pc \in {"image_mounts", "setup", "recv", "join", "cleanup"} -> "grub_install"
      [] pc = "detach" -> "grub_detach"
      [] pc = "returned" -> "done"
      [] pc = "raised" -> IF interrupted \in {"start", "detach"} THEN "interrupted"
                                                                 ELSE "pack_failed"

Left == pc \in {"detach", "returned", "raised"}

(* One image of a `pack', at its destination.  For PackRun the image has   *)
(* GRUB when all commands have run, from the time the parent has seen it.  *)
Program == INSTANCE PackRun WITH
    Volumes <- {"disk"}, Hybrid <- {},
    Devices <- {"loop"}, Inodes <- {"image"},
    Partitions <- {}, Parts <- {}, Grub <- "GRUB", Payloads <- {"GRUB"},
    Faults <- IF "losetup" \in Faults THEN {"attach", "detach"} ELSE {},
    CrossDevice <- FALSE, MaxTries <- 1,
    Table <- "table", None <- "none", Foreign <- "foreign",
    backing <- [d \in {"loop"} |-> IF device THEN "image" ELSE "none"],
    hidden <- [v \in {"disk"} |-> "none"],
    final <- [v \in {"disk"} |-> "image"],
    used <- {"image"},
    content <- [i \in {"image"} |-> IF Left /\ ran = Commands THEN {"GRUB"} ELSE {}],
    images <- "none",
    loopDevices <- [v \in {"disk"} |-> "none"],
    atexitRegistered <- TRUE,
    emitter <- TRUE,
    op <- "idle", todo <- {}, current <- "none",
    listing <- [d \in {"loop"} |-> "none"],
    tries <- 0,
    outcome <- IF Stage = "interrupted" THEN "interrupted" ELSE "finalized",
    stage <- Stage,
    command <- "pack",
    unformatted <- {},
    raising <- Left /\ exception # "none",
    grubDevice <- IF named THEN "loop" ELSE "none",
    partsDone <- {}, partsHere <- {}, earlier <- {}

(* Every step of the parent and of the child is a step of PackRun's grub   *)
(* stages or none to it, with any fault and with Ctrl-C: in particular,    *)
(* once there is a loop device, every way out goes through the detaching   *)
(* of it, and an installation that failed is not mistaken for one.         *)
FollowsTheStages == [][Program!SetupGrub \/ Program!Interrupt]_(Program!allVars)

=============================================================================
