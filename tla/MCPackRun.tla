------------------------------ MODULE MCPackRun ------------------------------
(* Instances of the program for TLC: one volume of two partitions, one or  *)
(* two parts, as many processes as there are files for.                    *)
EXTENDS PackRun, TLC

Symmetry ==
    Permutations(Inodes) \cup Permutations(Devices) \cup Permutations(Partitions)

(* No process is killed, and no other program uses loop devices.           *)
OrderlyNext ==
    \/ ServiceRuns \/ Lifecycle \/ Pack \/ SetupGrub \/ ProgramExit
    \/ stage = "exit" /\ op = "idle" /\ NewProcess
OrderlySpec == ProgramInit /\ [][OrderlyNext]_allVars

=============================================================================
