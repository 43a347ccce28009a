--------------------------- MODULE MCImageService ---------------------------
(* Instances of the image service for TLC.  Files and loop devices are     *)
(* interchangeable.                                                        *)
EXTENDS ImageService, TLC

Symmetry == Permutations(Inodes) \cup Permutations(Devices)

(* The service on a host where no other program uses loop devices.         *)
AloneNext == ServiceStep \/ ClientCall \/ Exit \/ Restart
AloneSpec == Init /\ [][AloneNext]_vars

=============================================================================
