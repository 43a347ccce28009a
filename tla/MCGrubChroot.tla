---------------------------- MODULE MCGrubChroot ----------------------------
(* Lists that map partitions to the paths an image usually has, in an      *)
(* order that hides one, and to a path of the kernel's.                    *)
EXTENDS GrubStages

MCFilesystems ==
    { << <<>>, <<"boot", "efi">> >>,
      << <<>>, <<"boot", "efi">>, <<"boot">> >>,
      << <<>>, <<"dev">> >> }

MCKernel == << <<"dev">>, <<"dev", "pts">>, <<"run">> >>

=============================================================================
