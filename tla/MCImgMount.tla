----------------------------- MODULE MCImgMount -----------------------------
(* Two images at a time out of four files: two with the same partitions,   *)
(* one that shares a name with them, and one with an MBR.                  *)
EXTENDS ImgMount, TLC

CONSTANTS gpt1, gpt2, other, mbr

MCLayout ==
    gpt1 :> <<"efi", "rootfs">> @@ gpt2 :> <<"efi", "rootfs">> @@
    other :> <<"efi", "data">> @@ mbr :> <<None>>

=============================================================================
