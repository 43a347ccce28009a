--------------------------- MODULE MCProjectModel ---------------------------
(* Documents for TLC: every structure of up to two entries under a few     *)
(* filesystems, and every filesystem of up to two entries over a few       *)
(* structures, one of them an MBR volume with logical partitions.          *)
EXTENDS ProjectModel

Lists(S) == {<<>>} \cup {<<a>> : a \in S} \cup (S \X S)

On == {{"pc"}, {"pc", "pi"}}
Labels == {None, "rootfs"}

Entries == [name : {"efi", "rootfs"}, label : Labels, number : {None, 1, 2}, on : On]

MCDevices == {<<>>, <<"default">>, <<"rootfs">>, <<"v", "efi">>, <<"v", "rootfs">>, <<"w", "efi">>}
Mounts == [mount : {"/", "/boot"}, device : MCDevices, on : On]

All == {"pc", "pi"}
Mount(m, d) == [mount |-> m, device |-> d, on |-> All]
Plain(name, number) == [name |-> name, label |-> None, number |-> number, on |-> All]

Document(schema, s, f, fs, bad) ==
    [schema |-> schema, structure |-> s, filesystems |-> f, filesystem |-> fs,
     badGrammar |-> bad]

FewFilesystems ==
    {<<Mount("/", <<"v", "rootfs">>), Mount("/boot", <<"v", "efi">>)>>,
     <<Mount("/", <<"v", "efi">>)>>}
FewStructures ==
    {<<"gpt", <<Plain("efi", 3), Plain("boot", 1), Plain("rootfs", 2)>>>>,
     <<"mbr", <<Plain("efi", None), Plain("boot", None), Plain("save", None),
                Plain("rootfs", None), Plain("seed", None)>>>>}

MCDocuments ==
    {Document(schema, s, f, "default", {}) :
        schema \in {"gpt", "mbr", "mbr,gpt"}, s \in Lists(Entries), f \in FewFilesystems}
    \cup
    {Document(v[1], v[2], f, fs, bad) :
        v \in FewStructures, f \in Lists(Mounts), fs \in {"default", "other"},
        bad \in {{}, {"volumes"}, {"filesystems"}}}

=============================================================================
