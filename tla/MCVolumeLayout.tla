--------------------------- MODULE MCVolumeLayout ---------------------------
(* Volumes for TLC: GPT volumes of up to three items with and without      *)
(* explicit numbers, MBR volumes of up to six, with sizes around the       *)
(* boundaries of a sector.                                                 *)
EXTENDS VolumeLayout, FiniteSets

CONSTANTS MaxGpt, MaxMbr, Sizes

Lists(n, boots, numbers) ==
    {[k \in 1..n |-> [name |-> k, size |-> sizes[k], boot |-> k \in boot,
                      number |-> num[k]]] :
        sizes \in [1..n -> Sizes], boot \in boots, num \in numbers}

Unnumbered(n) == {[k \in 1..n |-> None]}
Numbered(n) ==
    {f \in [1..n -> {1, 2, 3, 128}] : \A j, k \in 1..n : f[j] = f[k] => j = k}

MCDisks ==
    {[schema |-> "gpt", structure |-> s] :
        s \in UNION {Lists(n, {{1}}, Unnumbered(n) \cup Numbered(n)) : n \in 1..MaxGpt}}
    \cup
    {[schema |-> "mbr", structure |-> s] :
        s \in UNION {Lists(n, {{}, {1}, {n}}, Unnumbered(n)) : n \in 1..MaxMbr}}

=============================================================================
