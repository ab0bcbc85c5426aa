-------------------------------- MODULE MCFat -------------------------------
(***************************************************************************)
(* Instances of Fat for TLC.                                               *)
(***************************************************************************)
EXTENDS Fat, TLC

CONSTANTS t1, t2, A, D

(* The chains of a file and a directory, contiguous or in pieces.          *)
Whole == A :> <<2, 3>> @@ D :> <<4, 5, 6>>
Pieces == A :> <<6, 4, 2>> @@ D :> <<3>>
(* The entries of the chain ch, written to the table tab, and the table of *)
(* a volume.  The upper bits of FAT32 entries are not zero.                *)
Chained(tab, bits, ch) ==
    LET w[k \in 0 .. Len(ch)] ==
            IF k = 0 THEN tab
            ELSE ent_put(bits, w[k - 1], Pos(bits, ch[k]),
                         IF k = Len(ch) THEN FAT_ENT_EOF ELSE ch[k + 1])
    IN w[Len(ch)]
Table(bits, chains) ==
    LET tab[S \in SUBSET Files] ==
            IF S = {} THEN [o \in OffsetsOf(bits) |-> IF bits = 32 /\ o % 4 = 3 THEN 160 ELSE 0]
            ELSE LET f == CHOOSE f \in S : TRUE IN Chained(tab[S \ {f}], bits, chains[f])
    IN tab[Files]
Volume(bits, chains, free, next) ==
    [bits |-> bits, fat |-> Table(bits, chains), chains |-> chains, free_clusters |-> free, next_cluster |-> next]
MCVolumes ==
    {Volume(12, Pieces, Unknown, FAT_START_ENT), Volume(16, Whole, Unknown, FAT_START_ENT),
     Volume(32, Pieces, 0, max_cluster - 1)}
ThreadSym == Permutations({t1, t2})
=============================================================================
