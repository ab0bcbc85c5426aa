------------------------------- MODULE MCFsop -------------------------------
(***************************************************************************)
(* Instances of Fsop for TLC.                                              *)
(***************************************************************************)
EXTENDS Fsop

CONSTANTS n1, n2, n3, Short   \* names, and whether n1 is the shorter one

(* n1 and n2 collide.                                                      *)
MCHash == n1 :> 0 @@ n2 :> 0 @@ n3 :> 1
MCNlen == n1 :> (IF Short THEN 1 ELSE 2) @@ n2 :> 2 @@ n3 :> 2
MCIds ==
    LET I == {RootIno} \cup (FirstIno + 1) .. LastInum
    IN {inode_id_init(i) : i \in I} \cup {data_id_init(i, b) : i \in I, b \in {0, 1}}
        \cup {obj_id(i, DENTARR, h) : i \in I, h \in {0, 1}}
Colliding == Permutations({n1, n2})
=============================================================================
