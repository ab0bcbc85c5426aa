-------------------------------- MODULE MCVfs -------------------------------
(***************************************************************************)
(* Instances of Vfs for TLC.                                               *)
(***************************************************************************)
EXTENDS Vfs, TLC

CONSTANTS t1, t2

MCIds == {InodeId} \cup {data_id_init(b) : b \in Blocks}
ThreadSym == Permutations({t1, t2})
=============================================================================
