---------------------------- MODULE OstoreRefines ----------------------------
(***************************************************************************)
(* The object store of ostore.c implements the abstract store on which the *)
(* file system operations are modelled.                                    *)
(***************************************************************************)
EXTENDS Ostore

Mounting ==
    \/ pc \in {"mleb", "msum", "mscan", "mtrans", "mdone", "mfail"}
    \/ pc = "del" /\ dret \in {"mleb", "mtrans"}

(* The abstract log ends with what ostore_read_obj returns, whenever no    *)
(* call is active; while one is, with the content before it.  Once the     *)
(* volume was mounted with reused sequence numbers nothing is claimed.     *)
AbsLog ==
    LET h == SubSeq(hist, nsync, Len(hist))
    IN IF pc = "idle" /\ ~stale THEN [h EXCEPT ![Len(h)] = View] ELSE h

Abs == INSTANCE StoreSpec WITH
    Absent <- 0, log <- AbsLog, mounted <- pc # "off" /\ ~Mounting, reused <- stale,
    ObjLists <- {ClientOp(t, v).objs : t \in Txns \cup {RootTxn}, v \in 1 .. MaxTxns + 1}

(* Every step of the store is a step of the abstract store or invisible:   *)
(* a list of objects takes effect as a whole, when ostore_write_obj_list   *)
(* returns; what ostore_sync reported is found by every later mount; and   *)
(* a mount after a power failure finds the result of a prefix of the later *)
(* lists, through every split of them over erase-blocks and summaries.     *)
ImplementsStoreSpec == Abs!Spec
=============================================================================
