------------------------------ MODULE StoreSpec ------------------------------
(***************************************************************************)
(* The abstract object store as a specification: the behaviours that       *)
(* AbsStore's operations allow for a client that writes the lists ObjLists.*)
(***************************************************************************)
EXTENDS AbsStore

CONSTANTS ObjLists   \* the lists of objects the client writes

Next ==
    \/ mounted /\ \E objs \in ObjLists : WriteObjs(objs)
    \/ mounted /\ SyncObjs
    \/ MountObjs
    \/ mounted /\ Down

Spec == StoreInit /\ [][Next]_store_vars
=============================================================================
