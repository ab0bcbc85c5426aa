------------------------------- MODULE Index -------------------------------
(***************************************************************************)
(* The two in-memory object indexes.  idx.c maps an identifier to the      *)
(* address of its newest version.  gim.c counts, for each identifier, the  *)
(* garbage versions on the flash and keeps the highest sequence number     *)
(* among them.  Both are hash tables of red-black trees; the trees are     *)
(* abstracted to the functions they represent.                             *)
(***************************************************************************)
EXTENDS ObjDefs

VARIABLES
    idx,    \* identifier -> Addr, NoAddr when there is no node
    gim     \* identifier -> garbage node

index_vars == <<idx, gim>>

GimNode == [in : BOOLEAN, count : Nat, sqnum : Nat]
NoGarbage == [in |-> FALSE, count |-> 0, sqnum |-> 0]

idx_init == [x \in Ids |-> NoAddr]
gim_init == [x \in Ids |-> NoGarbage]

Present(id) == idx[id].sqnum # 0

(* The identifiers idx_next_obj_id chooses the smallest of: the nodes      *)
(* after id that belong to the same inode.                                 *)
\* Mutant of idx_next_obj_id: it stops at the last object of the same type.
Mutant_idx_greater(id) ==
    {x \in Ids : Present(x) /\ x > id /\ x \div NbXinfo = id \div NbXinfo}
idx_greater(id) ==
    {x \in Ids : Present(x) /\ x > id /\ inum_from_id(x) = inum_from_id(id)}

(* gim_mark_garbage_cnt: count more garbage versions, sqnum the newest.    *)
gim_mark_garbage_cnt(g, id, sqnum, count) ==
    [g EXCEPT ![id] = [in |-> TRUE,
                       count |-> (g[id].count + count) % U32,
                       sqnum |-> IF g[id].sqnum < sqnum THEN sqnum
                                                        ELSE g[id].sqnum]]
gim_mark_garbage(g, id, sqnum) == gim_mark_garbage_cnt(g, id, sqnum, 1)

(* gim_is_removable: whether the collector may drop the object o.          *)
gim_is_removable(o) ==
    \/ o.type \in {PAD, SUM}
    \/ /\ gim[o.id].in
       /\ o.sqnum <= gim[o.id].sqnum
       /\ (o.type = DEL /\ type_from_id(o.id) # DENTARR) =>
             \A x \in Ids :
                 (gim[x].in /\ x >= o.id /\ inum_from_id(x) = inum_from_id(o.id))
                     => ~(o.sqnum >= gim[x].sqnum /\ gim[x].count > 1)

(* gim_garbage_collected: the object o is gone from the flash.  The count  *)
(* is unsigned.                                                            *)
gim_garbage_collected(g, o) ==
    IF o.type \in {PAD, SUM} \/ ~g[o.id].in THEN g
    ELSE LET c == (g[o.id].count - 1) % U32
         IN [g EXCEPT ![o.id] = IF c = 0 THEN NoGarbage ELSE [@ EXCEPT !.count = c]]

----------------------------------------------------------------------------
(* proc_obj for an object of an indexed type: the index takes the newer    *)
(* address.  When there was a node already, the code marks as garbage the  *)
(* address the object has now: the node is overwritten before it is read.  *)
proc_idx(id, addr) ==
    IF idx[id].sqnum < addr.sqnum THEN [idx EXCEPT ![id] = addr] ELSE idx
proc_gim(id, addr) ==
    IF Present(id) THEN gim_mark_garbage(gim, id, addr.sqnum) ELSE gim
=============================================================================
