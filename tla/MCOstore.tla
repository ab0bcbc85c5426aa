------------------------------ MODULE MCOstore ------------------------------
(***************************************************************************)
(* Small instances of the object store for TLC: a root directory and one   *)
(* file of two blocks, and the writes file system operations make on them. *)
(***************************************************************************)
EXTENDS OstoreRefines

Root == 1
File == 2

RootInode == obj_id(Root, INODE, 0)
RootDentarr == obj_id(Root, DENTARR, 0)
FileInode == obj_id(File, INODE, 0)
FileData0 == obj_id(File, DATA, 0)
FileData1 == obj_id(File, DATA, 1)

MCIds == {RootInode, RootDentarr, FileInode, FileData0, FileData1}

Obj(id) == [type |-> type_from_id(id), id |-> id,
            len |-> IF type_from_id(id) = INODE THEN 4 ELSE 6]
Del(id) == [type |-> DEL, id |-> id, len |-> 4]

RootWrite == [objs |-> <<Obj(RootInode)>>, flag |-> "NONE"]

\* fsop_write_end
Write0 == [objs |-> <<Obj(FileInode), Obj(FileData0)>>, flag |-> "NONE"]
Write1 == [objs |-> <<Obj(FileInode), Obj(FileData1)>>, flag |-> "NONE"]
\* fsop_truncate, to one block
Truncate == [objs |-> <<Del(FileData1), Obj(FileInode)>>, flag |-> "DEL"]
\* fsop_evict_inode
Evict == [objs |-> <<Del(FileInode)>>, flag |-> "NONE"]
\* fsop_link
Link == [objs |-> <<Obj(RootDentarr), Obj(FileInode), Obj(RootInode)>>, flag |-> "NONE"]

CoreTxns == {Write1, Truncate, Evict, Link}
FileTxns == {Write1, Truncate, Evict}
GcTxns == {Write0, Write1, Evict}

=============================================================================
