------------------------------- MODULE ObjIds -------------------------------
(***************************************************************************)
(* What a client of BilbyFs's object store sees of objects (bilbyfs.h):    *)
(* identifiers, types, and what writing a list of objects does to the      *)
(* content of the store.                                                   *)
(***************************************************************************)
EXTENDS Integers, Sequences

CONSTANTS
    NbXinfo,         \* number of xinfo values of an identifier
    Ids              \* the identifiers objects may have

(* Object types a client writes (enum of bilbyfs.h).                       *)
INODE == 0
DATA == 1
DENTARR == 2
DEL == 5
IndexedTypes == {INODE, DATA, DENTARR}

(* Identifiers: inode number, type and extra information, in this order of *)
(* significance, so that the objects of an inode are contiguous.  NIL_ID   *)
(* is a value no object has (all ones in the source).                      *)
NIL_ID == 0
obj_id(inum, type, xinfo) == (inum * 8 + type) * NbXinfo + xinfo
inum_from_id(id) == (id \div NbXinfo) \div 8
type_from_id(id) == (id \div NbXinfo) % 8

(* As Affects, but a deletion object covers nothing but its own object.    *)
Affects_Own(o, x) == x = o.id

(* Whether writing o changes the object x: a deletion object covers one    *)
(* dentarr, or everything of the inode from its identifier on.             *)
Affects(o, x) ==
    IF o.type = DEL /\ type_from_id(o.id) # DENTARR
    THEN x >= o.id /\ inum_from_id(x) = inum_from_id(o.id)
    ELSE x = o.id

(* The content m after the list objs: the last object that matters wins.   *)
(* A deletion object carries the value that stands for no object.          *)
Apply(m, objs) ==
    [x \in Ids |->
        LET K == {k \in DOMAIN objs : Affects(objs[k], x)}
        IN IF K = {} THEN m[x] ELSE objs[CHOOSE k \in K : \A j \in K : j <= k].val]
=============================================================================
