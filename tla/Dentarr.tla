------------------------------ MODULE Dentarr -------------------------------
(***************************************************************************)
(* BilbyFs's directory entry arrays (dentarr.c).  The entries of a         *)
(* directory whose names have the same hash are packed one after the other *)
(* into one object.  A dentarr is modelled as the sequence of the entries  *)
(* [name, ino, type] that a walk over the object finds; the deletion works *)
(* on the bytes, because that is what decides which entries remain.        *)
(***************************************************************************)
EXTENDS Integers, Sequences

CONSTANTS
    Names,               \* names of directory entries
    Nlen,                \* the length of each name
    DentrySz,            \* BILBYFS_DENTRY_SZ: an entry without its name
    MaxDentarrEntries,   \* BILBYFS_MAX_DENTARR_ENTRIES
    Torn                 \* the name of an entry whose bytes are damaged

obj_dentry_size(de) == DentrySz + Nlen[de.name] + 1

(* dentarr_lookup_nm: the entries called name (the first is returned; an   *)
(* empty set is -ENOENT).                                                  *)
dentarr_lookup_nm(d, name) == {k \in DOMAIN d : d[k].name = name}

(* pack_obj_dentry at the end of the array; the number of entries is not   *)
(* limited here.                                                           *)
dentarr_add_dentry(d, ino, type, name) ==
    Append(d, [name |-> name, ino |-> ino, type |-> type])

(* The offset of entry k, from the first entry on, and the byte at offset  *)
(* p: the index of its entry and its offset in it, or <<0, 0>> past the    *)
(* end.                                                                    *)
OffsetIn(d, k) ==
    LET off[i \in 1 .. Len(d) + 1] ==
            IF i = 1 THEN 0 ELSE off[i - 1] + obj_dentry_size(d[i - 1])
    IN off[k]
ByteAt(d, p) ==
    LET K == {i \in DOMAIN d : OffsetIn(d, i) <= p /\ p < OffsetIn(d, i + 1)}
    IN IF K = {} THEN <<0, 0>> ELSE LET i == CHOOSE i \in K : TRUE IN <<i, p - OffsetIn(d, i)>>

(* The bytes after the loop that closes the gap of entry k: each later     *)
(* entry is copied over the one before it, with the size of the one that   *)
(* is overwritten.                                                         *)
CopyLoop(d, k) ==
    [p \in 0 .. OffsetIn(d, Len(d) + 1) - 1 |->
        LET J == {i \in k .. Len(d) - 1 : OffsetIn(d, i) <= p /\ p < OffsetIn(d, i + 1)}
        IN IF J = {} THEN ByteAt(d, p)
           ELSE LET j == CHOOSE j \in J : TRUE
                IN ByteAt(d, OffsetIn(d, j + 1) + p - OffsetIn(d, j))]

(* The n entries that dentarr_first_dentry and dentarr_next_dentry find in *)
(* bytes made of those of d: an entry whose name is not in place is torn,  *)
(* and nothing is known of what follows a torn header.                     *)
Walk(d, bytes, n) ==
    LET Whole(p, i, len) == \A q \in 0 .. len - 1 :
                                p + q \in DOMAIN bytes /\ bytes[p + q] = <<i, q>>
        Header(p) == {i \in DOMAIN d : Whole(p, i, DentrySz)}
        pos[k \in 1 .. n] ==
            IF k = 1 THEN 0
            ELSE IF pos[k - 1] = -1 \/ Header(pos[k - 1]) = {} THEN -1
            ELSE pos[k - 1] + obj_dentry_size(d[CHOOSE i \in Header(pos[k - 1]) : TRUE])
    IN [k \in 1 .. n |->
            IF pos[k] = -1 \/ Header(pos[k]) = {} THEN [name |-> Torn, ino |-> 0, type |-> 0]
            ELSE LET i == CHOOSE i \in Header(pos[k]) : TRUE
                 IN IF Whole(pos[k], i, obj_dentry_size(d[i])) THEN d[i]
                    ELSE [d[i] EXCEPT !.name = Torn]]

(* dentarr_del_dentry for a name that is in d.                             *)
dentarr_del_dentry(d, name) ==
    LET k == CHOOSE k \in dentarr_lookup_nm(d, name) :
                \A j \in dentarr_lookup_nm(d, name) : k <= j
    IN Walk(d, CopyLoop(d, k), Len(d) - 1)
=============================================================================
