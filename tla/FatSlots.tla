------------------------------ MODULE FatSlots ------------------------------
(***************************************************************************)
(* The slots of a vfat directory (dir.c, module.c): how a name is laid out *)
(* in them, and how they are parsed.                                       *)
(*                                                                         *)
(* A directory is a sequence of slots, Per to a block.  A slot is free,    *)
(* deleted, a part of a long name, or a short entry.  A long name is a     *)
(* value of its own, each of its slots carries it whole.  The checksum of  *)
(* a short name is the short name: collisions of its eight bits are left   *)
(* out.  A short entry is its name, ATTR_DIR and the first cluster, which  *)
(* stands for all that __fat_write_inode stores.                           *)
(***************************************************************************)
EXTENDS Integers, Sequences, FiniteSetsExt

CONSTANTS
    LongSlots,       \* the slots of each name's long form, 0 of a short name
    Base,            \* the first letters of each name, which aliases begin with
    Per              \* dir_per_block

Names == DOMAIN LongSlots
Free == [k |-> "free"]
Deleted == [k |-> "deleted"]
Long(n, id, last, ck) == [k |-> "long", name |-> n, id |-> id, last |-> last, ck |-> ck]
Short(name, dir, start) == [k |-> "short", name |-> name, dir |-> dir, start |-> start]
IsFree(slot) == slot.k \in {"free", "deleted"}
IsShort(slot) == slot.k = "short"
Plain(n) == <<n, 0>>         \* a valid short name, as it is stored
Alias(n, i) == <<Base[n], i>>
DotNames == {Plain("."), Plain("..")}
Dots(c, parent) == <<Short(Plain("."), TRUE, c), Short(Plain(".."), TRUE, parent)>>
Block(p) == (p - 1) \div Per

(* fat_get_short_entry over the whole directory.                           *)
Shorts(s) == {p \in DOMAIN s : IsShort(s[p])}
fat_scan(s, name) == {p \in Shorts(s) : s[p].name = name}
fat_dir_empty(s) == \A p \in Shorts(s) : s[p].name \in DotNames
fat_get_dotdot_entry(s) == fat_scan(s, Plain(".."))

(* Where the long name that begins at slot p is left: the first slot that  *)
(* has not the id and the checksum that continue it.                       *)
LongEnd(s, p) ==
    Min({q \in p + 1 .. p + s[p].id :
            ~ /\ q < p + s[p].id
              /\ q \in DOMAIN s
              /\ s[q].k = "long"
              /\ s[q].id = p + s[p].id - q
              /\ s[q].ck = s[p].ck})

(* A record: its short entry, the number of its slots, its long name.  A   *)
(* slot marked as the last part ends the name, wherever it stands.         *)
Record(p, nr, long) == [at |-> p, nr_slots |-> nr, long |-> long]
(* As fat_parse_long, but the checksum is not compared.                    *)
fat_parse_long_NoChecksum(s, p) ==
    LET q == LongEnd(s, p)
        long == s[Max({r \in p .. q - 1 : s[r].last})].name
    IN Record(q, s[p].id + 1, long)
fat_parse_long(s, p) ==
    LET q == LongEnd(s, p)
        long == s[Max({r \in p .. q - 1 : s[r].last})].name
    IN IF s[q].name = s[p].ck THEN Record(q, s[p].id + 1, long) ELSE Record(q, 1, long)

(* The records of a directory, as fat_search_long and __fat_readdir meet   *)
(* them.  Whatever ends a long name too early is looked at again.          *)
Records(s) ==
    LET rec[p \in 1 .. Len(s) + 1] ==
            IF p > Len(s) THEN <<>>
            ELSE IF IsShort(s[p]) THEN <<Record(p, 1, s[p].name[1])>> \o rec[p + 1]
            ELSE IF IsFree(s[p]) \/ ~s[p].last THEN rec[p + 1]
            ELSE LET q == LongEnd(s, p)
                 IN IF q = p + s[p].id /\ q <= Len(s) /\ IsShort(s[q])
                    THEN <<fat_parse_long(s, p)>> \o rec[q + 1]
                    ELSE rec[q]
    IN rec[1]

(* The name a record is listed with.                                       *)
Listed(s, r) == IF r.nr_slots > 1 THEN Plain(r.long) ELSE s[r.at].name
fat_readdir(s) ==
    LET rs == Records(s) IN [i \in DOMAIN rs |-> Listed(s, rs[i])]

(* The first record whose short or long name is the one looked for: none   *)
(* or one.                                                                 *)
fat_search_long(s, name) ==
    LET rs == Records(s)
        hits == {i \in DOMAIN rs : s[rs[i].at].name = Plain(name)
                                   \/ (rs[i].nr_slots > 1 /\ rs[i].long = name)}
    IN IF hits = {} THEN {} ELSE {rs[Min(hits)]}

(* As vfat_create_shortname, but always the first alias.                   *)
vfat_create_shortname_First(s, n) ==
    IF LongSlots[n] = 0 THEN (IF fat_scan(s, Plain(n)) = {} THEN {Plain(n)} ELSE {})
    ELSE {Alias(n, 1)}
(* The alias of a name: none when a valid short name is taken.             *)
vfat_create_shortname(s, n) ==
    IF LongSlots[n] = 0 THEN (IF fat_scan(s, Plain(n)) = {} THEN {Plain(n)} ELSE {})
    ELSE {Alias(n, Min({i \in 1 .. Len(s) + 1 : fat_scan(s, Alias(n, i)) = {}}))}

(* The slots of an entry: the parts of the long name, last part first,     *)
(* then the short entry.                                                   *)
vfat_build_slots(n, alias, is_dir, cluster) ==
    [i \in 1 .. LongSlots[n] |->
        Long(n, LongSlots[n] + 1 - i, i = 1, alias)] \o <<Short(alias, is_dir, cluster)>>

(* First stage of fat_add_entries: the first nr free slots in a row, or    *)
(* the free slots at the end of the directory.                             *)
FreeRun(s, nr) ==
    LET runs == {p \in 1 .. Len(s) + 1 - nr : \A q \in p .. p + nr - 1 : IsFree(s[q])}
        used == {p \in DOMAIN s : ~IsFree(s[p])}
        tail == Max(used \cup {0}) + 1
    IN IF runs # {} THEN [pos |-> Min(runs), free |-> nr]
       ELSE [pos |-> tail, free |-> Len(s) + 1 - tail]

Delete(s, ps) == [p \in DOMAIN s |-> IF p \in ps THEN Deleted ELSE s[p]]
=============================================================================
