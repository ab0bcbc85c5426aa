------------------------------- MODULE FatEnt -------------------------------
(***************************************************************************)
(* The entries of a file allocation table as bytes (fatent.c): FAT12 packs *)
(* two entries into three bytes, and an entry may lie in two blocks; FAT16 *)
(* and FAT32 entries are little-endian words, of which FAT32 uses 28 bits. *)
(* A table is a function from byte offsets to bytes; its blocks follow one *)
(* another, so that the two pointers of a FAT12 entry are off and off + 1. *)
(***************************************************************************)
EXTENDS Integers

CONSTANTS s_blocksize,   \* sb->s_blocksize
          max_cluster    \* sbi->max_cluster: one more than the last cluster

FAT_START_ENT == 2
FAT_ENT_FREE == 0
FAT_ENT_EOF == 268435455     \* 0x0fffffff
EOF_FAT12 == 4095            \* 0xfff
BAD_FAT12 == 4087            \* 0xff7
EOF_FAT16 == 65535
BAD_FAT16 == 65527
BAD_FAT32 == 268435447

BadEntry(bits) == IF bits = 12 THEN BAD_FAT12 ELSE IF bits = 16 THEN BAD_FAT16 ELSE BAD_FAT32

(* Blocks are whole words, and there are clusters (fat_fill_super).        *)
ASSUME BlockAssumption ==
    /\ s_blocksize \in Nat \ {0} /\ s_blocksize % 4 = 0
    /\ max_cluster \in Nat /\ FAT_START_ENT < max_cluster

Clusters == FAT_START_ENT .. max_cluster - 1
Odd(entry) == entry % 2 = 1

(* The offset of an entry; its block is off \div s_blocksize.              *)
fat12_ent_blocknr(entry) == entry + entry \div 2
fat_ent_blocknr(bits, entry) == IF bits = 16 THEN entry * 2 ELSE entry * 4
ent_blocknr(bits, entry) ==
    IF bits = 12 THEN fat12_ent_blocknr(entry) ELSE fat_ent_blocknr(bits, entry)

(* The bytes of a table, up to the end of the block of the last entry.     *)
OffsetsOf(bits) ==
    0 .. (((ent_blocknr(bits, max_cluster) \div s_blocksize) + 1) * s_blocksize) - 1
Byte == 0 .. 255
Tables(bits) == [OffsetsOf(bits) -> Byte]

(* A position: the entry, its offset, whether it is in two blocks, and     *)
(* whether a block was read for it (ent_bread).                            *)
Pos(bits, entry) ==
    LET off == ent_blocknr(bits, entry)
    IN [entry |-> entry, off |-> off, rd |-> TRUE,
        nr_bhs |-> IF bits = 12 /\ (off % s_blocksize) + 1 >= s_blocksize THEN 2 ELSE 1]

(* As BhsOf, for an entry that lies in one block.                          *)
BhsOf_First(p) == {p.off \div s_blocksize}
(* The blocks that hold the entry at p.                                    *)
BhsOf(p) == {(p.off \div s_blocksize) + n : n \in 0 .. p.nr_bhs - 1}
-----------------------------------------------------------------------------
fat12_ent_get(tab, p) ==
    LET b0 == tab[p.off]
        b1 == tab[p.off + 1]
        next == IF Odd(p.entry) THEN (b0 \div 16) + (b1 * 16) ELSE (b1 % 16) * 256 + b0
    IN IF next >= BAD_FAT12 THEN FAT_ENT_EOF ELSE next
fat16_ent_get(tab, p) ==
    LET next == tab[p.off] + 256 * tab[p.off + 1]
    IN IF next >= BAD_FAT16 THEN FAT_ENT_EOF ELSE next
fat32_ent_get(tab, p) ==
    LET next == tab[p.off] + 256 * tab[p.off + 1] + 65536 * tab[p.off + 2]
                + 16777216 * (tab[p.off + 3] % 16)
    IN IF next >= BAD_FAT32 THEN FAT_ENT_EOF ELSE next
ent_get(bits, tab, p) ==
    CASE bits = 12 -> fat12_ent_get(tab, p)
      [] bits = 16 -> fat16_ent_get(tab, p)
      [] bits = 32 -> fat32_ent_get(tab, p)

(* Only the entry's own half of the byte it shares changes.                *)
fat12_ent_put(tab, p, val) ==
    LET new == IF val = FAT_ENT_EOF THEN EOF_FAT12 ELSE val
    IN IF Odd(p.entry)
       THEN [tab EXCEPT ![p.off] = (new % 16) * 16 + (@ % 16), ![p.off + 1] = new \div 16]
       ELSE [tab EXCEPT ![p.off] = new % 256,
                        ![p.off + 1] = (@ \div 16) * 16 + (new \div 256)]
fat16_ent_put(tab, p, val) ==
    LET new == IF val = FAT_ENT_EOF THEN EOF_FAT16 ELSE val
    IN [tab EXCEPT ![p.off] = new % 256, ![p.off + 1] = new \div 256]
(* The upper four bits are reserved and stay.                              *)
fat32_ent_put(tab, p, new) ==
    [tab EXCEPT ![p.off] = new % 256, ![p.off + 1] = (new \div 256) % 256,
                ![p.off + 2] = (new \div 65536) % 256,
                ![p.off + 3] = (@ \div 16) * 16 + (new \div 16777216)]
ent_put(bits, tab, p, new) ==
    CASE bits = 12 -> fat12_ent_put(tab, p, new)
      [] bits = 16 -> fat16_ent_put(tab, p, new)
      [] bits = 32 -> fat32_ent_put(tab, p, new)
-----------------------------------------------------------------------------
(* The next entry, without reading another block: FALSE when the block     *)
(* ends.                                                                   *)
fat12_ent_next(p) ==
    LET nextp == p.off + 2 + (p.entry % 2)
        last == (p.off \div s_blocksize) * s_blocksize + s_blocksize - 1
    IN [ok |-> p.nr_bhs = 2 \/ nextp < last,
        pos |-> [entry |-> p.entry + 1, off |-> nextp - 1, nr_bhs |-> 1, rd |-> FALSE]]
fat16_ent_next(p) ==
    [ok |-> p.off % s_blocksize < s_blocksize - 2,
     pos |-> [entry |-> p.entry + 1, off |-> p.off + 2, nr_bhs |-> 1, rd |-> FALSE]]
fat32_ent_next(p) ==
    [ok |-> p.off % s_blocksize < s_blocksize - 4,
     pos |-> [entry |-> p.entry + 1, off |-> p.off + 4, nr_bhs |-> 1, rd |-> FALSE]]
ent_next(bits, p) ==
    CASE bits = 12 -> fat12_ent_next(p)
      [] bits = 16 -> fat16_ent_next(p)
      [] bits = 32 -> fat32_ent_next(p)

(* The positions that a loop over the whole table visits from the entry    *)
(* first, as the code moves: within a block with ent_next, to the next     *)
(* block with fat_ent_read_block, from the last entry to the first.        *)
Wrapped(entry) == IF entry >= max_cluster THEN FAT_START_ENT ELSE entry
Visit(bits, first) ==
    LET at[k \in 0 .. max_cluster] ==
            IF k = 0 THEN Pos(bits, Wrapped(first))
            ELSE LET n == ent_next(bits, at[k - 1])
                 IN IF n.ok /\ n.pos.entry < max_cluster THEN n.pos
                    ELSE Pos(bits, Wrapped(at[k - 1].entry + 1))
    IN [k \in 1 .. max_cluster - FAT_START_ENT |-> at[k - 1]]
=============================================================================
