---------------------------- MODULE FatEntProofs ----------------------------
(***************************************************************************)
(* Proofs about the entries of a FAT, for all three widths, every block    *)
(* size and every number of clusters: a value that is written is read      *)
(* back, the other entries keep theirs, and only the blocks that are       *)
(* collected for the copy of the FAT change.                               *)
(***************************************************************************)
EXTENDS FatEnt, NaturalsInduction, WellFoundedInduction, TLAPS

(* What an entry holds, and the widths of a volume with so many clusters.  *)
Values == {FAT_ENT_FREE, FAT_ENT_EOF} \cup Clusters
Widths == {bits \in {12, 16, 32} : max_cluster <= BadEntry(bits)}

(* Division by the size of a block.                                        *)
LEMMA DivFacts ==
    ASSUME NEW a \in Nat, NEW n \in Nat \ {0}
    PROVE  /\ a \div n \in Nat /\ a % n \in 0 .. n - 1
           /\ a = n * (a \div n) + (a % n)
OBVIOUS

(* A byte that is not the last one of its block has the next one in the    *)
(* same block, the last one in the next.                                   *)
LEMMA NextByte ==
    ASSUME NEW a \in Nat, NEW n \in Nat \ {0}
    PROVE  /\ (a % n) + 1 < n => (a + 1) \div n = a \div n /\ (a + 1) % n = (a % n) + 1
           /\ (a % n) + 1 >= n => (a + 1) \div n = (a \div n) + 1
OBVIOUS

(* The size of an entry in whole bytes, as far as it reaches.              *)
Size(bits) == IF bits = 32 THEN 4 ELSE 2

(* The bytes of an entry are in the table.                                 *)
LEMMA EntryOffs ==
    ASSUME NEW bits \in Widths, NEW c \in Clusters
    PROVE  /\ ent_blocknr(bits, c) \in Nat
           /\ \A i \in 0 .. Size(bits) - 1 : ent_blocknr(bits, c) + i \in OffsetsOf(bits)
<1>1. c \in Nat /\ c + 1 <= max_cluster /\ max_cluster \in Nat /\ s_blocksize \in Nat \ {0}
    BY BlockAssumption DEF Clusters, FAT_START_ENT
<1>2. /\ ent_blocknr(bits, c) \in Nat /\ ent_blocknr(bits, max_cluster) \in Nat
      /\ ent_blocknr(bits, c) + Size(bits) <= ent_blocknr(bits, max_cluster) + 1
    BY <1>1 DEF Widths, Size, ent_blocknr, fat12_ent_blocknr, fat_ent_blocknr
<1>3. PICK o \in Nat, e \in Nat, k \in Nat : o = ent_blocknr(bits, c) /\ e = ent_blocknr(bits, max_cluster) /\ k = Size(bits)
    BY <1>2 DEF Size
<1>4. e < ((e \div s_blocksize) + 1) * s_blocksize
  <2>1. PICK n \in Nat \ {0} : n = s_blocksize  BY <1>1
  <2>2. /\ e \div n \in Nat /\ e % n \in 0 .. n - 1 /\ e = n * (e \div n) + (e % n)  BY DivFacts
  <2>3. PICK q \in Nat, r \in Nat : q = e \div n /\ r = e % n  BY <2>2
  <2>4. e = n * q + r /\ r < n  BY <2>2, <2>3
  <2>5. n * q + n = (q + 1) * n  OBVIOUS
  <2>6. n * q \in Nat  OBVIOUS
  <2>7. e < n * q + n  BY <2>4, <2>6
  <2> QED BY <2>1, <2>3, <2>5, <2>7
<1>5. ((e \div s_blocksize) + 1) * s_blocksize \in Nat
    BY <1>1
<1>6. PICK m \in Nat : m = ((e \div s_blocksize) + 1) * s_blocksize  BY <1>5
<1>7. OffsetsOf(bits) = 0 .. m - 1  BY <1>3, <1>6 DEF OffsetsOf
<1>8. o + k <= e + 1 /\ e < m  BY <1>2, <1>3, <1>4, <1>6
<1> QED BY <1>3, <1>7, <1>8, SMTT(30)

(* What writing an entry does: what ent_put promises for the entry c of a  *)
(* table tab when it becomes new.                                          *)
Written(bits, tab, new, c, v) ==
    /\ new \in Tables(bits)
    /\ ent_get(bits, new, Pos(bits, c)) = v
    /\ \A d \in Clusters \ {c} : ent_get(bits, new, Pos(bits, d)) = ent_get(bits, tab, Pos(bits, d))
    /\ \A o \in OffsetsOf(bits) :
        o \notin {ent_blocknr(bits, c) + i : i \in 0 .. Size(bits) - 1} => new[o] = tab[o]

(* Positions and what the operators use of them.                           *)
LEMMA PosFacts ==
    \A bits, c : Pos(bits, c).off = ent_blocknr(bits, c) /\ Pos(bits, c).entry = c
BY DEF Pos

(* A table with two bytes changed.                                         *)
LEMMA TwoChanged ==
    ASSUME NEW O \in SUBSET Int, NEW tab \in [O -> Byte], NEW a \in O, NEW b \in O, a # b,
           NEW x \in Byte, NEW y \in Byte
    PROVE  LET new == [tab EXCEPT ![a] = x, ![b] = y]
           IN /\ new \in [O -> Byte] /\ new[a] = x /\ new[b] = y
              /\ \A o \in O : o # a /\ o # b => new[o] = tab[o]
OBVIOUS

(* The bytes of a word of two.                                             *)
LEMMA TwoBytes ==
    ASSUME NEW n \in Nat, n < 65536
    PROVE  n % 256 \in Byte /\ n \div 256 \in Byte /\ (n % 256) + (256 * (n \div 256)) = n
BY DEF Byte

(* The offsets of 16 bit entries, and how they are read.                   *)
Get16(b0, b1) ==
    LET next == b0 + 256 * b1 IN IF next >= BAD_FAT16 THEN FAT_ENT_EOF ELSE next
LEMMA Read16 ==
    \A d \in Clusters : \A t : ent_get(16, t, Pos(16, d)) = Get16(t[2 * d], t[2 * d + 1])
<1> SUFFICES ASSUME NEW d \in Clusters, NEW t
             PROVE  ent_get(16, t, Pos(16, d)) = Get16(t[2 * d], t[2 * d + 1])
    OBVIOUS
<1>1. PICK p : p = Pos(16, d)  OBVIOUS
<1>2. p.off = 2 * d
  <2>1. d \in Nat  BY DEF Clusters, FAT_START_ENT
  <2> QED BY <1>1, <2>1, PosFacts DEF ent_blocknr, fat_ent_blocknr
<1>3. ent_get(16, t, p) = fat16_ent_get(t, p)  BY DEF ent_get
<1> QED BY <1>1, <1>2, <1>3 DEF fat16_ent_get, Get16
LEMMA Offs16 ==
    ASSUME 16 \in Widths, NEW d \in Clusters
    PROVE  /\ d \in Nat /\ ent_blocknr(16, d) = 2 * d
           /\ 2 * d \in OffsetsOf(16) /\ 2 * d + 1 \in OffsetsOf(16)
<1>1. ent_blocknr(16, d) = 2 * d /\ d \in Nat
    BY DEF ent_blocknr, fat_ent_blocknr, Clusters, FAT_START_ENT
<1>2. 0 \in 0 .. Size(16) - 1 /\ 1 \in 0 .. Size(16) - 1  BY DEF Size
<1>3. 2 * d + 0 \in OffsetsOf(16) /\ 2 * d + 1 \in OffsetsOf(16)  BY <1>1, <1>2, EntryOffs
<1> QED BY <1>1, <1>3

(* Writing an entry of 16 bits.                                            *)
LEMMA Put16 ==
    ASSUME 16 \in Widths, NEW tab \in Tables(16), NEW c \in Clusters, NEW v \in Values
    PROVE  Written(16, tab, ent_put(16, tab, Pos(16, c), v), c, v)
<1>1. PICK a \in Nat : a = 2 * c /\ a \in OffsetsOf(16) /\ a + 1 \in OffsetsOf(16)
    BY Offs16
<1>2. PICK n \in Nat : n < 65536 /\ n = IF v = FAT_ENT_EOF THEN EOF_FAT16 ELSE v
    BY BlockAssumption DEF Values, Clusters, Widths, BadEntry, FAT_ENT_FREE, FAT_ENT_EOF, EOF_FAT16, BAD_FAT16, FAT_START_ENT
<1>3. PICK x \in Byte, y \in Byte : x = n % 256 /\ y = n \div 256 /\ x + 256 * y = n
    BY <1>2, TwoBytes
<1>4. PICK new : new = [tab EXCEPT ![a] = x, ![a + 1] = y]  OBVIOUS
<1>5. ent_put(16, tab, Pos(16, c), v) = new
  <2>1. PICK p : p = Pos(16, c)  OBVIOUS
  <2>2. p.off = a  BY <1>1, <2>1, PosFacts, Offs16
  <2>3. ent_put(16, tab, p, v) = fat16_ent_put(tab, p, v)  BY DEF ent_put
  <2> QED BY <1>2, <1>3, <1>4, <2>1, <2>2, <2>3 DEF fat16_ent_put
<1>6. /\ new \in Tables(16) /\ new[a] = x /\ new[a + 1] = y
      /\ \A o \in OffsetsOf(16) : o # a /\ o # a + 1 => new[o] = tab[o]
  <2>1. OffsetsOf(16) \in SUBSET Int /\ a # a + 1  BY DEF OffsetsOf
  <2> QED BY <1>1, <1>4, <2>1, TwoChanged DEF Tables
<1>7. ent_get(16, new, Pos(16, c)) = v
  <2>1. ent_get(16, new, Pos(16, c)) = Get16(x, y)  BY <1>1, <1>6, Read16
  <2>2. Get16(x, y) = IF n >= BAD_FAT16 THEN FAT_ENT_EOF ELSE n  BY <1>3 DEF Get16, BAD_FAT16
  <2> QED BY <2>1, <2>2, <1>2, BlockAssumption
          DEF Values, Clusters, Widths, BadEntry, FAT_ENT_FREE, FAT_ENT_EOF, EOF_FAT16, BAD_FAT16, FAT_START_ENT
<1>8. ASSUME NEW d \in Clusters \ {c}
      PROVE  ent_get(16, new, Pos(16, d)) = ent_get(16, tab, Pos(16, d))
  <2>1. 2 * d \in OffsetsOf(16) /\ 2 * d + 1 \in OffsetsOf(16) /\ d \in Nat /\ c \in Nat  BY Offs16
  <2>2. 2 * d # a /\ 2 * d # a + 1 /\ 2 * d + 1 # a /\ 2 * d + 1 # a + 1  BY <2>1, <1>1
  <2>3. new[2 * d] = tab[2 * d] /\ new[2 * d + 1] = tab[2 * d + 1]  BY <1>6, <2>1, <2>2
  <2>4. ent_get(16, new, Pos(16, d)) = Get16(new[2 * d], new[2 * d + 1])  BY Read16
  <2>5. ent_get(16, tab, Pos(16, d)) = Get16(tab[2 * d], tab[2 * d + 1])  BY Read16
  <2> QED BY <2>3, <2>4, <2>5
<1>9. \A o \in OffsetsOf(16) :
        o \notin {ent_blocknr(16, c) + i : i \in 0 .. Size(16) - 1} => new[o] = tab[o]
  <2>1. ent_blocknr(16, c) = a  BY <1>1, Offs16
  <2>2. 0 \in 0 .. Size(16) - 1 /\ 1 \in 0 .. Size(16) - 1 /\ a + 0 = a  BY DEF Size
  <2> QED BY <1>6, <2>1, <2>2
<1> QED BY <1>5, <1>6, <1>7, <1>8, <1>9 DEF Written

(* The bytes of entries of 12 bits: two entries share three bytes.         *)
LEMMA Nibbles ==
    ASSUME NEW n \in Nat, n < 4096, NEW b \in Byte
    PROVE  /\ n % 256 \in Byte /\ (b \div 16) * 16 + (n \div 256) \in Byte
           /\ ((b \div 16) * 16 + (n \div 256)) % 16 = n \div 256
           /\ ((b \div 16) * 16 + (n \div 256)) \div 16 = b \div 16
           /\ (n \div 256) * 256 + (n % 256) = n
           /\ n \div 16 \in Byte /\ (n % 16) * 16 + (b % 16) \in Byte
           /\ ((n % 16) * 16 + (b % 16)) % 16 = b % 16
           /\ ((n % 16) * 16 + (b % 16)) \div 16 = n % 16
           /\ (n % 16) + ((n \div 16) * 16) = n
BY DEF Byte
Low12(b0, b1) == (b1 % 16) * 256 + b0
High12(b0, b1) == (b0 \div 16) + (b1 * 16)
Get12(next) == IF next >= BAD_FAT12 THEN FAT_ENT_EOF ELSE next
LEMMA Read12 ==
    ASSUME NEW d \in Clusters, NEW m \in Nat, NEW t
    PROVE  /\ d = 2 * m =>
                /\ ent_blocknr(12, d) = 3 * m /\ ~Odd(d)
                /\ ent_get(12, t, Pos(12, d)) = Get12(Low12(t[3 * m], t[3 * m + 1]))
           /\ d = 2 * m + 1 =>
                /\ ent_blocknr(12, d) = 3 * m + 1 /\ Odd(d)
                /\ ent_get(12, t, Pos(12, d)) = Get12(High12(t[3 * m + 1], t[3 * m + 2]))
<1>1. PICK p : p = Pos(12, d)  OBVIOUS
<1>2. d \in Nat  BY DEF Clusters, FAT_START_ENT
<1>3. p.entry = d /\ p.off = ent_blocknr(12, d)  BY <1>1, PosFacts
<1>4. ent_get(12, t, p) = fat12_ent_get(t, p)  BY DEF ent_get
<1>5. ent_blocknr(12, d) = d + (d \div 2)  BY DEF ent_blocknr, fat12_ent_blocknr
<1>6. CASE d = 2 * m
  <2>1. d \div 2 = m /\ d % 2 = 0  BY <1>6
  <2>2. ent_blocknr(12, d) = 3 * m /\ ~Odd(d)  BY <2>1, <1>5, <1>6 DEF Odd
  <2>3. fat12_ent_get(t, p) = Get12(Low12(t[3 * m], t[3 * m + 1]))
      BY <1>3, <2>2 DEF fat12_ent_get, Get12, Low12
  <2> QED BY <1>6, <2>2, <2>3, <1>1, <1>4
<1>7. CASE d = 2 * m + 1
  <2>1. d \div 2 = m /\ d % 2 = 1  BY <1>7
  <2>2. ent_blocknr(12, d) = 3 * m + 1 /\ Odd(d)  BY <2>1, <1>5, <1>7 DEF Odd
  <2>3. 3 * m + 1 + 1 = 3 * m + 2  OBVIOUS
  <2>4. fat12_ent_get(t, p) = Get12(High12(t[3 * m + 1], t[3 * m + 2]))
      BY <1>3, <2>2, <2>3 DEF fat12_ent_get, Get12, High12
  <2> QED BY <1>7, <2>2, <2>4, <1>1, <1>4
<1> QED BY <1>6, <1>7
LEMMA Offs12 ==
    ASSUME 12 \in Widths, NEW d \in Clusters
    PROVE  /\ ent_blocknr(12, d) \in Nat
           /\ ent_blocknr(12, d) \in OffsetsOf(12) /\ ent_blocknr(12, d) + 1 \in OffsetsOf(12)
<1>1. 0 \in 0 .. Size(12) - 1 /\ 1 \in 0 .. Size(12) - 1  BY DEF Size
<1>2. ent_blocknr(12, d) + 0 = ent_blocknr(12, d)  BY EntryOffs
<1> QED BY <1>1, <1>2, EntryOffs
(* A cluster has an even or an odd number.                                 *)
LEMMA Halves ==
    ASSUME NEW d \in Clusters
    PROVE  \E m \in Nat : d = 2 * m \/ d = 2 * m + 1
<1>1. d \in Nat  BY DEF Clusters, FAT_START_ENT
<1>2. d \div 2 \in Nat /\ (d = 2 * (d \div 2) \/ d = 2 * (d \div 2) + 1)  BY <1>1
<1> QED BY <1>2

(* The value that is written for v in an entry of 12 bits.                 *)
LEMMA Value12 ==
    ASSUME 12 \in Widths, NEW v \in Values
    PROVE  \E n \in Nat : /\ n < 4096 /\ n = (IF v = FAT_ENT_EOF THEN EOF_FAT12 ELSE v)
                          /\ Get12(n) = v
BY BlockAssumption DEF Get12, Values, Clusters, Widths, BadEntry, FAT_ENT_FREE, FAT_ENT_EOF,
                       EOF_FAT12, BAD_FAT12, FAT_START_ENT

(* Writing an entry of 12 bits.                                            *)
LEMMA Put12 ==
    ASSUME 12 \in Widths, NEW tab \in Tables(12), NEW c \in Clusters, NEW v \in Values
    PROVE  Written(12, tab, ent_put(12, tab, Pos(12, c), v), c, v)
<1>1. PICK m \in Nat : c = 2 * m \/ c = 2 * m + 1  BY Halves
<1>2. PICK n \in Nat : /\ n < 4096 /\ n = (IF v = FAT_ENT_EOF THEN EOF_FAT12 ELSE v)
                       /\ Get12(n) = v
    BY Value12
<1>3. PICK a \in Nat : a = ent_blocknr(12, c) /\ a \in OffsetsOf(12) /\ a + 1 \in OffsetsOf(12)
    BY Offs12
<1>4. OffsetsOf(12) \in SUBSET Int /\ a # a + 1  BY DEF OffsetsOf
<1>5. PICK p : p = Pos(12, c)  OBVIOUS
<1>6. p.off = a /\ p.entry = c  BY <1>3, <1>5, PosFacts
<1>7. ent_put(12, tab, Pos(12, c), v) = fat12_ent_put(tab, p, v)  BY <1>5 DEF ent_put
<1>8. \A o : o # a /\ o # a + 1 => o \notin {ent_blocknr(12, c) + i : i \in 0 .. Size(12) - 1}
  <2> SUFFICES ASSUME NEW o, NEW i \in 0 .. Size(12) - 1, o = a + i
               PROVE  o = a \/ o = a + 1
      BY <1>3
  <2> QED BY DEF Size
<1>9. {a, a + 1} \subseteq {ent_blocknr(12, c) + i : i \in 0 .. Size(12) - 1}
  <2>1. 0 \in 0 .. Size(12) - 1 /\ 1 \in 0 .. Size(12) - 1 /\ a + 0 = a  BY DEF Size
  <2> QED BY <2>1, <1>3
<1>10. CASE c = 2 * m
  <2>1. a = 3 * m /\ ~Odd(c)  BY <1>10, <1>3, Read12
  <2>2. PICK b \in Byte : b = tab[a + 1]  BY <1>3 DEF Tables
  <2>3. PICK x \in Byte, y \in Byte :
            /\ x = n % 256 /\ y = (b \div 16) * 16 + (n \div 256)
            /\ y % 16 = n \div 256 /\ y \div 16 = b \div 16 /\ (n \div 256) * 256 + x = n
      BY <1>2, Nibbles
  <2>4. PICK new : new = [tab EXCEPT ![a] = x, ![a + 1] = y]  OBVIOUS
  <2>5. /\ new \in Tables(12) /\ new[a] = x /\ new[a + 1] = y
        /\ \A o \in OffsetsOf(12) : o # a /\ o # a + 1 => new[o] = tab[o]
      BY <1>3, <1>4, <2>4, TwoChanged DEF Tables
  <2>6. fat12_ent_put(tab, p, v) = new
    <3>1. fat12_ent_put(tab, p, v) = [tab EXCEPT ![a] = n % 256, ![a + 1] = (@ \div 16) * 16 + (n \div 256)]
        BY <1>2, <1>6, <2>1 DEF fat12_ent_put
    <3>2. [tab EXCEPT ![a] = n % 256, ![a + 1] = (@ \div 16) * 16 + (n \div 256)]
            = [[tab EXCEPT ![a] = n % 256] EXCEPT ![a + 1] = (b \div 16) * 16 + (n \div 256)]
        BY <2>2
    <3> QED BY <3>1, <3>2, <2>3, <2>4
  <2>7. ent_get(12, new, Pos(12, c)) = v
    <3>1. ent_get(12, new, Pos(12, c)) = Get12(Low12(x, y))  BY <1>10, <2>1, <2>5, Read12
    <3>2. Low12(x, y) = n  BY <2>3 DEF Low12
    <3> QED BY <3>1, <3>2, <1>2
  <2>8. ASSUME NEW d \in Clusters \ {c}
        PROVE  ent_get(12, new, Pos(12, d)) = ent_get(12, tab, Pos(12, d))
    <3>1. PICK k \in Nat : d = 2 * k \/ d = 2 * k + 1  BY Halves
    <3>2. CASE d = 2 * k
      <4>1. k # m  BY <3>2, <1>10
      <4>2. 3 * k # a /\ 3 * k # a + 1 /\ 3 * k + 1 # a /\ 3 * k + 1 # a + 1  BY <2>1, <4>1
      <4>3. 3 * k \in OffsetsOf(12) /\ 3 * k + 1 \in OffsetsOf(12)  BY <3>2, Read12, Offs12
      <4>4. new[3 * k] = tab[3 * k] /\ new[3 * k + 1] = tab[3 * k + 1]  BY <4>2, <4>3, <2>5
      <4>5. /\ ent_get(12, new, Pos(12, d)) = Get12(Low12(new[3 * k], new[3 * k + 1]))
            /\ ent_get(12, tab, Pos(12, d)) = Get12(Low12(tab[3 * k], tab[3 * k + 1]))
          BY <3>2, Read12
      <4> QED BY <4>4, <4>5
    <3>3. CASE d = 2 * k + 1
      <4>1. 3 * k + 1 \in OffsetsOf(12) /\ 3 * k + 2 \in OffsetsOf(12)
        <5>1. ent_blocknr(12, d) = 3 * k + 1  BY <3>3, Read12
        <5>2. 3 * k + 1 + 1 = 3 * k + 2  OBVIOUS
        <5> QED BY <5>1, <5>2, Offs12
      <4>2. 3 * k + 2 # a /\ 3 * k + 2 # a + 1 /\ 3 * k + 1 # a  BY <2>1
      <4>3. new[3 * k + 2] = tab[3 * k + 2]  BY <4>1, <4>2, <2>5
      <4>4. new[3 * k + 1] \div 16 = tab[3 * k + 1] \div 16
        <5>1. CASE 3 * k + 1 = a + 1  BY <5>1, <2>2, <2>3, <2>5, ZenonT(60)
        <5>2. CASE 3 * k + 1 # a + 1  BY <5>2, <4>1, <4>2, <2>5
        <5> QED BY <5>1, <5>2
      <4>5. /\ ent_get(12, new, Pos(12, d)) = Get12(High12(new[3 * k + 1], new[3 * k + 2]))
            /\ ent_get(12, tab, Pos(12, d)) = Get12(High12(tab[3 * k + 1], tab[3 * k + 2]))
          BY <3>3, Read12
      <4>6. High12(new[3 * k + 1], new[3 * k + 2]) = High12(tab[3 * k + 1], tab[3 * k + 2])
          BY <4>3, <4>4 DEF High12
      <4> QED BY <4>5, <4>6
    <3> QED BY <3>1, <3>2, <3>3
  <2> QED BY <1>7, <1>8, <1>9, <2>5, <2>6, <2>7, <2>8 DEF Written
<1>11. CASE c = 2 * m + 1
  <2>1. a = 3 * m + 1 /\ Odd(c)  BY <1>11, <1>3, Read12
  <2>2. PICK b \in Byte : b = tab[a]  BY <1>3 DEF Tables
  <2>3. PICK x \in Byte, y \in Byte :
            /\ x = (n % 16) * 16 + (b % 16) /\ y = n \div 16
            /\ x % 16 = b % 16 /\ x \div 16 = n % 16 /\ (n % 16) + (y * 16) = n
      BY <1>2, Nibbles
  <2>4. PICK new : new = [tab EXCEPT ![a] = x, ![a + 1] = y]  OBVIOUS
  <2>5. /\ new \in Tables(12) /\ new[a] = x /\ new[a + 1] = y
        /\ \A o \in OffsetsOf(12) : o # a /\ o # a + 1 => new[o] = tab[o]
      BY <1>3, <1>4, <2>4, TwoChanged DEF Tables
  <2>6. fat12_ent_put(tab, p, v) = new
    <3>1. fat12_ent_put(tab, p, v) = [tab EXCEPT ![a] = (n % 16) * 16 + (@ % 16), ![a + 1] = n \div 16]
        BY <1>2, <1>6, <2>1 DEF fat12_ent_put
    <3> QED BY <3>1, <2>2, <2>3, <2>4
  <2>7. ent_get(12, new, Pos(12, c)) = v
    <3>1. a + 1 = 3 * m + 2  BY <2>1
    <3>2. ent_get(12, new, Pos(12, c)) = Get12(High12(x, y))  BY <1>11, <2>1, <2>5, <3>1, Read12
    <3>3. High12(x, y) = n  BY <2>3 DEF High12
    <3> QED BY <3>2, <3>3, <1>2
  <2>8. ASSUME NEW d \in Clusters \ {c}
        PROVE  ent_get(12, new, Pos(12, d)) = ent_get(12, tab, Pos(12, d))
    <3>1. PICK k \in Nat : d = 2 * k \/ d = 2 * k + 1  BY Halves
    <3>2. CASE d = 2 * k
      <4>1. 3 * k # a /\ 3 * k # a + 1 /\ 3 * k + 1 # a + 1  BY <2>1
      <4>2. 3 * k \in OffsetsOf(12) /\ 3 * k + 1 \in OffsetsOf(12)  BY <3>2, Read12, Offs12
      <4>3. new[3 * k] = tab[3 * k]  BY <4>1, <4>2, <2>5
      <4>4. new[3 * k + 1] % 16 = tab[3 * k + 1] % 16
        <5>1. CASE 3 * k + 1 = a  BY <5>1, <2>2, <2>3, <2>5
        <5>2. CASE 3 * k + 1 # a  BY <5>2, <4>1, <4>2, <2>5
        <5> QED BY <5>1, <5>2
      <4>5. /\ ent_get(12, new, Pos(12, d)) = Get12(Low12(new[3 * k], new[3 * k + 1]))
            /\ ent_get(12, tab, Pos(12, d)) = Get12(Low12(tab[3 * k], tab[3 * k + 1]))
          BY <3>2, Read12
      <4>6. Low12(new[3 * k], new[3 * k + 1]) = Low12(tab[3 * k], tab[3 * k + 1])
          BY <4>3, <4>4 DEF Low12
      <4> QED BY <4>5, <4>6
    <3>3. CASE d = 2 * k + 1
      <4>1. k # m  BY <3>3, <1>11
      <4>2. 3 * k + 1 \in OffsetsOf(12) /\ 3 * k + 2 \in OffsetsOf(12)
        <5>1. ent_blocknr(12, d) = 3 * k + 1  BY <3>3, Read12
        <5>2. 3 * k + 1 + 1 = 3 * k + 2  OBVIOUS
        <5> QED BY <5>1, <5>2, Offs12
      <4>3. 3 * k + 2 # a /\ 3 * k + 2 # a + 1 /\ 3 * k + 1 # a /\ 3 * k + 1 # a + 1  BY <2>1, <4>1
      <4>4. new[3 * k + 1] = tab[3 * k + 1] /\ new[3 * k + 2] = tab[3 * k + 2]  BY <4>2, <4>3, <2>5
      <4>5. /\ ent_get(12, new, Pos(12, d)) = Get12(High12(new[3 * k + 1], new[3 * k + 2]))
            /\ ent_get(12, tab, Pos(12, d)) = Get12(High12(tab[3 * k + 1], tab[3 * k + 2]))
          BY <3>3, Read12
      <4> QED BY <4>4, <4>5
    <3> QED BY <3>1, <3>2, <3>3
  <2> QED BY <1>7, <1>8, <1>9, <2>5, <2>6, <2>7, <2>8 DEF Written
<1> QED BY <1>1, <1>10, <1>11

(* The bytes of a word of four, of which 28 bits are used.                 *)
LEMMA FourBytes ==
    ASSUME NEW n \in Nat, n < 268435456, NEW b \in Byte
    PROVE  /\ n % 256 \in Byte /\ (n \div 256) % 256 \in Byte /\ (n \div 65536) % 256 \in Byte
           /\ (b \div 16) * 16 + (n \div 16777216) \in Byte
           /\ (n % 256) + 256 * ((n \div 256) % 256) + 65536 * ((n \div 65536) % 256)
                + 16777216 * (((b \div 16) * 16 + (n \div 16777216)) % 16) = n
<1>1. PICK q \in Nat, x \in Nat : q = n \div 256 /\ x = n % 256 /\ n = 256 * q + x /\ x < 256
    BY SMT
<1>2. PICK r \in Nat, y \in Nat : r = q \div 256 /\ y = q % 256 /\ q = 256 * r + y /\ y < 256
    BY SMT
<1>3. PICK s \in Nat, z \in Nat : s = r \div 256 /\ z = r % 256 /\ r = 256 * s + z /\ z < 256
    BY SMT
<1>4. n \div 65536 = r
  <2>1. n = 65536 * r + (256 * y + x) /\ 256 * y + x \in Nat /\ 256 * y + x < 65536  BY SMT, <1>1, <1>2
  <2> QED BY SMT, <2>1
<1>5. n \div 16777216 = s /\ s < 16
  <2>1. n = 16777216 * s + (65536 * z + 256 * y + x) /\ 65536 * z + 256 * y + x \in Nat /\ 65536 * z + 256 * y + x < 16777216
      BY SMT, <1>1, <1>2, <1>3
  <2> QED BY SMT, <2>1
<1>6. /\ (b \div 16) * 16 + s \in Byte /\ ((b \div 16) * 16 + s) % 16 = s
    BY SMT, <1>5 DEF Byte
<1>7. x \in Byte /\ y \in Byte /\ z \in Byte  BY SMT, <1>1, <1>2, <1>3 DEF Byte
<1>8. x + 256 * y + 65536 * z + 16777216 * s = n  BY SMT, <1>1, <1>2, <1>3
<1> QED BY SMT, <1>1, <1>2, <1>3, <1>4, <1>5, <1>6, <1>7, <1>8
LEMMA FourChanged ==
    ASSUME NEW O \in SUBSET Int, NEW tab \in [O -> Byte], NEW a \in Int,
           a \in O, a + 1 \in O, a + 2 \in O, a + 3 \in O,
           NEW x \in Byte, NEW y \in Byte, NEW z \in Byte, NEW w \in Byte
    PROVE  LET new == [tab EXCEPT ![a] = x, ![a + 1] = y, ![a + 2] = z, ![a + 3] = w]
           IN /\ new \in [O -> Byte]
              /\ new[a] = x /\ new[a + 1] = y /\ new[a + 2] = z /\ new[a + 3] = w
              /\ \A o \in O : o \notin {a, a + 1, a + 2, a + 3} => new[o] = tab[o]
OBVIOUS
Get32(b0, b1, b2, b3) ==
    LET next == b0 + 256 * b1 + 65536 * b2 + 16777216 * (b3 % 16)
    IN IF next >= BAD_FAT32 THEN FAT_ENT_EOF ELSE next
LEMMA Read32 ==
    \A d \in Clusters : \A t :
        ent_get(32, t, Pos(32, d)) = Get32(t[4 * d], t[4 * d + 1], t[4 * d + 2], t[4 * d + 3])
<1> SUFFICES ASSUME NEW d \in Clusters, NEW t
             PROVE  ent_get(32, t, Pos(32, d)) = Get32(t[4 * d], t[4 * d + 1], t[4 * d + 2], t[4 * d + 3])
    OBVIOUS
<1>1. PICK p : p = Pos(32, d)  OBVIOUS
<1>2. p.off = 4 * d
  <2>1. d \in Nat  BY DEF Clusters, FAT_START_ENT
  <2> QED BY <1>1, <2>1, PosFacts DEF ent_blocknr, fat_ent_blocknr
<1>3. ent_get(32, t, p) = fat32_ent_get(t, p)  BY DEF ent_get
<1> QED BY SMT, <1>1, <1>2, <1>3 DEF fat32_ent_get, Get32
LEMMA Offs32 ==
    ASSUME 32 \in Widths, NEW d \in Clusters
    PROVE  /\ d \in Nat /\ ent_blocknr(32, d) = 4 * d
           /\ 4 * d \in OffsetsOf(32) /\ 4 * d + 1 \in OffsetsOf(32)
           /\ 4 * d + 2 \in OffsetsOf(32) /\ 4 * d + 3 \in OffsetsOf(32)
<1>1. ent_blocknr(32, d) = 4 * d /\ d \in Nat
    BY DEF ent_blocknr, fat_ent_blocknr, Clusters, FAT_START_ENT
<1>2. \A i \in {0, 1, 2, 3} : i \in 0 .. Size(32) - 1  BY DEF Size
<1>3. \A i \in {0, 1, 2, 3} : 4 * d + i \in OffsetsOf(32)  BY <1>1, <1>2, EntryOffs
<1>4. 4 * d + 0 = 4 * d  BY <1>1
<1> QED BY <1>1, <1>3, <1>4

(* Writing an entry of 32 bits.                                            *)
LEMMA Put32 ==
    ASSUME 32 \in Widths, NEW tab \in Tables(32), NEW c \in Clusters, NEW v \in Values
    PROVE  Written(32, tab, ent_put(32, tab, Pos(32, c), v), c, v)
<1>1. PICK a \in Nat : /\ a = 4 * c /\ a \in OffsetsOf(32) /\ a + 1 \in OffsetsOf(32)
                       /\ a + 2 \in OffsetsOf(32) /\ a + 3 \in OffsetsOf(32)
    BY Offs32
<1>2. v \in Nat /\ v < 268435456
    BY SMT, BlockAssumption DEF Values, Clusters, Widths, BadEntry, FAT_ENT_FREE, FAT_ENT_EOF, BAD_FAT32, FAT_START_ENT
<1>3. PICK b \in Byte : b = tab[a + 3]  BY <1>1 DEF Tables
<1>4. PICK x \in Byte, y \in Byte, z \in Byte, w \in Byte :
        /\ x = v % 256 /\ y = (v \div 256) % 256 /\ z = (v \div 65536) % 256
        /\ w = (b \div 16) * 16 + (v \div 16777216)
        /\ x + 256 * y + 65536 * z + 16777216 * (w % 16) = v
    BY SMT, <1>2, FourBytes
<1>5. PICK new : new = [tab EXCEPT ![a] = x, ![a + 1] = y, ![a + 2] = z, ![a + 3] = w]  OBVIOUS
<1>6. ent_put(32, tab, Pos(32, c), v) = new
  <2>1. PICK p : p = Pos(32, c)  OBVIOUS
  <2>2. p.off = a  BY <1>1, <2>1, PosFacts, Offs32
  <2>3. ent_put(32, tab, p, v) = fat32_ent_put(tab, p, v)  BY DEF ent_put
  <2> QED BY SMT, <1>3, <1>4, <1>5, <2>1, <2>2, <2>3 DEF fat32_ent_put
<1>7. /\ new \in Tables(32)
      /\ new[a] = x /\ new[a + 1] = y /\ new[a + 2] = z /\ new[a + 3] = w
      /\ \A o \in OffsetsOf(32) : o \notin {a, a + 1, a + 2, a + 3} => new[o] = tab[o]
  <2>1. OffsetsOf(32) \in SUBSET Int /\ a \in Int  BY DEF OffsetsOf
  <2>2. PICK O \in SUBSET Int : O = OffsetsOf(32)  BY <2>1
  <2>3. tab \in [O -> Byte]  BY <2>2 DEF Tables
  <2>4. a \in O /\ a + 1 \in O /\ a + 2 \in O /\ a + 3 \in O  BY <1>1, <2>2
  <2>5. /\ new \in [O -> Byte]
        /\ new[a] = x /\ new[a + 1] = y /\ new[a + 2] = z /\ new[a + 3] = w
        /\ \A o \in O : o \notin {a, a + 1, a + 2, a + 3} => new[o] = tab[o]
      BY <1>5, <2>1, <2>3, <2>4, FourChanged
  <2> QED BY <2>2, <2>5 DEF Tables
<1>8. ent_get(32, new, Pos(32, c)) = v
  <2>1. ent_get(32, new, Pos(32, c)) = Get32(x, y, z, w)  BY <1>1, <1>7, Read32
  <2>2. Get32(x, y, z, w) = IF v >= BAD_FAT32 THEN FAT_ENT_EOF ELSE v  BY SMT, <1>4 DEF Get32, BAD_FAT32
  <2>3. v >= BAD_FAT32 => v = FAT_ENT_EOF
      BY SMT, BlockAssumption DEF Values, Clusters, Widths, BadEntry, FAT_ENT_FREE, BAD_FAT32, FAT_START_ENT
  <2> QED BY <2>1, <2>2, <2>3
<1>9. ASSUME NEW d \in Clusters \ {c}
      PROVE  ent_get(32, new, Pos(32, d)) = ent_get(32, tab, Pos(32, d))
  <2>1. /\ d \in Nat /\ c \in Nat
        /\ 4 * d \in OffsetsOf(32) /\ 4 * d + 1 \in OffsetsOf(32)
        /\ 4 * d + 2 \in OffsetsOf(32) /\ 4 * d + 3 \in OffsetsOf(32)
      BY Offs32
  <2>2. /\ 4 * d \notin {a, a + 1, a + 2, a + 3} /\ 4 * d + 1 \notin {a, a + 1, a + 2, a + 3}
        /\ 4 * d + 2 \notin {a, a + 1, a + 2, a + 3} /\ 4 * d + 3 \notin {a, a + 1, a + 2, a + 3}
      BY <2>1, <1>1
  <2>3. /\ new[4 * d] = tab[4 * d] /\ new[4 * d + 1] = tab[4 * d + 1]
        /\ new[4 * d + 2] = tab[4 * d + 2] /\ new[4 * d + 3] = tab[4 * d + 3]
      BY <1>7, <2>1, <2>2
  <2>4. ent_get(32, new, Pos(32, d)) = Get32(new[4 * d], new[4 * d + 1], new[4 * d + 2], new[4 * d + 3])
      BY Read32
  <2>5. ent_get(32, tab, Pos(32, d)) = Get32(tab[4 * d], tab[4 * d + 1], tab[4 * d + 2], tab[4 * d + 3])
      BY Read32
  <2> QED BY <2>3, <2>4, <2>5
<1>10. \A o \in OffsetsOf(32) :
        o \notin {ent_blocknr(32, c) + i : i \in 0 .. Size(32) - 1} => new[o] = tab[o]
  <2>1. ent_blocknr(32, c) = a  BY <1>1, Offs32
  <2>2. \A i \in {0, 1, 2, 3} : i \in 0 .. Size(32) - 1  BY DEF Size
  <2>3. a + 0 = a  OBVIOUS
  <2>4. {a, a + 1, a + 2, a + 3} \subseteq {ent_blocknr(32, c) + i : i \in 0 .. Size(32) - 1}
      BY <2>1, <2>2, <2>3
  <2> QED BY <1>7, <2>4
<1> QED BY <1>6, <1>7, <1>8, <1>9, <1>10 DEF Written

(* The bytes of an entry are in the blocks that are collected for it.      *)
LEMMA SameBlock ==
    ASSUME NEW a \in Nat, NEW n \in Nat \ {0}, NEW k \in {2, 4}, a % k = 0, n % k = 0
    PROVE  \A i \in 0 .. k - 1 : (a + i) \div n = a \div n
<1>1. PICK q \in Nat, r \in Nat : q = a \div n /\ r = a % n /\ a = n * q + r /\ r < n
    BY DivFacts
<1>2. PICK e \in Nat, m \in Nat : a = k * e /\ n = k * m
  <2>1. a \div k \in Nat /\ n \div k \in Nat /\ a = k * (a \div k) /\ n = k * (n \div k)
      OBVIOUS
  <2> QED BY <2>1
<1>3. r % k = 0 /\ r + k <= n
  <2>1. PICK j \in Nat : j = m * q  OBVIOUS
  <2>2. n * q = k * j
    <3>1. CASE k = 2  BY <1>2, <2>1, <3>1
    <3>2. CASE k = 4  BY <1>2, <2>1, <3>2
    <3> QED BY <3>1, <3>2
  <2>3. k * e = k * j + r  BY <1>1, <1>2, <2>2
  <2>4. r < n /\ n = k * m  BY <1>1, <1>2
  <2>5. CASE k = 2
    <3>1. 2 * e = 2 * j + r /\ r < 2 * m /\ n = 2 * m  BY <2>3, <2>4, <2>5
    <3>2. r % 2 = 0 /\ r + 2 <= 2 * m  BY <3>1
    <3> QED BY <2>5, <3>1, <3>2
  <2>6. CASE k = 4
    <3>1. 4 * e = 4 * j + r /\ r < 4 * m /\ n = 4 * m  BY <2>3, <2>4, <2>6
    <3>2. r % 4 = 0 /\ r + 4 <= 4 * m  BY <3>1
    <3> QED BY <2>6, <3>1, <3>2
  <2> QED BY <2>5, <2>6
<1>4. (a + 1) \div n = q /\ (a + 1) % n = r + 1
  <2>1. (a % n) + 1 < n  BY <1>1, <1>3
  <2> QED BY <2>1, <1>1, NextByte
<1>5. k = 4 => (a + 2) \div n = q /\ (a + 2) % n = r + 2
  <2> HAVE k = 4
  <2>1. a + 1 \in Nat /\ a + 1 + 1 = a + 2  OBVIOUS
  <2>2. ((a + 1) % n) + 1 < n /\ ((a + 1) % n) + 1 = r + 2  BY <1>1, <1>3, <1>4
  <2> QED BY <2>1, <2>2, <1>4, NextByte
<1>6. k = 4 => (a + 3) \div n = q
  <2> HAVE k = 4
  <2>1. a + 2 \in Nat /\ a + 2 + 1 = a + 3  OBVIOUS
  <2>2. ((a + 2) % n) + 1 < n  BY <1>1, <1>3, <1>5
  <2> QED BY <2>1, <2>2, <1>5, NextByte
<1>7. a + 0 = a  OBVIOUS
<1> QED BY <1>1, <1>4, <1>5, <1>6, <1>7
LEMMA EntryBlocks ==
    ASSUME NEW bits \in Widths, NEW c \in Clusters
    PROVE  \A i \in 0 .. Size(bits) - 1 :
                (ent_blocknr(bits, c) + i) \div s_blocksize \in BhsOf(Pos(bits, c))
<1>1. PICK n \in Nat \ {0} : n = s_blocksize /\ n % 4 = 0 /\ n % 2 = 0
  <2>1. PICK n \in Nat \ {0} : n = s_blocksize /\ n % 4 = 0  BY BlockAssumption
  <2>2. n % 2 = 0  BY <2>1
  <2> QED BY <2>1, <2>2
<1>2. PICK a \in Nat : a = ent_blocknr(bits, c)  BY EntryOffs
<1>3. PICK p : p = Pos(bits, c)  OBVIOUS
<1>4. p.off = a /\ p.nr_bhs = (IF bits = 12 /\ (a % n) + 1 >= n THEN 2 ELSE 1)
    BY <1>1, <1>2, <1>3 DEF Pos
<1>5. PICK q \in Nat : q = a \div n  BY DivFacts
<1>6. BhsOf(p) = {q + j : j \in 0 .. p.nr_bhs - 1}  BY <1>1, <1>4, <1>5 DEF BhsOf
<1>7. q \in BhsOf(p)
  <2>1. 0 \in 0 .. p.nr_bhs - 1 /\ q + 0 = q  BY <1>4
  <2> QED BY <2>1, <1>6
<1>8. c \in Nat  BY DEF Clusters, FAT_START_ENT
<1>9. CASE bits = 12
  <2>1. ASSUME NEW i \in 0 .. Size(bits) - 1 PROVE i = 0 \/ i = 1  BY <1>9 DEF Size
  <2>2. (a + 1) \div n \in BhsOf(p)
    <3>1. CASE (a % n) + 1 < n  BY <3>1, <1>5, <1>7, NextByte
    <3>2. CASE (a % n) + 1 >= n
      <4>1. 1 \in 0 .. p.nr_bhs - 1  BY <3>2, <1>4, <1>9
      <4>2. (a + 1) \div n = q + 1  BY <3>2, <1>5, NextByte
      <4> QED BY <4>1, <4>2, <1>6
    <3> QED BY <3>1, <3>2, DivFacts
  <2>3. a + 0 = a  OBVIOUS
  <2> QED BY <1>1, <1>2, <1>3, <1>5, <1>7, <2>1, <2>2, <2>3
<1>10. CASE bits = 16
  <2>1. a = c * 2  BY <1>2, <1>10 DEF ent_blocknr, fat_ent_blocknr
  <2>2. a % 2 = 0  BY <2>1, <1>8
  <2>3. \A i \in 0 .. 2 - 1 : (a + i) \div n = q  BY <1>1, <1>5, <2>2, SameBlock
  <2>4. Size(bits) = 2  BY <1>10 DEF Size
  <2> QED BY <1>1, <1>2, <1>3, <1>7, <2>3, <2>4
<1>11. CASE bits = 32
  <2>1. a = c * 4  BY <1>2, <1>11 DEF ent_blocknr, fat_ent_blocknr
  <2>2. a % 4 = 0  BY <2>1, <1>8
  <2>3. \A i \in 0 .. 4 - 1 : (a + i) \div n = q  BY <1>1, <1>5, <2>2, SameBlock
  <2>4. Size(bits) = 4  BY <1>11 DEF Size
  <2> QED BY <1>1, <1>2, <1>3, <1>7, <2>3, <2>4
<1>12. bits \in {12, 16, 32}  BY DEF Widths
<1> QED BY <1>9, <1>10, <1>11, <1>12

(* The entries of a FAT behave like an array: fat12_ent_put, fat16_ent_put *)
(* and fat32_ent_put write a value that the ent_get of the same width      *)
(* reads back, leave every other entry of the table as it was, also the    *)
(* one that shares a byte with it, and change no byte outside the blocks   *)
(* that fat_collect_bhs collects for the copy of the FAT.                  *)
THEOREM EntryWritten ==
    ASSUME NEW bits \in Widths, NEW tab \in Tables(bits), NEW c \in Clusters, NEW v \in Values
    PROVE  LET new == ent_put(bits, tab, Pos(bits, c), v)
           IN /\ new \in Tables(bits)
              /\ ent_get(bits, new, Pos(bits, c)) = v
              /\ \A d \in Clusters \ {c} :
                    ent_get(bits, new, Pos(bits, d)) = ent_get(bits, tab, Pos(bits, d))
              /\ \A o \in OffsetsOf(bits) :
                    o \div s_blocksize \notin BhsOf(Pos(bits, c)) => new[o] = tab[o]
<1>1. PICK new : new = ent_put(bits, tab, Pos(bits, c), v)  OBVIOUS
<1>2. Written(bits, tab, new, c, v)
  <2>1. CASE bits = 12  BY <1>1, <2>1, Put12
  <2>2. CASE bits = 16  BY <1>1, <2>2, Put16
  <2>3. CASE bits = 32  BY <1>1, <2>3, Put32
  <2>4. bits \in {12, 16, 32}  BY DEF Widths
  <2> QED BY <2>1, <2>2, <2>3, <2>4
<1>3. ASSUME NEW o \in OffsetsOf(bits), o \div s_blocksize \notin BhsOf(Pos(bits, c))
      PROVE  new[o] = tab[o]
  <2>1. o \notin {ent_blocknr(bits, c) + i : i \in 0 .. Size(bits) - 1}  BY <1>3, EntryBlocks
  <2> QED BY <1>2, <2>1 DEF Written
<1> QED BY <1>1, <1>2, <1>3 DEF Written

(* Some element of a set of natural numbers is the least one.              *)
LEMMA LeastOf ==
    ASSUME NEW T \in SUBSET Nat, T # {}
    PROVE  \E x \in T : \A y \in T : x <= y
<1> DEFINE R == {p \in Nat \X Nat : p[1] < p[2]}
<1>1. IsWellFoundedOn(R, Nat)  BY NatLessThanWellFounded DEF OpToRel
<1>2. \E x \in T : \A y \in T : ~(<<y, x>> \in R)  BY <1>1, WFMin
<1>3. \A x, y \in Nat : y < x => <<y, x>> \in R  OBVIOUS
<1> HIDE DEF R
<1>4. PICK x \in T : \A y \in T : ~(<<y, x>> \in R)  BY <1>2
<1>5. ASSUME NEW y \in T PROVE x <= y
  <2>1. x \in Nat /\ y \in Nat /\ ~(<<y, x>> \in R)  BY <1>4
  <2>2. ~(y < x)  BY <1>3, <2>1
  <2> QED BY <2>1, <2>2
<1> QED BY <1>5

(* Induction up to n.                                                      *)
LEMMA UpTo ==
    ASSUME NEW n \in Nat, NEW T, 0 \in T, \A k \in 1 .. n : k - 1 \in T => k \in T
    PROVE  \A k \in 0 .. n : k \in T
<1> DEFINE M == {k \in 0 .. n : k \notin T}
<1> SUFFICES ASSUME M # {} PROVE FALSE  OBVIOUS
<1>1. M \in SUBSET Nat  OBVIOUS
<1>2. PICK x \in M : \A y \in M : x <= y  BY <1>1, LeastOf
<1>3. x \in 1 .. n /\ x \notin T  BY <1>2
<1>4. x - 1 \in 0 .. n /\ ~(x <= x - 1)  BY <1>3
<1>5. x - 1 \in T  BY <1>2, <1>4
<1> QED BY <1>3, <1>5

(* A function can be defined by recursion up to n.                         *)
Defined(n, V, a, G) ==
    \E h \in [0 .. n -> V] : h[0] = a /\ \A k \in 1 .. n : h[k] = G[k][h[k - 1]]
LEMMA Recursion ==
    ASSUME NEW n \in Nat, NEW V, NEW a \in V, NEW G \in [1 .. n -> [V -> V]]
    PROVE  Defined(n, V, a, G)
<1> DEFINE P(m) == Defined(m, V, a, G)
           T == {m \in 0 .. n : P(m)}
<1>1. 0 \in T
  <2>1. [k \in 0 .. 0 |-> a] \in [0 .. 0 -> V] /\ [k \in 0 .. 0 |-> a][0] = a  OBVIOUS
  <2>2. \A k \in 1 .. 0 : FALSE  OBVIOUS
  <2>3. P(0)  BY <2>1, <2>2 DEF Defined
  <2> HIDE DEF P
  <2> QED BY <2>3
<1>2. ASSUME NEW m \in 1 .. n, m - 1 \in T
      PROVE  m \in T
  <2>1. PICK h \in [0 .. m - 1 -> V] : h[0] = a /\ \A k \in 1 .. m - 1 : h[k] = G[k][h[k - 1]]
      BY <1>2 DEF Defined
  <2> DEFINE g == [k \in 0 .. m |-> IF k = m THEN G[m][h[m - 1]] ELSE h[k]]
  <2>2. h[m - 1] \in V  OBVIOUS
  <2>3. G[m][h[m - 1]] \in V  BY <2>2
  <2>4. g \in [0 .. m -> V]  BY <2>3
  <2>5. g[0] = a  BY <2>1
  <2>6. ASSUME NEW k \in 1 .. m PROVE g[k] = G[k][g[k - 1]]
    <3>1. g[k - 1] = h[k - 1]  OBVIOUS
    <3>2. CASE k = m  BY <3>1, <3>2
    <3>3. CASE k # m
      <4>1. k \in 1 .. m - 1 /\ g[k] = h[k]  BY <3>3
      <4> QED BY <2>1, <3>1, <4>1
    <3> QED BY <3>2, <3>3
  <2> HIDE DEF g
  <2>7. P(m)  BY <2>4, <2>5, <2>6 DEF Defined
  <2> HIDE DEF P
  <2> QED BY <2>7
<1> HIDE DEF T
<1>3. n \in T
  <2>1. \A k \in 1 .. n : k - 1 \in T => k \in T  BY <1>2
  <2>2. \A k \in 0 .. n : k \in T  BY <1>1, <2>1, UpTo
  <2>3. n \in 0 .. n  OBVIOUS
  <2> QED BY <2>2, <2>3
<1> QED BY <1>3 DEF T

(* A position that the code can read: of a cluster, where its entry is.    *)
Posns(bits) == {p \in [entry : Clusters, off : Nat, rd : BOOLEAN, nr_bhs : {1, 2}] :
                    p.off = ent_blocknr(bits, p.entry)}
LEMMA PosPosn ==
    ASSUME NEW bits \in Widths, NEW c \in Clusters
    PROVE  Pos(bits, c) \in Posns(bits) /\ Pos(bits, c).entry = c
<1>1. ent_blocknr(bits, c) \in Nat  BY EntryOffs
<1> QED BY <1>1 DEF Pos, Posns
(* Only the entry and its offset matter.                                   *)
LEMMA SamePosn ==
    ASSUME NEW bits \in Widths, NEW p \in Posns(bits), NEW tab, NEW v
    PROVE  /\ ent_get(bits, tab, p) = ent_get(bits, tab, Pos(bits, p.entry))
           /\ ent_put(bits, tab, p, v) = ent_put(bits, tab, Pos(bits, p.entry), v)
<1>1. p.off = ent_blocknr(bits, p.entry)  BY DEF Posns
<1>2. PICK q : q = Pos(bits, p.entry)  OBVIOUS
<1>3. q.off = p.off /\ q.entry = p.entry  BY <1>1, <1>2, PosFacts
<1>4. /\ fat12_ent_get(tab, p) = fat12_ent_get(tab, q)
      /\ fat16_ent_get(tab, p) = fat16_ent_get(tab, q)
      /\ fat32_ent_get(tab, p) = fat32_ent_get(tab, q)
    BY SMT, <1>3 DEF fat12_ent_get, fat16_ent_get, fat32_ent_get
<1>5. /\ fat12_ent_put(tab, p, v) = fat12_ent_put(tab, q, v)
      /\ fat16_ent_put(tab, p, v) = fat16_ent_put(tab, q, v)
      /\ fat32_ent_put(tab, p, v) = fat32_ent_put(tab, q, v)
    BY SMT, <1>3 DEF fat12_ent_put, fat16_ent_put, fat32_ent_put
<1>6. bits \in {12, 16, 32}  BY DEF Widths
<1> QED BY <1>2, <1>4, <1>5, <1>6 DEF ent_get, ent_put

(* The next entry in the same block is where it should be.                 *)
LEMMA NextPosn ==
    ASSUME NEW bits \in Widths, NEW p \in Posns(bits)
    PROVE  LET n == ent_next(bits, p)
           IN /\ n.pos.entry = p.entry + 1
              /\ n.pos.entry < max_cluster => n.pos \in Posns(bits)
<1>1. /\ p.entry \in Nat /\ p.entry >= FAT_START_ENT /\ p.off = ent_blocknr(bits, p.entry) /\ p.off \in Nat
    BY DEF Posns, Clusters, FAT_START_ENT
<1>2. PICK e \in Nat, o \in Nat : e = p.entry /\ o = p.off  BY <1>1
<1>3. PICK q : q = ent_next(bits, p).pos  OBVIOUS
<1>4. q = [entry |-> e + 1, off |-> ent_blocknr(bits, e + 1), nr_bhs |-> 1, rd |-> FALSE]
  <2>1. CASE bits = 12
    <3>0. ent_next(bits, p) = fat12_ent_next(p)  BY <2>1 DEF ent_next
    <3>1. q = [entry |-> e + 1, off |-> (o + 2 + (e % 2)) - 1, nr_bhs |-> 1, rd |-> FALSE]
        BY <1>2, <1>3, <3>0 DEF fat12_ent_next
    <3>2. o = e + (e \div 2)  BY <1>1, <1>2, <2>1 DEF ent_blocknr, fat12_ent_blocknr
    <3>3. ent_blocknr(bits, e + 1) = (e + 1) + ((e + 1) \div 2)  BY <2>1 DEF ent_blocknr, fat12_ent_blocknr
    <3>4. (e + (e \div 2) + 2 + (e % 2)) - 1 = (e + 1) + ((e + 1) \div 2)  OBVIOUS
    <3> QED BY <3>1, <3>2, <3>3, <3>4
  <2>2. CASE bits = 16
    <3>0. ent_next(bits, p) = fat16_ent_next(p)  BY <2>2 DEF ent_next
    <3>1. q = [entry |-> e + 1, off |-> o + 2, nr_bhs |-> 1, rd |-> FALSE]
        BY <1>2, <1>3, <3>0 DEF fat16_ent_next
    <3>2. o + 2 = (e + 1) * 2  BY <1>1, <1>2, <2>2 DEF ent_blocknr, fat_ent_blocknr
    <3>3. ent_blocknr(bits, e + 1) = (e + 1) * 2  BY <2>2 DEF ent_blocknr, fat_ent_blocknr
    <3> QED BY <3>1, <3>2, <3>3
  <2>3. CASE bits = 32
    <3>0. ent_next(bits, p) = fat32_ent_next(p)  BY <2>3 DEF ent_next
    <3>1. q = [entry |-> e + 1, off |-> o + 4, nr_bhs |-> 1, rd |-> FALSE]
        BY <1>2, <1>3, <3>0 DEF fat32_ent_next
    <3>2. o + 4 = (e + 1) * 4  BY <1>1, <1>2, <2>3 DEF ent_blocknr, fat_ent_blocknr
    <3>3. ent_blocknr(bits, e + 1) = (e + 1) * 4  BY <2>3 DEF ent_blocknr, fat_ent_blocknr
    <3> QED BY <3>1, <3>2, <3>3
  <2>4. bits \in {12, 16, 32}  BY DEF Widths
  <2> QED BY <2>1, <2>2, <2>3, <2>4
<1>5. ASSUME e + 1 < max_cluster PROVE q \in Posns(bits)
  <2>1. e + 1 \in Clusters  BY <1>1, <1>2, <1>5, BlockAssumption DEF Clusters, FAT_START_ENT
  <2>2. ent_blocknr(bits, e + 1) \in Nat  BY <2>1, EntryOffs
  <2> QED BY <1>4, <2>1, <2>2 DEF Posns
<1> QED BY <1>2, <1>3, <1>4, <1>5

(* One turn of the loop over the table.                                    *)
Following(bits, p) ==
    LET n == ent_next(bits, p)
    IN IF n.ok /\ n.pos.entry < max_cluster THEN n.pos
       ELSE Pos(bits, Wrapped(p.entry + 1))
LEMMA FollowingPosn ==
    ASSUME NEW bits \in Widths, NEW p \in Posns(bits)
    PROVE  /\ Following(bits, p) \in Posns(bits)
           /\ Following(bits, p).entry = IF p.entry + 1 < max_cluster THEN p.entry + 1 ELSE FAT_START_ENT
<1>1. p.entry \in Clusters /\ p.entry \in Nat  BY DEF Posns, Clusters, FAT_START_ENT
<1>2. Wrapped(p.entry + 1) \in Clusters
      /\ Wrapped(p.entry + 1) = IF p.entry + 1 < max_cluster THEN p.entry + 1 ELSE FAT_START_ENT
    BY <1>1, BlockAssumption DEF Wrapped, Clusters, FAT_START_ENT
<1>3. PICK q : q = Pos(bits, Wrapped(p.entry + 1))  OBVIOUS
<1>4. q \in Posns(bits) /\ q.entry = Wrapped(p.entry + 1)  BY <1>2, <1>3, PosPosn
<1>5. PICK n : n = ent_next(bits, p)  OBVIOUS
<1>6. n.pos.entry = p.entry + 1 /\ (n.pos.entry < max_cluster => n.pos \in Posns(bits))
    BY <1>5, NextPosn
<1>7. Following(bits, p) = IF n.ok /\ n.pos.entry < max_cluster THEN n.pos ELSE q
    BY <1>3, <1>5 DEF Following
<1> QED BY <1>2, <1>4, <1>6, <1>7

(* A loop over the table reads the entry of every cluster once, at its     *)
(* place, wherever the loop begins.                                        *)
LEMMA VisitAll ==
    ASSUME NEW bits \in Widths, NEW first \in Nat, first >= FAT_START_ENT, first <= max_cluster
    PROVE  LET all == Visit(bits, first)
               N == max_cluster - FAT_START_ENT
           IN /\ N \in Nat /\ all \in [1 .. N -> Posns(bits)]
              /\ \A c \in Clusters : \E k \in 1 .. N : all[k].entry = c
              /\ \A j, k \in 1 .. N : all[j].entry = all[k].entry => j = k
<1>1. PICK m \in Nat : m = max_cluster /\ m > 2  BY BlockAssumption DEF FAT_START_ENT
<1>2. PICK f \in Nat : f = Wrapped(first) /\ f >= 2 /\ f < m
    BY <1>1 DEF Wrapped, FAT_START_ENT
<1>3. f \in Clusters  BY <1>1, <1>2 DEF Clusters, FAT_START_ENT
<1>4. PICK a \in Posns(bits) : a = Pos(bits, f) /\ a.entry = f  BY <1>3, PosPosn
<1> DEFINE V == Posns(bits)
           G == [k \in 1 .. m |-> [p \in V |-> Following(bits, p)]]
           at == CHOOSE g : g = [k \in 0 .. max_cluster |->
                    IF k = 0 THEN Pos(bits, Wrapped(first))
                    ELSE IF ent_next(bits, g[k - 1]).ok
                            /\ ent_next(bits, g[k - 1]).pos.entry < max_cluster
                         THEN ent_next(bits, g[k - 1]).pos
                         ELSE Pos(bits, Wrapped(g[k - 1].entry + 1))]
<1>5. PICK h \in [0 .. m -> V] : h[0] = a /\ \A k \in 1 .. m : h[k] = G[k][h[k - 1]]
  <2>1. G \in [1 .. m -> [V -> V]]  BY FollowingPosn
  <2> HIDE DEF G, V
  <2>2. a \in V  BY DEF V
  <2>3. Defined(m, V, a, G)  BY <2>1, <2>2, Recursion
  <2> QED BY <2>3 DEF Defined
<1>6. \A k \in 1 .. m : h[k - 1] \in V /\ h[k] = Following(bits, h[k - 1])
  <2> SUFFICES ASSUME NEW k \in 1 .. m PROVE h[k - 1] \in V /\ h[k] = Following(bits, h[k - 1])
      OBVIOUS
  <2>1. k - 1 \in 0 .. m  OBVIOUS
  <2>2. h[k - 1] \in V  BY <2>1
  <2> QED BY <1>5, <2>2
<1> HIDE DEF G
<1>7. h = [k \in 0 .. max_cluster |->
                    IF k = 0 THEN Pos(bits, Wrapped(first))
                    ELSE IF ent_next(bits, h[k - 1]).ok
                            /\ ent_next(bits, h[k - 1]).pos.entry < max_cluster
                         THEN ent_next(bits, h[k - 1]).pos
                         ELSE Pos(bits, Wrapped(h[k - 1].entry + 1))]
  <2>1. h[0] = Pos(bits, Wrapped(first))  BY <1>2, <1>4, <1>5
  <2>2. ASSUME NEW k \in 0 .. m, k # 0
        PROVE  h[k] = IF ent_next(bits, h[k - 1]).ok
                            /\ ent_next(bits, h[k - 1]).pos.entry < max_cluster
                         THEN ent_next(bits, h[k - 1]).pos
                         ELSE Pos(bits, Wrapped(h[k - 1].entry + 1))
    <3>1. k \in 1 .. m  BY <2>2
    <3> QED BY <1>6, <3>1 DEF Following
  <2>3. h = [k \in 0 .. m |-> h[k]]  OBVIOUS
  <2> QED BY <1>1, <2>1, <2>2, <2>3
<1>8. at = [k \in 0 .. max_cluster |->
                    IF k = 0 THEN Pos(bits, Wrapped(first))
                    ELSE IF ent_next(bits, at[k - 1]).ok
                            /\ ent_next(bits, at[k - 1]).pos.entry < max_cluster
                         THEN ent_next(bits, at[k - 1]).pos
                         ELSE Pos(bits, Wrapped(at[k - 1].entry + 1))]
    BY <1>7
<1>9. Visit(bits, first) = [k \in 1 .. max_cluster - FAT_START_ENT |-> at[k - 1]]
    BY DEF Visit
<1> HIDE DEF at
<1>10. /\ at[0] = a
       /\ \A k \in 1 .. m : at[k] = Following(bits, at[k - 1])
    BY <1>1, <1>2, <1>4, <1>8, SMTT(30) DEF Following
<1> DEFINE E(k) == IF f + k < m THEN f + k ELSE (f + k) - (m - 2)
           T == {k \in 0 .. m - 3 : at[k] \in V /\ at[k].entry = E(k)}
<1>11. 0 \in T  BY <1>1, <1>2, <1>4, <1>10
<1>12. ASSUME NEW k \in 1 .. m - 3, k - 1 \in T
       PROVE  k \in T
  <2>1. at[k - 1] \in V /\ at[k - 1].entry = E(k - 1)  BY <1>12
  <2>2. at[k] = Following(bits, at[k - 1])  BY <1>10, <1>1
  <2>3. at[k] \in V /\ at[k].entry = IF E(k - 1) + 1 < m THEN E(k - 1) + 1 ELSE 2
      BY <1>1, <2>1, <2>2, FollowingPosn DEF FAT_START_ENT
  <2>4. (IF E(k - 1) + 1 < m THEN E(k - 1) + 1 ELSE 2) = E(k)  BY <1>1, <1>2
  <2> QED BY <2>3, <2>4
<1>13. \A k \in 0 .. m - 3 : at[k] \in V /\ at[k].entry = E(k)
  <2>1. m - 3 \in Nat  BY <1>1
  <2>2. \A k \in 1 .. m - 3 : k - 1 \in T => k \in T  BY <1>12
  <2>3. \A k \in 0 .. m - 3 : k \in T
    <3> HIDE DEF T
    <3> QED BY <1>11, <2>1, <2>2, UpTo
  <2> QED BY <2>3
<1>14. PICK all : all = Visit(bits, first)  OBVIOUS
<1>15. PICK n \in Nat : n = max_cluster - FAT_START_ENT /\ n = m - 2  BY <1>1 DEF FAT_START_ENT
<1>16. all = [k \in 1 .. n |-> at[k - 1]]  BY <1>9, <1>14, <1>15
<1>17. \A k \in 1 .. n : all[k] \in Posns(bits) /\ all[k].entry = E(k - 1)
  <2> SUFFICES ASSUME NEW k \in 1 .. n PROVE all[k] \in Posns(bits) /\ all[k].entry = E(k - 1)
      OBVIOUS
  <2>1. k - 1 \in 0 .. m - 3  BY <1>15
  <2>2. all[k] = at[k - 1]  BY <1>16
  <2> QED BY <1>13, <2>1, <2>2
<1>18. all \in [1 .. n -> Posns(bits)]
  <2>1. all = [k \in 1 .. n |-> all[k]]  BY <1>16
  <2> QED BY <1>17, <2>1
<1>19. ASSUME NEW c \in Clusters PROVE \E k \in 1 .. n : all[k].entry = c
  <2>1. c \in Nat /\ c >= 2 /\ c < m  BY <1>1 DEF Clusters, FAT_START_ENT
  <2>2. PICK k \in 1 .. n : E(k - 1) = c
    <3>1. CASE c >= f
      <4>1. (c - f) + 1 \in 1 .. n /\ E(((c - f) + 1) - 1) = c  BY <1>2, <1>15, <2>1, <3>1
      <4> QED BY <4>1
    <3>2. CASE c < f
      <4>1. ((c - f) + (m - 2)) + 1 \in 1 .. n /\ E((((c - f) + (m - 2)) + 1) - 1) = c
          BY <1>2, <1>15, <2>1, <3>2
      <4> QED BY <4>1
    <3> QED BY <3>1, <3>2, <1>2, <2>1
  <2> QED BY <1>17, <2>2
<1>20. ASSUME NEW j \in 1 .. n, NEW k \in 1 .. n, all[j].entry = all[k].entry
       PROVE  j = k
  <2>1. E(j - 1) = E(k - 1)  BY <1>17, <1>20
  <2> QED BY <1>2, <1>15, <2>1, SMTT(30)
<1> QED BY <1>14, <1>15, <1>18, <1>19, <1>20
=============================================================================
