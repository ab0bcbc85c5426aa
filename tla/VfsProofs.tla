----------------------------- MODULE VfsProofs ------------------------------
(***************************************************************************)
(* Proofs about the data of a file, for every number of threads, blocks,   *)
(* bytes in a block, calls, failures and power failures: the types, and    *)
(* that the store never holds data behind the end of the file.             *)
(*                                                                         *)
(* NoDataBehindEnd speaks of what is stored and needs to know two things   *)
(* of what is in memory: that the size in memory is not below the one that *)
(* is stored, since a truncation chooses its objects by the former, and    *)
(* that a page being written is within its block.  SizeInv and TypeInv say *)
(* so.  The first part is about the operators: positions and blocks, what  *)
(* a list of objects makes of the store, what a read of a block returns.   *)
(***************************************************************************)
EXTENDS Vfs, TLAPS

(* The offset of block b in the file, and what a byte can be.              *)
Off(b) == b * BlockSize
Bytes == {0, 1} \cup FreshBytes

(* The blocks of a file are BlockSize bytes each, one behind the other.    *)
LEMMA OffFacts ==
    /\ \A b \in Blocks : Off(b) \in Nat /\ Off(b) + BlockSize <= NbBlocks * BlockSize
    /\ \A b, c \in Nat : b < c => Off(b) + BlockSize <= Off(c)
<1>1. ASSUME NEW b \in Nat, NEW c \in Nat, b < c PROVE Off(b) + BlockSize <= Off(c)
    BY <1>1, FileAssumption DEF Off
<1> QED  BY <1>1, FileAssumption DEF Off, Blocks

(* A position in the file is the start of its block and an offset into it, *)
(* as the kernel splits pos into a page index and an offset.               *)
LEMMA DivMod ==
    ASSUME NEW k \in Nat
    PROVE  /\ k \div BlockSize \in Nat /\ k % BlockSize \in 0 .. BlockSize - 1
           /\ k = Off(k \div BlockSize) + (k % BlockSize)
BY FileAssumption DEF Off

(* The other way round: the block and the offset of a byte of a block.     *)
LEMMA DivOff ==
    ASSUME NEW b \in Nat, NEW j \in 0 .. BlockSize - 1
    PROVE  (Off(b) + j) \div BlockSize = b /\ (Off(b) + j) % BlockSize = j
BY FileAssumption DEF Off

(* The identifiers of the objects of a file (obj.h) are told apart by type *)
(* and block, and ordered: the inode, then the blocks.                     *)
LEMMA IdFacts ==
    /\ type_from_id(InodeId) = INODE /\ inum_from_id(InodeId) = Ino /\ InodeId \in Nat
    /\ \A b \in Blocks : /\ type_from_id(data_id_init(b)) = DATA
                         /\ inum_from_id(data_id_init(b)) = Ino
                         /\ data_id_init(b) \in Nat /\ InodeId < data_id_init(b)
    /\ \A b, c \in Blocks : data_id_init(b) <= data_id_init(c) <=> b <= c
BY FileAssumption DEF type_from_id, inum_from_id, data_id_init, obj_id, InodeId, Blocks, INODE, DATA

-----------------------------------------------------------------------------
(* The data of a page, the values of a data object, and contents.          *)
Data == [1 .. BlockSize -> Bytes]
DataVals == {Absent} \cup UNION {[1 .. n -> Bytes] : n \in 1 .. BlockSize}
Contents == [Ids -> Sizes \cup DataVals]

(* A content of the store in which the file exists.                        *)
Good(c) ==
    /\ c \in Contents /\ c[InodeId] \in Sizes
    /\ \A b \in Blocks : c[data_id_init(b)] \in DataVals
(* No data lies behind the end of the file.                                *)
Tight(c) ==
    \A b \in Blocks :
        c[data_id_init(b)] # Absent =>
            Off(b) + Len(c[data_id_init(b)]) <= c[InodeId]

(* Where a thread can be, and its locals there; pages.                     *)
Labels == {"idle", "write_begin", "write_end", "write_page", "fsync", "truncate", "setattr",
           "i_size_write", "setsize"}
Kinds == {"write", "truncate", "raised", "shrunk", "store"}
WriteLocs ==
    {l \in [pos : Sizes, len : 1 .. BlockSize] :
        (l.pos % BlockSize) + l.len <= BlockSize /\ l.pos + l.len \in Sizes}
FsyncLocs == [todo : SUBSET Blocks, mods : Nat]
PageLocs == [blk : Blocks, len : 1 .. BlockSize, next : {"idle", "fsync"}, rest : FsyncLocs \cup {<<>>}]
TruncateLocs == [size : Sizes]
SetsizeLocs == [size : Sizes, todo : SUBSET Blocks]
Pages == [up : BOOLEAN, dirty : BOOLEAN, lock : All \cup {None}, data : Data]

(* The types of the store's contents, and of what is in memory.            *)
StoreInv ==
    /\ log \in Seq(Contents) /\ log # <<>>
    /\ \A n \in DOMAIN log : Good(log[n])
MemInv ==
    /\ i_size \in Sizes /\ i_lock \in Threads \cup {None}
    /\ page \in [Blocks -> Pages]
    /\ pc \in [All -> Labels]
    /\ DOMAIN loc = All /\ loc = [t \in All |-> loc[t]]
    /\ bytes \in Seq(Bytes) /\ mods \in Nat /\ lost \subseteq Kinds
    /\ fails \in Nat /\ crashes \in Nat

(* What each thread holds and knows at each place.                         *)
CallInv(t) ==
    /\ pc[t] \in {"write_begin", "write_end"} => i_lock = t /\ loc[t] \in WriteLocs
    /\ pc[t] = "write_end" =>
        page[loc[t].pos \div BlockSize].lock = t /\ page[loc[t].pos \div BlockSize].up
    /\ pc[t] \in {"truncate", "setattr", "i_size_write"} => i_lock = t /\ loc[t] \in TruncateLocs
    /\ pc[t] = "setsize" => i_lock = t /\ loc[t] \in SetsizeLocs
    /\ pc[t] = "fsync" => t \in Threads /\ loc[t] \in FsyncLocs
    /\ pc[t] = "write_page" =>
        /\ loc[t] \in PageLocs
        /\ loc[t].next = "fsync" => t \in Threads /\ loc[t].rest \in FsyncLocs
        /\ page[loc[t].blk].lock = t /\ page[loc[t].blk].up

(* The sizes, as long as memory has none that is too small.                *)
SizeInv ==
    Fitting =>
        /\ \A n \in DOMAIN log : Tight(log[n])
        /\ Content[InodeId] <= i_size

CallsInv == \A t \in All : CallInv(t)

(* The first m bytes of a sequence.                                        *)
LEMMA Prefix ==
    ASSUME NEW S, NEW f \in Seq(S), NEW m \in 0 .. Len(f)
    PROVE  /\ SubSeq(f, 1, m) \in Seq(S) /\ Len(SubSeq(f, 1, m)) = m
           /\ \A j \in 1 .. m : SubSeq(f, 1, m)[j] = f[j]
OBVIOUS

(* A sequence with m zeros behind it, as read_block pads a short block.    *)
LEMMA Padded ==
    ASSUME NEW S, NEW f \in Seq(S), NEW m \in Nat
    PROVE  /\ f \o Zeros(m) \in Seq(S \cup {0}) /\ Len(f \o Zeros(m)) = Len(f) + m
           /\ \A j \in 1 .. Len(f) + m : (f \o Zeros(m))[j] = IF j <= Len(f) THEN f[j] ELSE 0
<1>1. Zeros(m) \in Seq({0}) /\ Len(Zeros(m)) = m  BY DEF Zeros
<1> QED  BY <1>1 DEF Zeros

(* The value of an identifier after a list of objects was written is that  *)
(* of the last object that affects it.                                     *)
LEMMA ApplyLast ==
    ASSUME NEW m, NEW objs, NEW x \in Ids, NEW k \in DOMAIN objs, DOMAIN objs \subseteq Nat,
           Affects(objs[k], x), \A j \in DOMAIN objs : Affects(objs[j], x) => j <= k
    PROVE  Apply(m, objs)[x] = objs[k].val
<1> DEFINE K == {j \in DOMAIN objs : Affects(objs[j], x)}
<1>1. k \in K /\ \A j \in K : j <= k  OBVIOUS
<1>2. (CHOOSE h \in K : \A j \in K : j <= h) = k  BY <1>1
<1> QED BY <1>1, <1>2 DEF Apply

(* An identifier that no object of the list affects keeps its value.       *)
LEMMA ApplyNone ==
    ASSUME NEW m, NEW objs, NEW x \in Ids, \A j \in DOMAIN objs : ~Affects(objs[j], x)
    PROVE  Apply(m, objs)[x] = m[x]
BY DEF Apply

(* What the objects of a file affect: an inode or data object its own      *)
(* identifier, the deletion object of a block that block and the later     *)
(* ones, but not the inode.                                                *)
LEMMA AffectsFacts ==
    ASSUME NEW x \in Nat
    PROVE  /\ \A s : Affects(InodeObj(s), x) <=> x = InodeId
           /\ \A b \in Blocks : \A d : Affects(DataObj(b, d), x) <=> x = data_id_init(b)
           /\ \A b, c \in Blocks : Affects(DelObj(data_id_init(b)), data_id_init(c)) <=> b <= c
           /\ \A b \in Blocks : ~Affects(DelObj(data_id_init(b)), InodeId)
           /\ \A b, c \in Blocks : data_id_init(b) = data_id_init(c) <=> b = c
           /\ \A b \in Blocks : data_id_init(b) # InodeId
<1>1. \A b, c \in Blocks : data_id_init(b) = data_id_init(c) => b = c
    BY IdFacts, FileAssumption DEF Blocks
<1>2. \A s : Affects(InodeObj(s), x) <=> x = InodeId
    BY DEF Affects, InodeObj, INODE, DEL
<1>3. \A b \in Blocks : \A d : Affects(DataObj(b, d), x) <=> x = data_id_init(b)
    BY DEF Affects, DataObj, DATA, DEL
<1>4. \A b, c \in Blocks : Affects(DelObj(data_id_init(b)), data_id_init(c)) <=> b <= c
    BY IdFacts DEF Affects, DelObj, DEL, DATA, DENTARR
<1>5. \A b \in Blocks : ~Affects(DelObj(data_id_init(b)), InodeId)
    BY IdFacts DEF Affects, DelObj, DEL, DATA, DENTARR
<1> QED BY <1>1, <1>2, <1>3, <1>4, <1>5, IdFacts

(* Writing objects with values of the right kinds gives a content of the   *)
(* right kind.                                                             *)
LEMMA ApplyGood ==
    ASSUME NEW m \in Contents, NEW objs, DOMAIN objs \subseteq 1 .. 3,
           \A k \in DOMAIN objs : objs[k].val \in Sizes \cup DataVals
    PROVE  Apply(m, objs) \in Contents
<1> SUFFICES ASSUME NEW x \in Ids
             PROVE  Apply(m, objs)[x] \in Sizes \cup DataVals
    BY DEF Contents, Apply
<1> DEFINE K == {j \in DOMAIN objs : Affects(objs[j], x)}
<1>1. CASE K = {}  BY <1>1, ApplyNone DEF Contents
<1>2. CASE K # {}
  <2>1. PICK k \in K : \A j \in K : j <= k  BY <1>2
  <2> QED BY <2>1, ApplyLast
<1> QED BY <1>1, <1>2

(* read_block returns a whole block: the object's data, and zeros behind   *)
(* it.                                                                     *)
LEMMA ReadBlock ==
    ASSUME NEW c, Good(c), NEW b \in Blocks
    PROVE  /\ read_block(c, b) \in Data
           /\ \A j \in 1 .. BlockSize :
                read_block(c, b)[j] =
                    IF c[data_id_init(b)] # Absent /\ j <= Len(c[data_id_init(b)])
                    THEN c[data_id_init(b)][j] ELSE 0
<1> DEFINE d == c[data_id_init(b)]
<1>1. CASE d = Absent
    BY <1>1 DEF read_block, Zeros, Data, Bytes
<1>2. CASE d # Absent
  <2>1. PICK n \in 1 .. BlockSize : d \in [1 .. n -> Bytes]
    BY <1>2 DEF Good, DataVals
  <2>2. d \in Seq(Bytes) /\ Len(d) = n  BY <2>1, FileAssumption
  <2>3. PICK m \in Nat : m = BlockSize - n  BY FileAssumption
  <2>4. /\ read_block(c, b) \in Seq(Bytes \cup {0}) /\ Len(read_block(c, b)) = BlockSize
        /\ \A j \in 1 .. BlockSize : read_block(c, b)[j] = IF j <= n THEN d[j] ELSE 0
    <3>1. read_block(c, b) = d \o Zeros(m)
        BY <1>2, <2>2, <2>3 DEF read_block
    <3>2. n + m = BlockSize  BY <2>3, FileAssumption
    <3>3. /\ d \o Zeros(m) \in Seq(Bytes \cup {0}) /\ Len(d \o Zeros(m)) = n + m
          /\ \A j \in 1 .. n + m : (d \o Zeros(m))[j] = IF j <= n THEN d[j] ELSE 0
        <4> HIDE DEF d
        <4> QED BY <2>2, Padded
    <3> QED BY <3>1, <3>2, <3>3
  <2>5. read_block(c, b) \in Data
    BY <2>4 DEF Data, Bytes
  <2> QED BY <1>2, <2>2, <2>4, <2>5
<1> QED BY <1>1, <1>2

(* Writing the inode changes the size that is stored, and nothing else.    *)
LEMMA WriteInode ==
    ASSUME NEW c, Good(c), NEW s \in Sizes
    PROVE  LET n == Apply(c, <<InodeObj(s)>>)
           IN /\ Good(n) /\ n[InodeId] = s
              /\ \A b \in Blocks : n[data_id_init(b)] = c[data_id_init(b)]
<1> DEFINE objs == <<InodeObj(s)>>
           n == Apply(c, objs)
<1>1. DOMAIN objs = {1} /\ objs[1] = InodeObj(s)  OBVIOUS
<1>2. n[InodeId] = s
    BY <1>1, ApplyLast, AffectsFacts, IdFacts, FileAssumption DEF InodeObj
<1>3. \A b \in Blocks : n[data_id_init(b)] = c[data_id_init(b)]
    BY <1>1, ApplyNone, AffectsFacts, IdFacts, FileAssumption
<1>4. n \in Contents
    BY <1>1, ApplyGood DEF Good, InodeObj
<1> QED BY <1>2, <1>3, <1>4 DEF Good

(* Writing the inode and a block (fsop_write_end) changes the size and     *)
(* that block, and nothing else.                                           *)
LEMMA WriteData ==
    ASSUME NEW c, Good(c), NEW s \in Sizes, NEW b \in Blocks, NEW d \in DataVals
    PROVE  LET n == Apply(c, <<InodeObj(s), DataObj(b, d)>>)
           IN /\ Good(n) /\ n[InodeId] = s /\ n[data_id_init(b)] = d
              /\ \A e \in Blocks \ {b} : n[data_id_init(e)] = c[data_id_init(e)]
<1> DEFINE objs == <<InodeObj(s), DataObj(b, d)>>
           n == Apply(c, objs)
<1>1. DOMAIN objs = {1, 2} /\ objs[1] = InodeObj(s) /\ objs[2] = DataObj(b, d)  OBVIOUS
<1>2. n[InodeId] = s
    BY <1>1, ApplyLast, AffectsFacts, IdFacts, FileAssumption DEF InodeObj
<1>3. n[data_id_init(b)] = d
    BY <1>1, ApplyLast, AffectsFacts, IdFacts, FileAssumption DEF DataObj
<1>4. \A e \in Blocks \ {b} : n[data_id_init(e)] = c[data_id_init(e)]
    BY <1>1, ApplyNone, AffectsFacts, IdFacts, FileAssumption
<1>5. n \in Contents
    BY <1>1, ApplyGood DEF Good, InodeObj, DataObj
<1> QED BY <1>2, <1>3, <1>4, <1>5 DEF Good

(* The start of a block lies in that block.                                *)
LEMMA OffDiv == \A b \in Nat : Off(b) \div BlockSize = b
BY FileAssumption DEF Off

(* AlignUp rounds a size up to whole blocks: to itself if it is a multiple *)
(* of the block size, and to the end of its last block otherwise.          *)
LEMMA AlignFacts ==
    ASSUME NEW n \in Sizes
    PROVE  \E b \in 0 .. NbBlocks :
              /\ b = n \div BlockSize
              /\ Off(b) \in Nat /\ n \in Nat /\ b \in Nat
              /\ n = Off(b) => AlignUp(n) = Off(b) /\ AlignUp(n) \div BlockSize = b
              /\ n # Off(b) => /\ AlignUp(n) = Off(b) + BlockSize
                               /\ AlignUp(n) \div BlockSize = b + 1
                               /\ b \in Blocks /\ Off(b) < n /\ n < Off(b) + BlockSize
<1>1. n \in Nat /\ n <= NbBlocks * BlockSize  BY FileAssumption DEF Sizes
<1>2. PICK b \in Nat, r \in 0 .. BlockSize - 1 : b = n \div BlockSize /\ n = Off(b) + r
    BY <1>1, DivMod
<1>3. b <= NbBlocks /\ Off(b) \in Nat  BY <1>1, <1>2, FileAssumption DEF Off
<1>4. CASE r = 0
  <2>1. n + BlockSize - 1 = Off(b) + (BlockSize - 1)  BY <1>2, <1>3, <1>4, FileAssumption
  <2>2. (n + BlockSize - 1) \div BlockSize = b  BY <2>1, <1>2, DivOff, FileAssumption
  <2>3. AlignUp(n) = Off(b)  BY <2>2 DEF AlignUp, Off
  <2>4. AlignUp(n) \div BlockSize = b  BY <2>3, OffDiv
  <2>5. b \in 0 .. NbBlocks /\ n = Off(b)  BY <1>2, <1>3, <1>4, FileAssumption
  <2> QED BY <1>1, <1>2, <1>3, <2>3, <2>4, <2>5
<1>5. CASE r # 0
  <2>1. n + BlockSize - 1 = Off(b + 1) + (r - 1)  BY <1>2, <1>5, FileAssumption DEF Off
  <2>2. (n + BlockSize - 1) \div BlockSize = b + 1  BY <2>1, <1>2, <1>5, DivOff, FileAssumption
  <2>3. AlignUp(n) = Off(b + 1)  BY <2>2 DEF AlignUp, Off
  <2>4. b # NbBlocks  BY <1>1, <1>2, <1>5, FileAssumption DEF Off
  <2>5. Off(b + 1) = Off(b) + BlockSize  BY FileAssumption DEF Off
  <2>6. n # Off(b) /\ Off(b) < n /\ n < Off(b) + BlockSize  BY <1>2, <1>3, <1>5, FileAssumption
  <2>7. b \in Blocks /\ b \in 0 .. NbBlocks  BY <1>3, <2>4, FileAssumption DEF Blocks
  <2>8. AlignUp(n) \div BlockSize = b + 1  BY <2>3, OffDiv
  <2> QED BY <1>1, <1>2, <1>3, <2>3, <2>5, <2>6, <2>7, <2>8
<1> QED BY <1>2, <1>4, <1>5

(* The first m bytes of a block, for m of at least 1, make a data object.  *)
LEMMA CutData ==
    ASSUME NEW f \in Data, NEW m \in 1 .. BlockSize
    PROVE  LET d == SubSeq(f, 1, m)
           IN /\ d \in DataVals /\ d \in Seq(Bytes) /\ d # Absent /\ Len(d) = m
              /\ \A j \in 1 .. m : d[j] = f[j]
<1>1. f \in Seq(Bytes) /\ Len(f) = BlockSize  BY FileAssumption DEF Data
<1> DEFINE d == SubSeq(f, 1, m)
<1>2. m \in 0 .. Len(f)  BY <1>1, FileAssumption
<1>3. d \in Seq(Bytes) /\ Len(d) = m /\ \A j \in 1 .. m : d[j] = f[j]
    BY <1>1, <1>2, Prefix
<1>4. d \in [1 .. m -> Bytes]
  <2> HIDE DEF d
  <2> QED BY <1>3
<1>5. d \in DataVals /\ d # Absent
  <2> HIDE DEF d
  <2>1. d \in DataVals  BY <1>4 DEF DataVals
  <2>2. m \in 0 .. BlockSize  BY FileAssumption
  <2>3. Absent \notin [1 .. m -> Bytes]  BY <2>2, FileAssumption DEF Bytes
  <2> QED BY <1>4, <2>1, <2>3
<1> QED BY <1>3, <1>5

(* Two lists of one element.                                               *)
LEMMA Pair == ASSUME NEW x, NEW y PROVE <<x>> \o <<y>> = <<x, y>>
<1> DEFINE S == {x, y}
           s == <<x>> \o <<y>>
           t == <<x, y>>
<1>1. <<y>> \in Seq(S) /\ <<x>> \in Seq(S)  OBVIOUS
<1>2. s \in Seq(S) /\ Len(s) = 2 /\ s[1] = x /\ s[2] = y  BY <1>1
<1>3. t \in Seq(S) /\ Len(t) = 2 /\ t[1] = x /\ t[2] = y  OBVIOUS
<1> HIDE DEF s, t
<1>4. \A i \in 1 .. 2 : s[i] = t[i]  BY <1>2, <1>3
<1>5. s = t  BY <1>2, <1>3, <1>4
<1> QED  BY <1>5 DEF s, t

(* A list of two elements and one of one.                                  *)
LEMMA Triple == ASSUME NEW x, NEW y, NEW z PROVE <<x, y>> \o <<z>> = <<x, y, z>>
<1> DEFINE S == {x, y, z}
           s == <<x, y>> \o <<z>>
           t == <<x, y, z>>
<1>1. <<x, y>> \in Seq(S) /\ <<z>> \in Seq(S)  OBVIOUS
<1>2. s \in Seq(S) /\ Len(s) = 3 /\ s[1] = x /\ s[2] = y /\ s[3] = z  BY <1>1
<1>3. t \in Seq(S) /\ Len(t) = 3 /\ t[1] = x /\ t[2] = y /\ t[3] = z  OBVIOUS
<1> HIDE DEF s, t
<1>4. \A i \in 1 .. 3 : s[i] = t[i]  BY <1>2, <1>3
<1>5. s = t  BY <1>2, <1>3, <1>4
<1> QED  BY <1>5 DEF s, t

(* The lists of objects that fsop_truncate can build.                      *)
LEMMA Lists ==
    ASSUME NEW x, NEW y, NEW z
    PROVE  /\ <<>> \o <<>> \o <<x>> = <<x>>
           /\ <<>> \o <<y>> \o <<x>> = <<y, x>>
           /\ <<z>> \o <<>> \o <<x>> = <<z, x>>
           /\ <<z>> \o <<y>> \o <<x>> = <<z, y, x>>
<1> DEFINE S == {x, y, z}
<1>1. <<x>> \in Seq(S) /\ <<y>> \in Seq(S) /\ <<z>> \in Seq(S) /\ <<>> \in Seq(S)  OBVIOUS
<1>2. <<>> \o <<>> = <<>> /\ <<>> \o <<y>> = <<y>> /\ <<z>> \o <<>> = <<z>> /\ <<>> \o <<x>> = <<x>>
    BY <1>1
<1>3. <<z>> \o <<y>> = <<z, y>> /\ <<y>> \o <<x>> = <<y, x>> /\ <<z>> \o <<x>> = <<z, x>>
  BY Pair
<1>4. <<z, y>> \o <<x>> = <<z, y, x>>  BY Triple
<1> QED BY <1>2, <1>3, <1>4

(* What fsop_truncate from the size old to the size new makes of block b:  *)
(* n is the content after it, c the one before.                            *)
CutBlock(n, c, old, new, b) ==
    LET after == n[data_id_init(b)]
    IN \/ /\ new >= old \/ Off(b) + BlockSize <= new \/ Off(b) >= old
          /\ after = c[data_id_init(b)]
       \/ /\ new < old /\ Off(b) < new /\ new < Off(b) + BlockSize
          /\ after # Absent /\ Len(after) = new - Off(b)
          /\ \A j \in 1 .. new - Off(b) : after[j] = read_block(c, b)[j]
       \/ new < old /\ Off(b) >= new /\ after = Absent

(* fsop_truncate's transaction, whichever objects it consists of, makes of *)
(* every block what CutBlock says and stores the new size.                 *)
LEMMA WriteTruncation ==
    ASSUME NEW c, Good(c), NEW old \in Sizes, NEW new \in Sizes
    PROVE  LET n == Apply(c, TruncateObjs(c, old, new))
           IN /\ Good(n) /\ n[InodeId] = new
              /\ \A b \in Blocks : CutBlock(n, c, old, new, b)
<1> DEFINE objs == TruncateObjs(c, old, new)
           n == Apply(c, objs)
           Result(b) == CutBlock(n, c, old, new, b)
<1> SUFFICES Good(n) /\ n[InodeId] = new /\ \A b \in Blocks : Result(b)
    OBVIOUS
<1>1. old \in Nat /\ new \in Nat /\ old <= NbBlocks * BlockSize
      /\ BlockSize \in Nat /\ NbBlocks * BlockSize \in Nat
    BY FileAssumption DEF Sizes
<1>2. PICK nb \in 0 .. NbBlocks :
        /\ nb = new \div BlockSize
        /\ Off(nb) \in Nat /\ nb \in Nat
        /\ new = Off(nb) => AlignUp(new) = Off(nb) /\ AlignUp(new) \div BlockSize = nb
        /\ new # Off(nb) => /\ AlignUp(new) = Off(nb) + BlockSize
                            /\ AlignUp(new) \div BlockSize = nb + 1
                            /\ nb \in Blocks /\ Off(nb) < new /\ new < Off(nb) + BlockSize
    BY AlignFacts
<1>3. AlignUp(new) \in Nat /\ AlignUp(new) >= new /\ \A b \in Blocks : Off(b) \in Nat /\ b \in Nat
    BY <1>1, <1>2, OffFacts DEF Blocks
<1>4. ASSUME NEW b \in Blocks
      PROVE  /\ b < nb => Off(b) + BlockSize <= Off(nb)
             /\ b > nb => Off(b) >= Off(nb) + BlockSize
  <2>1. b \in Nat /\ Off(b) \in Nat  BY <1>3
  <2>2. b < nb => Off(b) + BlockSize <= Off(nb)  BY <1>2, <2>1, OffFacts
  <2>3. b > nb => Off(nb) + BlockSize <= Off(b)  BY <1>2, <2>1, OffFacts
  <2> QED BY <1>1, <1>2, <2>1, <2>2, <2>3
<1>5. CASE new >= old
  <2>1. ~(AlignUp(new) < old) /\ ~(new < old)  BY <1>1, <1>3, <1>5
  <2>2. objs = <<InodeObj(new)>>  BY <2>1, Lists DEF TruncateObjs
  <2> QED BY <2>2, <1>5, WriteInode DEF CutBlock
<1>6. CASE new < old /\ new = Off(nb)
  <2>1. nb \in Blocks  BY <1>1, <1>2, <1>6, FileAssumption DEF Blocks, Off
  <2>2. objs = <<DelObj(data_id_init(nb)), InodeObj(new)>>
      BY <1>2, <1>6, Lists DEF TruncateObjs
  <2>3. DOMAIN objs = {1, 2} /\ objs[1] = DelObj(data_id_init(nb)) /\ objs[2] = InodeObj(new)
      BY <2>2
  <2> HIDE DEF objs
  <2>4. n[InodeId] = new
      BY <2>3, ApplyLast, AffectsFacts, IdFacts, FileAssumption DEF InodeObj
  <2>5. \A b \in Blocks : b >= nb => n[data_id_init(b)] = Absent
      BY <2>1, <2>3, ApplyLast, AffectsFacts, IdFacts, FileAssumption DEF DelObj
  <2>6. \A b \in Blocks : b < nb => n[data_id_init(b)] = c[data_id_init(b)]
    <3> SUFFICES ASSUME NEW b \in Blocks, b < nb
                 PROVE  n[data_id_init(b)] = c[data_id_init(b)]
      OBVIOUS
    <3>1. data_id_init(b) # InodeId /\ ~(nb <= b)
      BY <1>1, <1>2, <1>3, IdFacts
    <3>2. \A k \in DOMAIN objs : ~Affects(objs[k], data_id_init(b))
      BY <2>1, <2>3, <3>1, AffectsFacts, IdFacts
    <3> QED BY <3>2, ApplyNone, FileAssumption
  <2>7. n \in Contents
      BY <2>3, ApplyGood DEF Good, InodeObj, DelObj, DataVals
  <2> HIDE DEF n
  <2>8. \A b \in Blocks : n[data_id_init(b)] \in DataVals
      BY <1>2, <1>3, <2>5, <2>6 DEF Good, DataVals
  <2>9. \A b \in Blocks : Result(b)
    <3> SUFFICES ASSUME NEW b \in Blocks PROVE Result(b)  OBVIOUS
    <3>1. CASE b < nb  BY <3>1, <1>4, <1>6, <2>6 DEF CutBlock
    <3>2. CASE b = nb  BY <3>2, <1>2, <1>3, <1>6, <2>5 DEF CutBlock
    <3>3. CASE b > nb  BY <3>3, <1>1, <1>2, <1>3, <1>4, <1>6, <2>5 DEF CutBlock
    <3> QED BY <3>1, <3>2, <3>3, <1>2, <1>3
  <2> QED BY <2>4, <2>7, <2>8, <2>9 DEF Good
<1>7. CASE new < old /\ new # Off(nb)
  <2> DEFINE d == SubSeq(read_block(c, nb), 1, new - Off(nb))
  <2>1. nb \in Blocks /\ Off(nb) < new /\ new < Off(nb) + BlockSize
      BY <1>2, <1>7
  <2>2. new - Off(nb) \in 1 .. BlockSize  BY <1>1, <1>2, <2>1
  <2>3. d \in DataVals /\ d # Absent /\ Len(d) = new - Off(nb)
        /\ \A j \in 1 .. new - Off(nb) : d[j] = read_block(c, nb)[j]
    BY <2>1, <2>2, ReadBlock, CutData
  <2>4. d = SubSeq(read_block(c, nb), 1, new - nb * BlockSize)  BY DEF Off
  <2>5. new # AlignUp(new)  BY <1>1, <1>2, <1>7
  <2> HIDE DEF d
  <2>6. ASSUME NEW b \in Blocks, b < nb, n[data_id_init(b)] = c[data_id_init(b)] PROVE Result(b)
    <3>1. Off(b) + BlockSize <= new  BY <2>6, <1>1, <1>2, <1>3, <1>4, <2>1
    <3> QED BY <3>1, <2>6 DEF CutBlock
  <2>7. ASSUME NEW b \in Blocks, b = nb, n[data_id_init(b)] = d PROVE Result(b)
    BY <2>7, <1>7, <2>1, <2>3 DEF CutBlock
  <2>8. CASE AlignUp(new) >= old
    <3>1. objs = <<DataObj(nb, d), InodeObj(new)>>
      <4>1. ~(AlignUp(new) < old)  BY <1>1, <1>3, <2>8
      <4> QED BY <1>2, <1>7, <2>4, <2>5, <4>1, Lists DEF TruncateObjs
    <3>2. DOMAIN objs = {1, 2} /\ objs[1] = DataObj(nb, d) /\ objs[2] = InodeObj(new)
        BY <3>1
    <3> HIDE DEF objs
    <3>3. n[InodeId] = new
        BY <3>2, <2>1, ApplyLast, AffectsFacts, IdFacts, FileAssumption DEF InodeObj
    <3>4. n[data_id_init(nb)] = d
        BY <3>2, <2>1, ApplyLast, AffectsFacts, IdFacts, FileAssumption DEF DataObj
    <3>5. ASSUME NEW b \in Blocks \ {nb} PROVE n[data_id_init(b)] = c[data_id_init(b)]
      <4>1. \A k \in DOMAIN objs : ~Affects(objs[k], data_id_init(b))
          BY <3>2, <2>1, AffectsFacts, IdFacts
      <4> QED BY <4>1, ApplyNone, FileAssumption
    <3>6. n \in Contents
        BY <3>2, <2>3, ApplyGood DEF Good, InodeObj, DataObj
    <3> HIDE DEF n
    <3>7. \A b \in Blocks : n[data_id_init(b)] \in DataVals
        BY <2>3, <3>4, <3>5 DEF Good
    <3>8. \A b \in Blocks : Result(b)
      <4> SUFFICES ASSUME NEW b \in Blocks PROVE Result(b)  OBVIOUS
      <4> HIDE DEF Result
      <4>1. CASE b < nb  BY <4>1, <2>6, <3>5
      <4>2. CASE b = nb  BY <4>2, <2>7, <3>4
      <4>3. CASE b > nb
        <5>1. Off(b) >= old  BY <4>3, <1>1, <1>2, <1>3, <1>4, <1>7, <2>8
        <5> QED BY <4>3, <5>1, <3>5 DEF Result, CutBlock
      <4> QED BY <4>1, <4>2, <4>3, <1>2, <1>3
    <3> QED BY <3>3, <3>6, <3>7, <3>8 DEF Good
  <2>9. CASE AlignUp(new) < old
    <3>0. nb + 1 \in Blocks
      <4>1. Off(nb) + BlockSize < NbBlocks * BlockSize  BY <1>1, <1>2, <1>7, <2>9
      <4>2. (nb + 1) * BlockSize < NbBlocks * BlockSize  BY <4>1, <1>1, <1>2 DEF Off
      <4> QED BY <4>2, <1>2, FileAssumption DEF Blocks
    <3>1. objs = <<DataObj(nb, d), DelObj(data_id_init(nb + 1)), InodeObj(new)>>
      <4>1. AlignUp(new) \div BlockSize = nb + 1  BY <1>2, <1>7
      <4> QED BY <1>2, <1>7, <2>4, <2>5, <2>9, <4>1, Lists DEF TruncateObjs
    <3>2. DOMAIN objs = {1, 2, 3} /\ objs[1] = DataObj(nb, d)
          /\ objs[2] = DelObj(data_id_init(nb + 1)) /\ objs[3] = InodeObj(new)
        BY <3>1
    <3> HIDE DEF objs
    <3>3. n[InodeId] = new
        BY <3>2, <3>0, <2>1, ApplyLast, AffectsFacts, IdFacts, FileAssumption DEF InodeObj
    <3>4. n[data_id_init(nb)] = d
      <4>1. ~Affects(objs[2], data_id_init(nb)) /\ ~Affects(objs[3], data_id_init(nb))
          BY <3>2, <3>0, <2>1, AffectsFacts, IdFacts, <1>2
      <4>2. Affects(objs[1], data_id_init(nb)) /\ data_id_init(nb) \in Ids
          BY <3>2, <2>1, AffectsFacts, IdFacts, FileAssumption
      <4> QED BY <3>2, <4>1, <4>2, ApplyLast DEF DataObj
    <3>5. ASSUME NEW b \in Blocks, b > nb PROVE n[data_id_init(b)] = Absent
      <4>1. ~Affects(objs[1], data_id_init(b)) /\ ~Affects(objs[3], data_id_init(b))
          BY <3>5, <3>2, <2>1, AffectsFacts, IdFacts, <1>3
      <4>2. Affects(objs[2], data_id_init(b)) /\ data_id_init(b) \in Ids
          BY <3>5, <3>2, <3>0, AffectsFacts, IdFacts, FileAssumption, <1>2, <1>3, SMTT(30)
      <4> QED BY <3>2, <4>1, <4>2, ApplyLast DEF DelObj
    <3>6. ASSUME NEW b \in Blocks, b < nb PROVE n[data_id_init(b)] = c[data_id_init(b)]
      <4>1. \A k \in DOMAIN objs : ~Affects(objs[k], data_id_init(b))
          BY <3>6, <3>2, <3>0, <2>1, AffectsFacts, IdFacts, <1>2, <1>3
      <4> QED BY <4>1, ApplyNone, FileAssumption
    <3>7. n \in Contents
        BY <3>2, <2>3, ApplyGood DEF Good, InodeObj, DataObj, DelObj, DataVals
    <3> HIDE DEF n
    <3>8. \A b \in Blocks : n[data_id_init(b)] \in DataVals
        BY <1>2, <1>3, <2>3, <3>4, <3>5, <3>6 DEF Good, DataVals
    <3>9. \A b \in Blocks : Result(b)
      <4> SUFFICES ASSUME NEW b \in Blocks PROVE Result(b)  OBVIOUS
      <4> HIDE DEF Result
      <4>1. CASE b < nb  BY <4>1, <2>6, <3>6
      <4>2. CASE b = nb  BY <4>2, <2>7, <3>4
      <4>3. CASE b > nb
        <5>1. Off(b) >= new  BY <4>3, <1>1, <1>2, <1>3, <1>4, <2>1
        <5> QED BY <4>3, <5>1, <3>5, <1>7 DEF Result, CutBlock
      <4> QED BY <4>1, <4>2, <4>3, <1>2, <1>3
    <3> QED BY <3>3, <3>7, <3>8, <3>9 DEF Good
  <2> QED BY <2>8, <2>9, <1>1, <1>3
<1> QED BY <1>1, <1>2, <1>5, <1>6, <1>7

(* The type invariant, which every step keeps.                             *)
TypeInv == StoreInv /\ MemInv /\ CallsInv

(* The bytes after a write: those written, the old ones around them, and   *)
(* zeros between the old end and the start of the write.                   *)
LEMMA Overwrite ==
    ASSUME NEW f \in Seq(Bytes), NEW pos \in Nat, NEW len \in Nat
    PROVE  LET g == Overwritten(f, pos, len)
               n == IF pos + len > Len(f) THEN pos + len ELSE Len(f)
           IN /\ g \in Seq(Bytes) /\ Len(g) = n
              /\ \A k \in 1 .. n :
                    g[k] = IF k > pos /\ k <= pos + len THEN 1
                           ELSE IF k <= Len(f) THEN f[k] ELSE 0
<1> DEFINE n == IF pos + len > Len(f) THEN pos + len ELSE Len(f)
           g == Overwritten(f, pos, len)
<1>1. n \in Nat  OBVIOUS
<1>2. DOMAIN Resized(f, n) = 1 .. n  BY DEF Resized
<1>3. g = [k \in 1 .. n |-> IF k > pos /\ k <= pos + len THEN 1 ELSE Resized(f, n)[k]]
    BY <1>2 DEF Overwritten
<1>4. \A k \in 1 .. n : g[k] = IF k > pos /\ k <= pos + len THEN 1
                               ELSE IF k <= Len(f) THEN f[k] ELSE 0
    BY <1>3 DEF Resized
<1>5. \A k \in 1 .. n : g[k] \in Bytes  BY <1>1, <1>4 DEF Bytes
<1>6. g \in [1 .. n -> Bytes]  BY <1>3, <1>5
<1>7. g \in Seq(Bytes) /\ Len(g) = n
  <2> HIDE DEF g, n
  <2> QED BY <1>1, <1>6
<1> QED BY <1>4, <1>7

(* The bytes after a change of the size: the old ones, then zeros.         *)
LEMMA Resize ==
    ASSUME NEW f \in Seq(Bytes), NEW n \in Nat
    PROVE  /\ Resized(f, n) \in Seq(Bytes) /\ Len(Resized(f, n)) = n
           /\ \A k \in 1 .. n : Resized(f, n)[k] = IF k <= Len(f) THEN f[k] ELSE 0
<1>1. \A k \in 1 .. n : Resized(f, n)[k] = IF k <= Len(f) THEN f[k] ELSE 0
    BY DEF Resized
<1>2. \A k \in 1 .. n : Resized(f, n)[k] \in Bytes
    BY <1>1 DEF Bytes
<1>3. Resized(f, n) \in [1 .. n -> Bytes]
    BY <1>2 DEF Resized
<1> QED BY <1>1, <1>3

(* The file exists in the current content of the store.                    *)
LEMMA CurrentGood == StoreInv => Good(Content)
BY DEF StoreInv, Content

(* The log after a transaction.                                            *)
LEMMA Appended ==
    ASSUME StoreInv, NEW c, Good(c), log' = Append(log, c)
    PROVE  /\ StoreInv' /\ Content' = c
           /\ \A n \in DOMAIN log' : log'[n] = c \/ (n \in DOMAIN log /\ log'[n] = log[n])
<1>1. log \in Seq(Contents) /\ c \in Contents  BY DEF StoreInv, Good
<1>2. log' \in Seq(Contents) /\ Len(log') = Len(log) + 1 /\ log'[Len(log) + 1] = c
      /\ \A n \in 1 .. Len(log) : log'[n] = log[n]
    BY <1>1
<1>3. \A n \in DOMAIN log' : log'[n] = c \/ (n \in DOMAIN log /\ log'[n] = log[n])
    BY <1>1, <1>2
<1>4. Content' = c  BY <1>2 DEF Content
<1>5. \A n \in DOMAIN log' : Good(log'[n])  BY <1>3 DEF StoreInv
<1>6. log' # <<>>  BY <1>1, <1>2
<1>7. StoreInv'  BY <1>2, <1>5, <1>6 DEF StoreInv, Good
<1> QED BY <1>3, <1>4, <1>7

(* The log after ostore_sync, or after a power failure.                    *)
LEMMA Replaced ==
    ASSUME NEW c, Good(c), log' = <<c>>
    PROVE  /\ StoreInv' /\ Content' = c
           /\ \A n \in DOMAIN log' : log'[n] = c
<1>1. c \in Contents  BY DEF Good
<1>2. log' \in Seq(Contents) /\ Len(log') = 1 /\ log'[1] = c /\ DOMAIN log' = {1} /\ log' # <<>>
    BY <1>1
<1>3. Content' = c  BY <1>2 DEF Content
<1>4. StoreInv'  BY <1>2 DEF StoreInv, Good
<1> QED BY <1>2, <1>3, <1>4

(* A file that was just created satisfies the type invariant.              *)
LEMMA InitType == Init => TypeInv
<1> SUFFICES ASSUME Init PROVE TypeInv  OBVIOUS
<1> DEFINE c == [Empty EXCEPT ![InodeId] = 0]
<1>0. 0 \in Sizes  BY FileAssumption DEF Sizes
<1>1. c[InodeId] = 0 /\ \A b \in Blocks : c[data_id_init(b)] = Absent
    BY IdFacts, FileAssumption DEF Empty
<1>2. Good(c)  BY <1>0, <1>1, FileAssumption DEF Good, Contents, DataVals, Empty
<1>3. StoreInv
  <2>1. c \in Contents BY <1>2 DEF Good
  <2> HIDE DEF c
  <2>2. log = <<c>> BY DEF Init, c
  <2>3. log \in Seq(Contents) /\ DOMAIN log = {1} /\ log[1] = c /\ log # <<>> BY <2>1, <2>2
  <2> QED BY <1>2, <2>3 DEF StoreInv
<1>4. NoPage \in Pages  BY FileAssumption DEF NoPage, Pages, Zeros, Data, Bytes
<1>5. MemInv
    BY <1>0, <1>4, BoundsAssumption DEF Init, MemInv, Labels
<1>6. CallsInv
    BY DEF Init, CallsInv, CallInv
<1> QED BY <1>3, <1>5, <1>6 DEF TypeInv

(* What fsop_write_end stores: the start of the page as the block, the     *)
(* size, raised to the end of the block if it was below, and nothing else. *)
LEMMA PageWritten ==
    ASSUME TypeInv, NEW t \in All, pc[t] = "write_page",
           fsop_write_end(loc[t].blk, loc[t].len)
    PROVE  LET b == loc[t].blk
               end == Off(b) + loc[t].len
           IN \E c :
                /\ Good(c) /\ log' = Append(log, c)
                /\ c[InodeId] = i_size' /\ i_size' = IF end > i_size THEN end ELSE i_size
                /\ c[data_id_init(b)] # Absent /\ Len(c[data_id_init(b)]) = loc[t].len
                /\ \A j \in 1 .. loc[t].len : c[data_id_init(b)][j] = page[b].data[j]
                /\ \A e \in Blocks \ {b} : c[data_id_init(e)] = Content[data_id_init(e)]
<1> DEFINE b == loc[t].blk
           len == loc[t].len
           end == Off(b) + len
           size == IF end > i_size THEN end ELSE i_size
           d == SubSeq(page[b].data, 1, len)
           c == Apply(Content, <<InodeObj(size), DataObj(b, d)>>)
<1>1. b \in Blocks /\ len \in 1 .. BlockSize  BY DEF TypeInv, CallsInv, CallInv, PageLocs
<1>2. page[b].data \in Data  BY <1>1 DEF TypeInv, MemInv, Pages
<1>3. d \in DataVals /\ d # Absent /\ Len(d) = len /\ \A j \in 1 .. len : d[j] = page[b].data[j]
    BY <1>1, <1>2, CutData
<1>4. Good(Content)  BY CurrentGood DEF TypeInv
<1>5. end \in Nat /\ end <= NbBlocks * BlockSize /\ i_size \in Sizes
  <2>1. Off(b) \in Nat /\ Off(b) + BlockSize <= NbBlocks * BlockSize  BY <1>1, OffFacts
  <2>2. i_size \in Sizes  BY DEF TypeInv, MemInv
  <2> HIDE DEF b, len
  <2>3. end \in Nat /\ end <= NbBlocks * BlockSize  BY <1>1, <2>1, FileAssumption
  <2> QED BY <2>2, <2>3
<1>6. size \in Sizes  BY <1>5, FileAssumption DEF Sizes
<1>7. log' = Append(log, c) /\ i_size' = size
    BY DEF fsop_write_end, Written, WriteObjs, Off
<1> HIDE DEF d, size
<1>8. /\ Good(c) /\ c[InodeId] = size /\ c[data_id_init(b)] = d
      /\ \A e \in Blocks \ {b} : c[data_id_init(e)] = Content[data_id_init(e)]
    BY <1>1, <1>3, <1>4, <1>6, WriteData
<1> HIDE DEF c, b, len, end
<1>9. /\ Good(c) /\ log' = Append(log, c)
      /\ c[InodeId] = i_size' /\ i_size' = size
      /\ c[data_id_init(b)] # Absent /\ Len(c[data_id_init(b)]) = len
      /\ \A j \in 1 .. len : c[data_id_init(b)][j] = page[b].data[j]
      /\ \A e \in Blocks \ {b} : c[data_id_init(e)] = Content[data_id_init(e)]
    BY <1>3, <1>7, <1>8
<1> QED BY <1>9 DEF b, len, end, size

(* What fsop_truncate stores.                                              *)
LEMMA Truncated ==
    ASSUME TypeInv, NEW new \in Sizes, Written(TruncateObjs(Content, i_size, new))
    PROVE  \E c : /\ Good(c) /\ log' = Append(log, c) /\ c[InodeId] = new
                  /\ \A b \in Blocks : CutBlock(c, Content, i_size, new, b)
<1> DEFINE c == Apply(Content, TruncateObjs(Content, i_size, new))
<1>1. Good(Content) /\ i_size \in Sizes  BY CurrentGood DEF TypeInv, MemInv
<1>2. log' = Append(log, c)  BY DEF Written, WriteObjs
<1>3. /\ Good(c) /\ c[InodeId] = new
      /\ \A b \in Blocks : CutBlock(c, Content, i_size, new, b)
    BY <1>1, WriteTruncation
<1> QED BY <1>2, <1>3

(* What pages are filled with: fsop_readpage and the cutting of a page     *)
(* give whole blocks.                                                      *)
LEMMA PageTypes ==
    /\ NoPage \in Pages
    /\ \A c : Good(c) => \A b \in Blocks, s \in Sizes : fsop_readpage(c, s, b) \subseteq Data
    /\ \A f \in Data, m \in 1 .. BlockSize :
          LET g == SubSeq(f, 1, m) \o Zeros(BlockSize - m)
          IN g \in Data /\ \A j \in 1 .. BlockSize : g[j] = IF j <= m THEN f[j] ELSE 0
<1>1. NoPage \in Pages /\ Zeros(BlockSize) \in Data
    BY FileAssumption DEF NoPage, Pages, Zeros, Data, Bytes
<1>2. [1 .. BlockSize -> FreshBytes] \subseteq Data  BY DEF Data, Bytes
<1>3. \A c : Good(c) => \A b \in Blocks, s \in Sizes : fsop_readpage(c, s, b) \subseteq Data
    BY <1>1, <1>2, ReadBlock DEF fsop_readpage
<1>4. ASSUME NEW f \in Data, NEW m \in 1 .. BlockSize
      PROVE  LET g == SubSeq(f, 1, m) \o Zeros(BlockSize - m)
             IN g \in Data /\ \A j \in 1 .. BlockSize : g[j] = IF j <= m THEN f[j] ELSE 0
  <2>1. PICK k \in Nat : k = BlockSize - m  BY FileAssumption
  <2>2. m + k = BlockSize  BY <2>1, FileAssumption
  <2> DEFINE h == SubSeq(f, 1, m)
             g == h \o Zeros(k)
  <2>3. h \in Seq(Bytes) /\ Len(h) = m /\ \A j \in 1 .. m : h[j] = f[j]  BY CutData
  <2> HIDE DEF h
  <2>4. g \in Seq(Bytes \cup {0}) /\ Len(g) = m + k
        /\ \A j \in 1 .. m + k : g[j] = IF j <= m THEN h[j] ELSE 0
    BY <2>3, Padded
  <2> HIDE DEF g
  <2>5. g \in Data  BY <2>2, <2>4 DEF Data, Bytes
  <2>6. \A j \in 1 .. BlockSize : g[j] = IF j <= m THEN f[j] ELSE 0
    BY <2>2, <2>3, <2>4, FileAssumption
  <2> QED BY <2>1, <2>5, <2>6 DEF g, h
<1> QED BY <1>1, <1>3, <1>4

(* The length that bilbyfs_writepage computes for a page that starts       *)
(* before the end of the file is what the file has of it, and is not 0.    *)
LEMMA WriteLen ==
    ASSUME NEW s \in Sizes, NEW b \in Blocks, ~(b * BlockSize >= s)
    PROVE  LET len == IF b < s \div BlockSize THEN BlockSize ELSE s % BlockSize
           IN /\ len \in 1 .. BlockSize /\ Off(b) + len <= s
              /\ \A j \in 1 .. BlockSize : Off(b) + j <= s <=> j <= len
<1>1. s \in Nat /\ b \in Nat /\ Off(b) \in Nat /\ Off(b) < s /\ BlockSize \in Nat
    BY OffFacts, FileAssumption DEF Sizes, Blocks, Off
<1>2. PICK q \in Nat, r \in 0 .. BlockSize - 1 :
        q = s \div BlockSize /\ r = s % BlockSize /\ s = Off(q) + r
    BY <1>1, DivMod
<1>3. Off(q) \in Nat  BY FileAssumption DEF Off
<1>4. CASE b < q
  <2>1. Off(b) + BlockSize <= Off(q)  BY <1>1, <1>4, OffFacts
  <2>2. Off(b) + BlockSize <= s  BY <2>1, <1>1, <1>2, <1>3
  <2> QED BY <1>1, <1>2, <1>4, <2>2, FileAssumption, SMTT(30)
<1>5. CASE b = q
  <2>1. s = Off(b) + r  BY <1>2, <1>5
  <2>2. r # 0  BY <1>1, <2>1
  <2>3. r \in 1 .. BlockSize  BY <1>1, <1>2, <2>2, FileAssumption
  <2>4. \A j \in 1 .. BlockSize : Off(b) + j <= s <=> j <= r  BY <1>1, <2>1, <2>3
  <2>5. ~(b < s \div BlockSize) /\ s % BlockSize = r
    <3>1. ~(b < b)  BY <1>1
    <3> QED BY <3>1, <1>2, <1>5
  <2>6. Off(b) + r <= s  BY <1>1, <2>1, <2>3
  <2> QED BY <2>3, <2>4, <2>5, <2>6
<1>6. CASE b > q
  <2>1. Off(q) + BlockSize <= Off(b)  BY <1>1, <1>6, OffFacts
  <2> QED BY <1>1, <1>2, <1>3, <2>1
<1> QED BY <1>1, <1>4, <1>5, <1>6

(* Every byte of the file lies in one of its blocks.                       *)
LEMMA Position ==
    ASSUME NEW n \in Sizes, NEW k \in 1 .. n
    PROVE  \E b \in Blocks, j \in 1 .. BlockSize :
                /\ k = Off(b) + j /\ b = (k - 1) \div BlockSize /\ j = ((k - 1) % BlockSize) + 1
<1>0. n \in Nat /\ n <= NbBlocks * BlockSize  BY FileAssumption DEF Sizes
<1>1. PICK h \in Nat : h = k - 1 /\ h < NbBlocks * BlockSize  BY <1>0, FileAssumption
<1>2. PICK b \in Nat, r \in 0 .. BlockSize - 1 :
        b = h \div BlockSize /\ r = h % BlockSize /\ h = Off(b) + r
    BY <1>1, DivMod
<1>3. Off(b) \in Nat /\ Off(b) < NbBlocks * BlockSize  BY <1>1, <1>2, FileAssumption DEF Off
<1>4. b \in Blocks  BY <1>3, FileAssumption DEF Off, Blocks
<1>5. PICK j \in 1 .. BlockSize : j = r + 1  BY FileAssumption
<1>6. k = Off(b) + j  BY <1>0, <1>1, <1>2, <1>3, <1>5, FileAssumption
<1> QED BY <1>1, <1>2, <1>4, <1>5, <1>6

(* The file as a content has it, block by block.                           *)
LEMMA StoredFacts ==
    ASSUME NEW c, Good(c)
    PROVE  /\ Stored(c) \in Seq(Bytes) /\ Len(Stored(c)) = c[InodeId]
           /\ \A b \in Blocks, j \in 1 .. BlockSize :
                Off(b) + j <= c[InodeId] => Stored(c)[Off(b) + j] = read_block(c, b)[j]
<1>1. c[InodeId] \in Nat /\ c[InodeId] <= NbBlocks * BlockSize  BY FileAssumption DEF Good, Sizes
<1>3. ASSUME NEW b \in Blocks, NEW j \in 1 .. BlockSize, NEW k \in Nat, k = Off(b) + j
      PROVE  (k - 1) \div BlockSize = b /\ ((k - 1) % BlockSize) + 1 = j
  <2>1. PICK i \in 0 .. BlockSize - 1 : i = j - 1  BY FileAssumption
  <2>2. b \in Nat /\ Off(b) \in Nat  BY OffFacts DEF Blocks
  <2>3. (Off(b) + i) \div BlockSize = b /\ (Off(b) + i) % BlockSize = i  BY <2>2, DivOff
  <2>4. k - 1 = Off(b) + i  BY <1>3, <2>1, <2>2, FileAssumption
  <2> QED BY <2>1, <2>3, <2>4, FileAssumption
<1>4. \A k \in 1 .. c[InodeId] :
        Stored(c)[k] = read_block(c, (k - 1) \div BlockSize)[((k - 1) % BlockSize) + 1]
  BY DEF Stored
<1>5. ASSUME NEW k \in 1 .. c[InodeId] PROVE Stored(c)[k] \in Bytes
  <2>1. PICK b \in Blocks, j \in 1 .. BlockSize :
            b = (k - 1) \div BlockSize /\ j = ((k - 1) % BlockSize) + 1
    BY Position DEF Good
  <2>2. Stored(c)[k] = read_block(c, b)[j]  BY <1>4, <2>1
  <2>3. read_block(c, b) \in Data  BY ReadBlock
  <2> QED BY <2>2, <2>3 DEF Data
<1>6. Stored(c) \in [1 .. c[InodeId] -> Bytes]  BY <1>5 DEF Stored
<1>7. ASSUME NEW b \in Blocks, NEW j \in 1 .. BlockSize, Off(b) + j <= c[InodeId]
      PROVE  Stored(c)[Off(b) + j] = read_block(c, b)[j]
  <2>1. Off(b) + j \in 1 .. c[InodeId]  BY <1>1, <1>7, OffFacts, FileAssumption
  <2>2. PICK k \in 1 .. c[InodeId] : k = Off(b) + j  BY <2>1
  <2>3. (k - 1) \div BlockSize = b /\ ((k - 1) % BlockSize) + 1 = j
    <3>1. k \in Nat  BY <1>1
    <3> QED BY <3>1, <2>2, <1>3
  <2>4. Stored(c)[k] = read_block(c, b)[j]  BY <2>3, <1>4
  <2> QED BY <2>2, <2>4
<1> QED BY <1>1, <1>6, <1>7

(* A refused call of the store leaves what is stored and known of it, and  *)
(* names what may be lost.                                                 *)
LEMMA RefusedFacts ==
    ASSUME NEW w, Refused(w), fails \in Nat, lost \subseteq Kinds
    PROVE  /\ UNCHANGED store_vars /\ fails' \in Nat /\ fails' # fails
           /\ lost \subseteq lost' /\ lost' \subseteq Kinds \cup w
<1>1. PICK s \in {{}, {"store"}} : lost' = lost \cup w \cup s  BY DEF Refused
<1>2. s \subseteq Kinds  BY DEF Kinds
<1> QED BY <1>1, <1>2 DEF Refused, Fails

(* Every step keeps the type invariant: the locks are held by the threads  *)
(* whose place in the code says so, and each thread's locals fit its       *)
(* place.                                                                  *)
LEMMA TypeStep == TypeInv /\ [Next]_vars => TypeInv'
<1> SUFFICES ASSUME TypeInv, [Next]_vars PROVE TypeInv'
    OBVIOUS
<1> USE DEF TypeInv
<1>0. StoreInv /\ MemInv /\ CallsInv /\ Good(Content)
    BY CurrentGood
<1>k. ASSUME UNCHANGED log PROVE StoreInv'
    BY <1>k, <1>0 DEF StoreInv, Good
<1>s. ASSUME NEW p \in Sizes
      PROVE  /\ p \in Nat /\ p \div BlockSize \in Nat /\ p % BlockSize \in 0 .. BlockSize - 1
             /\ \A l \in 1 .. BlockSize : p + l \in Sizes => p \div BlockSize \in Blocks
  <2>1. p \in Nat /\ NbBlocks * BlockSize \in Nat  BY FileAssumption DEF Sizes
  <2>2. PICK b \in Nat, r \in 0 .. BlockSize - 1 :
            b = p \div BlockSize /\ r = p % BlockSize /\ p = Off(b) + r
    BY <2>1, DivMod
  <2>3. ASSUME NEW l \in 1 .. BlockSize, p + l \in Sizes PROVE b \in Blocks
    <3>1. Off(b) < NbBlocks * BlockSize  BY <2>1, <2>2, <2>3, FileAssumption DEF Sizes, Off
    <3> QED BY <3>1, FileAssumption DEF Off, Blocks
  <2> QED BY <2>1, <2>2, <2>3
<1>1. ASSUME NEW t \in Threads, NEW pos \in Sizes, NEW len \in 1 .. BlockSize,
             (pos % BlockSize) + len <= BlockSize, pos + len \in Sizes, WriteCall(t, pos, len)
      PROVE  TypeInv'
  <2>1. MemInv'
    BY <1>1, <1>0 DEF MemInv, WriteCall, Enter, Goto, Labels, file_vars, All
  <2>2. CallsInv'
    BY <1>1, <1>0, ThreadAssumption
       DEF MemInv, CallsInv, CallInv, WriteCall, Enter, Goto, WriteLocs, All
  <2> QED BY <1>1, <1>k, <2>1, <2>2 DEF WriteCall, Enter, store_vars
<1>2. ASSUME NEW t \in All, bilbyfs_write_begin(t) PROVE TypeInv'
  <2> DEFINE b == loc[t].pos \div BlockSize
  <2>1. b \in Blocks /\ i_lock = t /\ loc[t] \in WriteLocs /\ t # None /\ page[b] \in Pages
    BY <1>2, <1>0, <1>s, ThreadAssumption, ZenonT(60)
       DEF CallsInv, CallInv, bilbyfs_write_begin, WriteLocs, MemInv
  <2>2. /\ page' \in [Blocks -> Pages]
        /\ pc'[t] = "write_end" => page'[b].lock = t /\ page'[b].up /\ i_lock' = t
    <3>1. CASE page[b].up /\ page' = [page EXCEPT ![b].lock = t] /\ UNCHANGED i_lock
      BY <3>1, <1>0, <2>1 DEF MemInv, Pages
    <3>2. ASSUME NEW d \in fsop_readpage(Content, i_size, b), UNCHANGED i_lock,
                 page' = [page EXCEPT ![b] = [NoPage EXCEPT !.up = TRUE, !.lock = t, !.data = d]]
          PROVE  page' \in [Blocks -> Pages] /\ page'[b].lock = t /\ page'[b].up /\ i_lock' = t
      <4>1. d \in Data  BY <3>2, <1>0, <2>1, PageTypes DEF MemInv
      <4>2. [NoPage EXCEPT !.up = TRUE, !.lock = t, !.data = d] \in Pages
        BY <4>1, PageTypes DEF Pages
      <4> QED BY <3>2, <4>2, <2>1, <1>0 DEF MemInv, NoPage
    <3>3. CASE UNCHANGED page /\ pc' = [pc EXCEPT ![t] = "idle"]
      BY <3>3, <1>0 DEF MemInv
    <3> QED BY <1>2, <3>1, <3>2, <3>3 DEF bilbyfs_write_begin, Goto
  <2>3. MemInv'
    <3>1. pc' \in {[pc EXCEPT ![t] = "write_end"], [pc EXCEPT ![t] = "idle"]}
          /\ i_lock' \in {i_lock, None} /\ (UNCHANGED fails \/ Fails)
      BY <1>2 DEF bilbyfs_write_begin, Goto
    <3>3. pc' \in [All -> Labels] /\ fails' \in Nat
      BY <1>0, <3>1 DEF MemInv, Labels, Fails
    <3>2. UNCHANGED <<i_size, loc, bytes, mods, lost, crashes>>
      BY <1>2 DEF bilbyfs_write_begin, file_vars
    <3> QED BY <2>2, <3>1, <3>2, <3>3, <1>0 DEF MemInv
  <2>4. CallsInv'
    <3> SUFFICES ASSUME NEW u \in All PROVE CallInv(u)'  BY DEF CallsInv
    <3>1. loc' = loc /\ \A e \in Blocks : page[e].lock # None => page'[e] = page[e]
      BY <1>2, <1>0, <2>1 DEF bilbyfs_write_begin, MemInv
    <3>2. CASE u = t
      <4>1. pc'[t] \in {"write_end", "idle"}
        BY <1>2, <1>0 DEF bilbyfs_write_begin, Goto, MemInv
      <4> QED BY <3>1, <3>2, <4>1, <2>1, <2>2 DEF CallInv
    <3>3. CASE u # t
      <4>1. pc'[u] = pc[u] /\ CallInv(u)
        BY <1>2, <1>0, <3>3 DEF bilbyfs_write_begin, Goto, MemInv, CallsInv
      <4>2. pc[u] = "write_page" => loc[u].blk \in Blocks /\ u # None
        BY <1>0, <4>1, ThreadAssumption DEF CallInv, PageLocs
      <4> QED BY <3>1, <4>1, <4>2, <2>1, <3>3 DEF CallInv
    <3> QED BY <3>2, <3>3
  <2> QED BY <1>2, <1>k, <2>3, <2>4 DEF bilbyfs_write_begin, store_vars
<1>3. ASSUME NEW t \in All, bilbyfs_write_end_writeback(t) PROVE TypeInv'
  <2> DEFINE b == loc[t].pos \div BlockSize
             pos == loc[t].pos
             len == loc[t].len
  <2>1. /\ b \in Blocks /\ i_lock = t /\ t # None /\ page[b] \in Pages /\ page[b].lock = t
        /\ pos \in Sizes /\ len \in 1 .. BlockSize /\ (pos % BlockSize) + len <= BlockSize
        /\ pos + len \in Sizes
    BY <1>3, <1>0, <1>s, ThreadAssumption
       DEF CallsInv, CallInv, bilbyfs_write_end_writeback, WriteLocs, MemInv
  <2>2. Overwritten(page[b].data, pos % BlockSize, len) \in Data
    <3>1. page[b].data \in Seq(Bytes) /\ Len(page[b].data) = BlockSize
      BY <2>1, FileAssumption DEF Pages, Data
    <3>2. pos % BlockSize \in Nat /\ len \in Nat  BY <2>1, <1>s, FileAssumption, SMTT(30)
    <3>3. ~((pos % BlockSize) + len > BlockSize)  BY <2>1, <3>2, FileAssumption
    <3> DEFINE f == page[b].data
               q == pos % BlockSize
               g == Overwritten(f, q, len)
    <3>4. g \in Seq(Bytes) /\ Len(g) = BlockSize
      <4> HIDE DEF f, q, len
      <4>1. f \in Seq(Bytes) /\ q \in Nat /\ len \in Nat /\ ~(q + len > Len(f)) /\ Len(f) = BlockSize
        BY <3>1, <3>2, <3>3 DEF f, q
      <4> QED BY <4>1, Overwrite
    <3> HIDE DEF g
    <3>5. g \in Data  BY <3>4 DEF Data
    <3> QED BY <3>5 DEF g
  <2>3. bytes' \in Seq(Bytes) /\ mods' \in Nat
    <3>1. bytes' = Overwritten(bytes, pos, len) /\ mods' = mods + 1
      BY <1>3 DEF bilbyfs_write_end_writeback
    <3>2. bytes \in Seq(Bytes) /\ mods \in Nat  BY <1>0 DEF MemInv
    <3> HIDE DEF pos, len
    <3>3. pos \in Nat /\ len \in Nat  BY <2>1, <1>s, FileAssumption
    <3> QED BY <3>1, <3>2, <3>3, Overwrite
  <2>4. page' \in [Blocks -> Pages] /\ \A e \in Blocks \ {b} : page'[e] = page[e]
    <3> DEFINE o == Overwritten(page[b].data, pos % BlockSize, len)
    <3>1. page' = [page EXCEPT ![b].data = o, ![b].dirty = TRUE, ![b].lock = None]
      BY <1>3 DEF bilbyfs_write_end_writeback
    <3>2. page \in [Blocks -> Pages]  BY <1>0 DEF MemInv
    <3>3. o \in Data  BY <2>2
    <3> HIDE DEF o, b
    <3> QED BY <3>1, <3>2, <3>3, <2>1 DEF Pages
  <2>5. MemInv'
    <3>1. i_size' \in Sizes /\ i_lock' = None /\ pc' = [pc EXCEPT ![t] = "idle"]
      BY <1>3, <1>0, <2>1 DEF bilbyfs_write_end_writeback, Goto, MemInv
    <3>2. UNCHANGED <<loc, lost, crashes, fails>>
      BY <1>3 DEF bilbyfs_write_end_writeback, bounds
    <3> QED BY <2>3, <2>4, <3>1, <3>2, <1>0 DEF MemInv, Labels
  <2>6. CallsInv'
    <3> SUFFICES ASSUME NEW u \in All PROVE CallInv(u)'  BY DEF CallsInv
    <3>1. loc' = loc /\ pc' = [pc EXCEPT ![t] = "idle"]
      BY <1>3 DEF bilbyfs_write_end_writeback, Goto
    <3>2. CASE u = t  BY <3>1, <3>2, <1>0 DEF CallInv, MemInv
    <3>3. CASE u # t
      <4>1. pc'[u] = pc[u] /\ CallInv(u)
        BY <1>0, <3>1, <3>3 DEF MemInv, CallsInv
      <4>2. pc[u] = "write_page" => loc[u].blk \in Blocks \ {b}
        BY <4>1, <3>3, <2>1 DEF CallInv, PageLocs
      <4> QED BY <3>1, <4>1, <4>2, <2>1, <2>4, <3>3 DEF CallInv
    <3> QED BY <3>2, <3>3
  <2> QED BY <1>3, <1>k, <2>5, <2>6 DEF bilbyfs_write_end_writeback, store_vars
<1>4. ASSUME NEW t \in All, WritePage(t) PROVE TypeInv'
  <2> DEFINE b == loc[t].blk
  <2>1. b \in Blocks /\ page[b] \in Pages /\ page[b].lock = t /\ loc[t] \in PageLocs /\ pc[t] = "write_page"
    BY <1>4, <1>0 DEF CallsInv, CallInv, WritePage, PageLocs, MemInv
  <2>2. page' \in [Blocks -> Pages] /\ \A e \in Blocks \ {b} : page'[e] = page[e]
    BY <1>4, <1>0, <2>1 DEF WritePage, MemInv, Pages
  <2>3. StoreInv' /\ i_size' \in Sizes
    <3>1. CASE fsop_write_end(b, loc[t].len)
      BY <3>1, <2>1, PageWritten, Appended DEF Good
    <3>2. CASE UNCHANGED <<store_vars, i_size>>
      BY <3>2, <1>k, <1>0 DEF store_vars, MemInv
    <3> QED BY <1>4, <3>1, <3>2 DEF WritePage, Refused
  <2>4. pc' = [pc EXCEPT ![t] = loc[t].next] /\ loc' = [loc EXCEPT ![t] = loc[t].rest] /\ i_lock' = i_lock
    BY <1>4 DEF WritePage, Goto
  <2>5. MemInv'
    <3>1. lost' \subseteq Kinds /\ fails' \in Nat /\ UNCHANGED <<bytes, mods, crashes>>
      <4>1. UNCHANGED <<bytes, mods, crashes>>  BY <1>4 DEF WritePage, file_vars
      <4>2. CASE Refused({"write"})
        BY <4>1, <4>2, <1>0, RefusedFacts DEF Kinds, MemInv
      <4>3. CASE UNCHANGED fails /\ lost' \in {lost, lost \cup {"raised"}}
        BY <4>1, <4>3, <1>0 DEF MemInv, Kinds
      <4> QED BY <1>4, <4>1, <4>2, <4>3 DEF WritePage
    <3>2. pc' \in [All -> Labels]  BY <2>1, <2>4, <1>0 DEF MemInv, PageLocs, Labels
    <3> QED BY <2>2, <2>3, <2>4, <3>1, <3>2, <1>0 DEF MemInv
  <2>6. CallsInv'
    <3> SUFFICES ASSUME NEW u \in All PROVE CallInv(u)'  BY DEF CallsInv
    <3>2. CASE u = t
      <4>1. pc'[t] = loc[t].next /\ loc'[t] = loc[t].rest /\ CallInv(t)
        BY <2>4, <1>0 DEF MemInv, CallsInv
      <4> QED BY <3>2, <4>1, <2>1 DEF CallInv, PageLocs
    <3>3. CASE u # t
      <4>1. pc'[u] = pc[u] /\ loc'[u] = loc[u] /\ CallInv(u)
        BY <1>0, <2>4, <3>3 DEF MemInv, CallsInv
      <4>2. pc[u] = "write_page" => loc[u].blk \in Blocks \ {b}
        BY <4>1, <3>3, <2>1 DEF CallInv, PageLocs
      <4>3. pc[u] = "write_end" => loc[u].pos \div BlockSize \in Blocks \ {b}
        BY <4>1, <3>3, <2>1, <1>s DEF CallInv, WriteLocs
      <4> QED BY <4>1, <4>2, <4>3, <2>2, <2>4 DEF CallInv
    <3> QED BY <3>2, <3>3
  <2> QED BY <2>3, <2>5, <2>6
<1>5. ASSUME NEW t \in All, NEW b \in Blocks, NEW next, NEW rest,
             \/ next = "fsync" /\ rest \in FsyncLocs /\ t \in Threads /\ pc[t] = "fsync"
             \/ next = "idle" /\ rest = <<>> /\ pc[t] = "idle",
             bilbyfs_writepage(t, b, next, rest)
      PROVE  TypeInv'
  <2> DEFINE len == IF b < i_size \div BlockSize THEN BlockSize ELSE i_size % BlockSize
             f == SubSeq(page[b].data, 1, len) \o Zeros(BlockSize - len)
  <2>1. /\ UNCHANGED <<log, i_size, i_lock, bytes, mods, lost, fails, crashes>>
        /\ page[b] \in Pages /\ page[b].lock = None /\ i_size \in Sizes /\ page[b].up
    BY <1>5, <1>0 DEF bilbyfs_writepage, store_vars, file_vars, bounds, MemInv
  <2>2. CASE b * BlockSize >= i_size
    <3>1. /\ page' = [page EXCEPT ![b].dirty = FALSE]
          /\ loc' = [loc EXCEPT ![t] = rest] /\ pc' = pc
      BY <1>5, <2>2 DEF bilbyfs_writepage
    <3>2. MemInv'
      BY <1>0, <2>1, <3>1 DEF MemInv, Pages
    <3>3. \A e \in Blocks : page'[e].lock = page[e].lock /\ page'[e].up = page[e].up
      BY <1>0, <3>1 DEF MemInv, Pages
    <3>4. CallsInv'
      <4> SUFFICES ASSUME NEW u \in All PROVE CallInv(u)'  BY DEF CallsInv
      <4>1. CASE u = t
        BY <4>1, <1>5, <1>0, <3>1 DEF MemInv, CallInv
      <4>2. CASE u # t
        <5>1. loc'[u] = loc[u] /\ pc'[u] = pc[u] /\ CallInv(u)
          BY <4>2, <1>0, <3>1 DEF MemInv, CallsInv
        <5>2. pc[u] = "write_page" => loc[u].blk \in Blocks
          BY <5>1 DEF CallInv, PageLocs
        <5>3. pc[u] = "write_end" => loc[u].pos \div BlockSize \in Blocks
          BY <5>1, <1>s DEF CallInv, WriteLocs
        <5> QED BY <5>1, <5>2, <5>3, <3>3, <2>1 DEF CallInv
      <4> QED BY <4>1, <4>2
    <3> QED BY <1>k, <2>1, <3>2, <3>4
  <2>3. CASE ~(b * BlockSize >= i_size)
    <3>1. len \in 1 .. BlockSize  BY <2>1, <2>3, WriteLen
    <3>2. /\ page' = [page EXCEPT ![b].dirty = FALSE, ![b].lock = t, ![b].data = f]
          /\ loc' = [loc EXCEPT ![t] = [blk |-> b, len |-> len, next |-> next, rest |-> rest]]
          /\ pc' = [pc EXCEPT ![t] = "write_page"]
      BY <1>5, <2>3 DEF bilbyfs_writepage, Goto
    <3>3. f \in Data
      <4>1. page[b].data \in Data  BY <2>1 DEF Pages
      <4> HIDE DEF len
      <4> QED BY <3>1, <4>1, PageTypes
    <3> HIDE DEF f, len
    <3>4. /\ page' \in [Blocks -> Pages] /\ page'[b].lock = t /\ page'[b].up
          /\ \A e \in Blocks \ {b} : page'[e] = page[e]
      BY <1>0, <2>1, <3>2, <3>3 DEF MemInv, Pages
    <3>5. MemInv'
      BY <1>0, <2>1, <3>2, <3>4 DEF MemInv, Labels
    <3>6. CallsInv'
      <4> SUFFICES ASSUME NEW u \in All PROVE CallInv(u)'  BY DEF CallsInv
      <4>1. CASE u = t
        <5>1. pc'[t] = "write_page" /\ loc'[t] = [blk |-> b, len |-> len, next |-> next, rest |-> rest]
          BY <1>0, <3>2 DEF MemInv
        <5> QED BY <4>1, <5>1, <1>5, <3>1, <3>4 DEF CallInv, PageLocs
      <4>2. CASE u # t
        <5>1. loc'[u] = loc[u] /\ pc'[u] = pc[u] /\ CallInv(u)
          BY <4>2, <1>0, <3>2 DEF MemInv, CallsInv
        <5>2. pc[u] = "write_page" => loc[u].blk \in Blocks \ {b}
          BY <5>1, <2>1, ThreadAssumption DEF CallInv, PageLocs
        <5>3. pc[u] = "write_end" => loc[u].pos \div BlockSize \in Blocks \ {b}
          BY <5>1, <1>s, <2>1, ThreadAssumption DEF CallInv, WriteLocs
        <5> QED BY <5>1, <5>2, <5>3, <3>4, <2>1 DEF CallInv
      <4> QED BY <4>1, <4>2
    <3> QED BY <1>k, <2>1, <3>5, <3>6
  <2> QED BY <2>2, <2>3
<1>6. ASSUME NEW t \in Threads, FsyncCall(t) PROVE TypeInv'
  <2>1. MemInv'
    BY <1>6, <1>0 DEF MemInv, FsyncCall, Enter, Goto, Labels, file_vars, All
  <2>2. CallsInv'
    BY <1>6, <1>0, ThreadAssumption, ZenonT(60)
       DEF MemInv, CallsInv, CallInv, FsyncCall, Enter, Goto, FsyncLocs, All, file_vars
  <2> QED BY <1>6, <1>k, <2>1, <2>2 DEF FsyncCall, Enter, store_vars
<1>7. ASSUME NEW t \in All, FsyncPage(t) PROVE TypeInv'
  <2>0. pc[t] = "fsync" /\ t \in Threads /\ loc[t] \in FsyncLocs
    BY <1>7, <1>0 DEF FsyncPage, CallsInv, CallInv
  <2>1. PICK b \in loc[t].todo :
        \/ bilbyfs_writepage(t, b, "fsync", [loc[t] EXCEPT !.todo = @ \ {b}])
        \/ /\ loc' = [loc EXCEPT ![t] = [loc[t] EXCEPT !.todo = @ \ {b}]]
           /\ UNCHANGED <<store_vars, i_size, i_lock, page, eio, pc, file_vars, lost, bounds>>
    BY <1>7 DEF FsyncPage
  <2>2. b \in Blocks /\ [loc[t] EXCEPT !.todo = @ \ {b}] \in FsyncLocs
    BY <2>0 DEF FsyncLocs
  <2> DEFINE rest == [loc[t] EXCEPT !.todo = @ \ {b}]
  <2> HIDE DEF rest
  <2>3. CASE bilbyfs_writepage(t, b, "fsync", rest)
    BY <2>0, <2>2, <2>3, <1>5 DEF rest
  <2>4. CASE /\ loc' = [loc EXCEPT ![t] = rest]
             /\ UNCHANGED <<store_vars, i_size, i_lock, page, eio, pc, file_vars, lost, bounds>>
    <3>1. MemInv'  BY <2>4, <1>0 DEF MemInv, file_vars, bounds
    <3>2. CallsInv'
      <4> SUFFICES ASSUME NEW u \in All PROVE CallInv(u)'  BY DEF CallsInv
      <4>1. CASE u = t
        BY <4>1, <2>0, <2>2, <2>4, <1>0 DEF MemInv, CallInv, rest
      <4>2. CASE u # t
        BY <4>2, <2>4, <1>0 DEF MemInv, CallsInv, CallInv
      <4> QED BY <4>1, <4>2
    <3> QED BY <2>4, <3>1, <3>2, <1>k DEF store_vars
  <2> QED BY <2>1, <2>3, <2>4 DEF rest
<1>8. ASSUME NEW t \in All, FsyncEnd(t) PROVE TypeInv'
  <2>1. StoreInv'
    <3>1. CASE UNCHANGED store_vars  BY <3>1, <1>k DEF store_vars
    <3>2. CASE SyncObjs  BY <3>2, <1>0, Replaced DEF SyncObjs
    <3> QED BY <1>8, <3>1, <3>2 DEF FsyncEnd, Refused
  <2>2. MemInv'
    <3>1. lost' \subseteq Kinds /\ fails' \in Nat
      <4>1. CASE Refused({})  BY <4>1, <1>0, RefusedFacts DEF MemInv
      <4>2. CASE UNCHANGED <<fails, lost>>  BY <4>2, <1>0 DEF MemInv
      <4> QED BY <1>8, <4>1, <4>2 DEF FsyncEnd
    <3> QED BY <1>8, <3>1, <1>0 DEF MemInv, FsyncEnd, Goto, Labels, file_vars
  <2>3. CallsInv'
    BY <1>8, <1>0 DEF MemInv, CallsInv, CallInv, FsyncEnd, Goto
  <2> QED BY <2>1, <2>2, <2>3
<1>9. ASSUME NEW t \in Threads, NEW n \in Sizes, TruncateCall(t, n) PROVE TypeInv'
  <2>1. MemInv'
    BY <1>9, <1>0 DEF MemInv, TruncateCall, Enter, Goto, Labels, file_vars, All
  <2>2. CallsInv'
    BY <1>9, <1>0, ThreadAssumption
       DEF MemInv, CallsInv, CallInv, TruncateCall, Enter, Goto, TruncateLocs, All
  <2> QED BY <1>9, <1>k, <2>1, <2>2 DEF TruncateCall, Enter, store_vars
<1>10. ASSUME NEW t \in All, fsop_truncate(t) PROVE TypeInv'
  <2> DEFINE new == loc[t].size
  <2>1. i_lock = t /\ t # None /\ new \in Sizes /\ pc[t] = "truncate"
    BY <1>10, <1>0, ThreadAssumption DEF fsop_truncate, CallsInv, CallInv, TruncateLocs
  <2>2. UNCHANGED <<page, crashes>>  BY <1>10 DEF fsop_truncate
  <2>3. CASE /\ Written(TruncateObjs(Content, i_size, new))
             /\ i_size' = new /\ bytes' = Resized(bytes, new) /\ mods' = mods + 1
             /\ pc' = [pc EXCEPT ![t] = "setattr"]
             /\ UNCHANGED <<i_lock, loc, fails, lost>>
    <3>1. StoreInv'  BY <2>1, <2>3, Truncated, Appended
    <3>2. bytes' \in Seq(Bytes)
      <4>1. new \in Nat /\ bytes \in Seq(Bytes)  BY <2>1, <1>0, <1>s DEF MemInv
      <4> QED BY <2>3, <4>1, Resize
    <3>3. MemInv'
      <4>1. pc' \in [All -> Labels] /\ loc' = [u \in All |-> loc'[u]] /\ DOMAIN loc' = All
        BY <2>3, <1>0 DEF MemInv, Labels
      <4>2. mods' \in Nat  BY <2>3, <1>0 DEF MemInv
      <4> QED BY <2>1, <2>2, <2>3, <3>2, <4>1, <4>2, <1>0 DEF MemInv
    <3>4. CallsInv'
      <4> SUFFICES ASSUME NEW u \in All PROVE CallInv(u)'  BY DEF CallsInv
      <4>1. CASE u = t
        BY <4>1, <2>1, <2>2, <2>3, <1>0 DEF MemInv, CallsInv, CallInv
      <4>2. CASE u # t
        BY <4>2, <2>1, <2>2, <2>3, <1>0 DEF MemInv, CallsInv, CallInv
      <4> QED BY <4>1, <4>2
    <3> QED BY <3>1, <3>3, <3>4
  <2>4. CASE /\ UNCHANGED <<store_vars, file_vars, loc>> /\ fails' \in Nat
             /\ i_size' \in {i_size, new} /\ lost' \subseteq Kinds
             /\ i_lock' = None /\ pc' = [pc EXCEPT ![t] = "idle"]
    <3>1. MemInv'  BY <2>1, <2>2, <2>4, <1>0 DEF MemInv, Labels, file_vars
    <3>2. CallsInv'
      <4> SUFFICES ASSUME NEW u \in All PROVE CallInv(u)'  BY DEF CallsInv
      <4>1. CASE u = t
        BY <4>1, <2>4, <1>0 DEF MemInv, CallInv
      <4>2. CASE u # t
        BY <4>2, <2>1, <2>2, <2>4, <1>0 DEF MemInv, CallsInv, CallInv
      <4> QED BY <4>1, <4>2
    <3> QED BY <2>4, <3>1, <3>2, <1>k DEF store_vars
  <2>5. ASSUME NEW w \in SUBSET {"truncate"}, Refused(w)
        PROVE  UNCHANGED store_vars /\ fails' \in Nat /\ lost' \subseteq Kinds
    BY <2>5, <1>0, RefusedFacts DEF Kinds, MemInv
  <2>6. ASSUME Fails, lost' = lost \cup {"truncate"} PROVE fails' \in Nat /\ lost' \subseteq Kinds
    BY <2>6, <1>0 DEF Fails, Kinds, MemInv
  <2> QED BY <1>10, <2>3, <2>4, <2>5, <2>6 DEF fsop_truncate, Goto
<1>17. ASSUME NEW t \in All, bilbyfs_setattr(t) \/ i_size_write(t) PROVE TypeInv'
  <2>1. /\ i_lock = t /\ t # None /\ loc[t] \in TruncateLocs /\ pc[t] \in {"setattr", "i_size_write"}
        /\ UNCHANGED <<log, page, i_lock, bytes, mods, fails, crashes>>
    BY <1>17, <1>0, ThreadAssumption
       DEF bilbyfs_setattr, i_size_write, CallsInv, CallInv, store_vars, file_vars, bounds
  <2>2. /\ i_size' \in Sizes /\ lost' \subseteq Kinds
        /\ \/ pc' = [pc EXCEPT ![t] = "i_size_write"] /\ loc' = [loc EXCEPT ![t].size = i_size]
           \/ /\ pc' = [pc EXCEPT ![t] = "setsize"]
              /\ loc' = [loc EXCEPT ![t] = [size |-> loc[t].size, todo |-> Blocks]]
    BY <1>17, <2>1, <1>0 DEF bilbyfs_setattr, i_size_write, Goto, TruncateLocs, MemInv, Kinds
  <2>3. MemInv'
    <3>1. pc' \in [All -> Labels] /\ DOMAIN loc' = All /\ loc' = [u \in All |-> loc'[u]]
      BY <2>2, <1>0 DEF MemInv, Labels
    <3> QED BY <2>1, <2>2, <3>1, <1>0 DEF MemInv
  <2>4. CallsInv'
    <3> SUFFICES ASSUME NEW u \in All PROVE CallInv(u)'  BY DEF CallsInv
    <3>1. CASE u = t
      <4>1. \/ pc'[t] = "i_size_write" /\ loc'[t] \in TruncateLocs
            \/ pc'[t] = "setsize" /\ loc'[t] \in SetsizeLocs
        BY <2>1, <2>2, <1>0 DEF MemInv, TruncateLocs, SetsizeLocs
      <4> QED BY <3>1, <4>1, <2>1 DEF CallInv
    <3>2. CASE u # t
      BY <3>2, <2>1, <2>2, <1>0 DEF MemInv, CallsInv, CallInv
    <3> QED BY <3>1, <3>2
  <2> QED BY <1>k, <2>1, <2>3, <2>4
<1>11. ASSUME NEW t \in All, truncate_setsize(t) PROVE TypeInv'
  <2> DEFINE size == loc[t].size
  <2>1. PICK b \in loc[t].todo :
            /\ page[b].lock = None
            /\ page' = IF b * BlockSize >= size THEN [page EXCEPT ![b] = NoPage]
                       ELSE IF (b + 1) * BlockSize > size /\ page[b].up
                       THEN [page EXCEPT ![b].data = SubSeq(page[b].data, 1, size - b * BlockSize)
                                                     \o Zeros((b + 1) * BlockSize - size)]
                       ELSE page
            /\ loc' = [loc EXCEPT ![t].todo = @ \ {b}]
            /\ \/ pc' = [pc EXCEPT ![t] = "idle"] /\ i_lock' = None
               \/ UNCHANGED <<pc, i_lock>>
    BY <1>11 DEF truncate_setsize, Goto
  <2>2. /\ pc[t] = "setsize" /\ i_lock = t /\ t # None /\ loc[t] \in SetsizeLocs /\ b \in Blocks
        /\ page[b] \in Pages /\ i_size \in Sizes /\ size \in Sizes
        /\ UNCHANGED <<log, i_size, bytes, mods, lost, fails, crashes>>
    BY <1>11, <1>0, ThreadAssumption
       DEF truncate_setsize, CallsInv, CallInv, SetsizeLocs, MemInv, store_vars, file_vars, bounds
  <2>3. page' \in [Blocks -> Pages] /\ \A e \in Blocks \ {b} : page'[e] = page[e]
    <3> DEFINE m == size - b * BlockSize
               f == SubSeq(page[b].data, 1, m) \o Zeros((b + 1) * BlockSize - size)
    <3>1. CASE page' \in {[page EXCEPT ![b] = NoPage], page}
      BY <3>1, <2>2, <1>0, PageTypes DEF MemInv
    <3>2. CASE /\ ~(b * BlockSize >= size) /\ (b + 1) * BlockSize > size
               /\ page' = [page EXCEPT ![b].data = f]
      <4>1. m \in 1 .. BlockSize /\ (b + 1) * BlockSize - size = BlockSize - m
        <5>1. b * BlockSize \in Nat /\ size \in Nat /\ (b + 1) * BlockSize = b * BlockSize + BlockSize
          BY <2>2, FileAssumption DEF Blocks, Sizes
        <5>2. PICK o \in Nat : o = b * BlockSize  BY <5>1
        <5>3. size > o /\ o + BlockSize > size  BY <3>2, <5>1, <5>2, FileAssumption
        <5>4. size - o \in 1 .. BlockSize /\ (o + BlockSize) - size = BlockSize - (size - o)
          BY <5>1, <5>3, FileAssumption
        <5> QED BY <5>1, <5>2, <5>4
      <4>2. f \in Data
        <5>1. page[b].data \in Data  BY <2>2 DEF Pages
        <5> HIDE DEF m
        <5> QED BY <4>1, <5>1, PageTypes
      <4> HIDE DEF f
      <4> QED BY <3>2, <4>2, <2>2, <1>0 DEF MemInv, Pages
    <3> QED BY <2>1, <3>1, <3>2
  <2>4. MemInv'
    <3>1. pc' \in [All -> Labels] /\ i_lock' \in Threads \cup {None}
      BY <2>1, <1>0 DEF MemInv, Labels
    <3>2. DOMAIN loc' = All /\ loc' = [u \in All |-> loc'[u]]  BY <2>1, <1>0 DEF MemInv
    <3> QED BY <2>2, <2>3, <3>1, <3>2, <1>0 DEF MemInv
  <2>5. CallsInv'
    <3> SUFFICES ASSUME NEW u \in All PROVE CallInv(u)'  BY DEF CallsInv
    <3>1. CASE u = t
      <4>1. pc'[t] = "idle" \/ (pc'[t] = "setsize" /\ i_lock' = t)
        BY <2>1, <2>2, <1>0 DEF MemInv
      <4>2. loc'[t] = [loc[t] EXCEPT !.todo = @ \ {b}]
        BY <2>1, <1>0 DEF MemInv
      <4>3. loc'[t] \in SetsizeLocs
        BY <4>2, <2>2 DEF SetsizeLocs
      <4> QED BY <3>1, <4>1, <4>3 DEF CallInv
    <3>2. CASE u # t
      <4>1. pc'[u] = pc[u] /\ loc'[u] = loc[u] /\ CallInv(u)
        BY <3>2, <2>1, <1>0 DEF MemInv, CallsInv
      <4>2. pc[u] = "write_page" => loc[u].blk \in Blocks \ {b}
        BY <4>1, <2>1, ThreadAssumption DEF CallInv, PageLocs
      <4>3. pc[u] \notin {"write_begin", "write_end", "truncate", "setattr",
                               "i_size_write", "setsize"}
        BY <4>1, <2>2, <3>2 DEF CallInv
      <4> QED BY <4>1, <4>2, <4>3, <2>3 DEF CallInv
    <3> QED BY <3>1, <3>2
  <2> QED BY <2>2, <2>4, <2>5, <1>k
<1>12. ASSUME NEW t \in Threads, SetattrCall(t) PROVE TypeInv'
  <2>1. Good(Apply(Content, <<InodeObj(i_size)>>))
    BY <1>0, WriteInode DEF MemInv
  <2>2. StoreInv'
    <3>1. CASE UNCHANGED store_vars  BY <3>1, <1>k DEF store_vars
    <3>2. CASE Written(<<InodeObj(i_size)>>)
      BY <3>2, <1>0, <2>1, Appended DEF Written, WriteObjs
    <3> QED BY <1>12, <3>1, <3>2 DEF SetattrCall, Refused
  <2>3. lost' \subseteq Kinds /\ fails' \in Nat
    <3>1. CASE Refused({})  BY <3>1, <1>0, RefusedFacts DEF MemInv
    <3>2. CASE UNCHANGED <<fails, lost>>  BY <3>2, <1>0 DEF MemInv
    <3> QED BY <1>12, <3>1, <3>2 DEF SetattrCall
  <2>4. MemInv' /\ CallsInv'
    BY <1>12, <2>3, <1>0 DEF SetattrCall, MemInv, CallsInv, CallInv, file_vars
  <2> QED BY <2>2, <2>4
<1>13. ASSUME NEW b \in Blocks, bilbyfs_readpage(b) \/ ReclaimPage(b) PROVE TypeInv'
  <2>1. /\ page[b].lock = None
        /\ UNCHANGED <<log, i_size, i_lock, pc, loc, bytes, mods, lost, fails, crashes>>
    BY <1>13 DEF bilbyfs_readpage, ReclaimPage, store_vars, file_vars, bounds
  <2>2. page' \in [Blocks -> Pages] /\ \A e \in Blocks \ {b} : page'[e] = page[e]
    <3>1. CASE bilbyfs_readpage(b)
      <4>1. PICK d \in fsop_readpage(Content, i_size, b) :
                page' = [page EXCEPT ![b] = [NoPage EXCEPT !.up = TRUE, !.data = d]]
        BY <3>1 DEF bilbyfs_readpage
      <4>2. d \in Data  BY <1>0, PageTypes DEF MemInv
      <4>3. [NoPage EXCEPT !.up = TRUE, !.data = d] \in Pages  BY <4>2, PageTypes DEF Pages
      <4> QED BY <4>1, <4>3, <1>0 DEF MemInv
    <3>2. CASE ReclaimPage(b)
      BY <3>2, <1>0, PageTypes DEF ReclaimPage, MemInv
    <3> QED BY <1>13, <3>1, <3>2
  <2>3. MemInv'  BY <2>1, <2>2, <1>0 DEF MemInv
  <2>4. CallsInv'
    <3> SUFFICES ASSUME NEW u \in All PROVE CallInv(u)'  BY DEF CallsInv
    <3>1. CallInv(u)  BY <1>0 DEF CallsInv
    <3>2. pc[u] = "write_page" => loc[u].blk \in Blocks \ {b}
      BY <3>1, <2>1, ThreadAssumption DEF CallInv, PageLocs
    <3>3. pc[u] = "write_end" => loc[u].pos \div BlockSize \in Blocks \ {b}
      BY <3>1, <1>s, <2>1, ThreadAssumption DEF CallInv, WriteLocs
    <3> QED BY <3>1, <3>2, <3>3, <2>1, <2>2 DEF CallInv
  <2> QED BY <2>1, <2>3, <2>4, <1>k
<1>14. ASSUME PowerFailure PROVE TypeInv'
  <2>1. PICK n \in DOMAIN log :
            log' = <<log[n]>> /\ i_size' = log[n][InodeId] /\ bytes' = Stored(log[n]) /\ mods' = 0
    BY <1>14 DEF PowerFailure
  <2>2. Good(log[n])  BY <1>0 DEF StoreInv
  <2>3. StoreInv'  BY <2>1, <2>2, Replaced
  <2>4. bytes' \in Seq(Bytes)  BY <2>1, <2>2, StoredFacts
  <2>5. MemInv'
    <3>1. i_size' \in Sizes /\ mods' \in Nat  BY <2>1, <2>2 DEF Good
    <3>2. page' \in [Blocks -> Pages] /\ pc' \in [All -> Labels] /\ crashes' \in Nat
          /\ lost' \subseteq Kinds /\ i_lock' = None /\ UNCHANGED fails
          /\ loc' = [t \in All |-> <<>>]
      BY <1>14, <1>0, PageTypes DEF PowerFailure, MemInv, Labels
    <3> QED BY <2>4, <3>1, <3>2, <1>0 DEF MemInv
  <2>6. CallsInv'
    BY <1>14 DEF PowerFailure, CallsInv, CallInv
  <2> QED BY <2>3, <2>5, <2>6
<1>15. ASSUME UNCHANGED vars PROVE TypeInv'
  <2>1. UNCHANGED <<log, i_size, i_lock, page, pc, loc, bytes, mods, lost, fails, crashes>>
    BY <1>15 DEF vars, store_vars, mem_vars, file_vars, bounds
  <2> QED BY <2>1, <1>0, <1>k DEF MemInv, CallsInv, CallInv
<1>16. Flusher \in All  BY DEF All
<1> QED BY <1>1, <1>2, <1>3, <1>4, <1>5, <1>6, <1>7, <1>8, <1>9, <1>10, <1>11, <1>12, <1>13,
           <1>14, <1>15, <1>16, <1>17 DEF Next, Continue

(* A data object has at least one byte and at most a block.                *)
LEMMA DataLen ==
    ASSUME NEW d \in DataVals, d # Absent
    PROVE  Len(d) \in 1 .. BlockSize
<1>1. PICK n \in 1 .. BlockSize : d \in [1 .. n -> Bytes]  BY DEF DataVals
<1> QED BY <1>1, FileAssumption

(* Every step keeps the sizes right. Truncation is what the invariant is   *)
(* for: of the blocks that no object of its transaction affects, those     *)
(* behind the old end are absent because nothing lay behind that end       *)
(* before.                                                                 *)
LEMMA SizeStep == TypeInv /\ SizeInv /\ [Next]_vars => SizeInv'
<1> SUFFICES ASSUME TypeInv, SizeInv, [Next]_vars, Fitting'
             PROVE  (\A n \in DOMAIN log' : Tight(log'[n])) /\ Content'[InodeId] <= i_size'
    BY DEF SizeInv, Tight
<1> USE DEF TypeInv
<1>0. StoreInv /\ MemInv /\ CallsInv /\ Good(Content) /\ i_size \in Nat
    BY CurrentGood, FileAssumption DEF MemInv, Sizes
<1>t. DOMAIN log = 1 .. Len(log) /\ Len(log) \in DOMAIN log
    BY <1>0 DEF StoreInv
<1>h. ASSUME Fitting
      PROVE  (\A n \in DOMAIN log : Tight(log[n])) /\ Tight(Content) /\ Content[InodeId] <= i_size
    BY <1>h, <1>t DEF SizeInv, Content
<1>f. ASSUME lost \subseteq lost' PROVE Fitting
    BY <1>f DEF Fitting
<1>1. CASE UNCHANGED <<log, i_size, lost>>
    BY <1>1, <1>f, <1>h DEF Content
<1>2. ASSUME NEW t \in All, bilbyfs_write_end_writeback(t)
      PROVE  (\A n \in DOMAIN log' : Tight(log'[n])) /\ Content'[InodeId] <= i_size'
  <2>1. UNCHANGED <<log, lost>>
    BY <1>2 DEF bilbyfs_write_end_writeback, store_vars
  <2>2. loc[t].pos \in Nat /\ loc[t].len \in Nat
    <3>1. loc[t] \in WriteLocs  BY <1>2, <1>0 DEF bilbyfs_write_end_writeback, CallsInv, CallInv
    <3> QED BY <3>1, FileAssumption DEF WriteLocs, Sizes
  <2>3. i_size' \in Nat /\ i_size' >= i_size
    <3> DEFINE end == loc[t].pos + loc[t].len
    <3>1. i_size' = IF end > i_size THEN end ELSE i_size
      BY <1>2 DEF bilbyfs_write_end_writeback
    <3>2. end \in Nat  BY <2>2
    <3> HIDE DEF end
    <3> QED BY <3>1, <3>2, <1>0
  <2>4. Content[InodeId] \in Nat  BY <1>0, FileAssumption DEF Good, Sizes
  <2> QED BY <1>0, <1>f, <1>h, <2>1, <2>3, <2>4 DEF Content
<1>3. ASSUME NEW c, Good(c), log' = Append(log, c), Tight(c), c[InodeId] <= i_size', Fitting
      PROVE  (\A n \in DOMAIN log' : Tight(log'[n])) /\ Content'[InodeId] <= i_size'
    BY <1>3, <1>0, <1>h, Appended
<1>4. ASSUME NEW t \in All, WritePage(t)
      PROVE  (\A n \in DOMAIN log' : Tight(log'[n])) /\ Content'[InodeId] <= i_size'
  <2>1. pc[t] = "write_page" /\ Fitting
    <3>1. lost \subseteq lost'  BY <1>4 DEF WritePage, Refused
    <3> QED BY <1>4, <1>f, <3>1 DEF WritePage
  <2>2. CASE fsop_write_end(loc[t].blk, loc[t].len)
    <3> DEFINE b == loc[t].blk
               len == loc[t].len
               end == Off(b) + len
    <3>1. PICK c : /\ Good(c) /\ log' = Append(log, c)
                   /\ c[InodeId] = i_size' /\ i_size' = IF end > i_size THEN end ELSE i_size
                   /\ c[data_id_init(b)] # Absent /\ Len(c[data_id_init(b)]) = len
                   /\ \A e \in Blocks \ {b} : c[data_id_init(e)] = Content[data_id_init(e)]
      BY <2>1, <2>2, PageWritten
    <3>2. b \in Blocks /\ len \in 1 .. BlockSize
      BY <2>1, <1>0 DEF CallsInv, CallInv, PageLocs
    <3> HIDE DEF b, len
    <3>3. Off(b) \in Nat /\ end \in Nat /\ i_size' \in Nat /\ end <= i_size' /\ i_size <= i_size'
      BY <3>1, <3>2, <1>0, OffFacts, FileAssumption
    <3>4. Tight(c)
      <4> SUFFICES ASSUME NEW e \in Blocks, c[data_id_init(e)] # Absent
                   PROVE  Off(e) + Len(c[data_id_init(e)]) <= i_size'
        BY <3>1 DEF Tight
      <4>1. CASE e = b  BY <4>1, <3>1, <3>3
      <4>2. CASE e # b
        <5>1. Off(e) + Len(c[data_id_init(e)]) <= Content[InodeId] /\ Content[InodeId] <= i_size
          BY <4>2, <2>1, <3>1, <1>h DEF Tight
        <5>2. Len(c[data_id_init(e)]) \in Nat /\ Off(e) \in Nat /\ Content[InodeId] \in Nat
          BY <3>1, <1>0, DataLen, OffFacts, FileAssumption DEF Good, Sizes
        <5> QED BY <5>1, <5>2, <3>3, <1>0
      <4> QED BY <4>1, <4>2
    <3>5. c[InodeId] <= i_size'  BY <3>1, <3>3
    <3> QED BY <1>3, <2>1, <3>1, <3>4, <3>5
  <2>3. CASE UNCHANGED <<store_vars, i_size>>
    BY <2>1, <2>3, <1>h DEF store_vars, Content
  <2> QED BY <1>4, <2>2, <2>3 DEF WritePage, Refused
<1>5. ASSUME NEW t \in All, FsyncEnd(t)
      PROVE  (\A n \in DOMAIN log' : Tight(log'[n])) /\ Content'[InodeId] <= i_size'
  <2>1. UNCHANGED i_size /\ Fitting
    <3>1. lost \subseteq lost'  BY <1>5 DEF FsyncEnd, Refused
    <3> QED BY <1>5, <1>f, <3>1 DEF FsyncEnd
  <2>2. CASE UNCHANGED store_vars  BY <2>1, <2>2, <1>h DEF store_vars, Content
  <2>3. CASE SyncObjs
    BY <2>1, <2>3, <1>0, <1>h, Replaced DEF SyncObjs
  <2> QED BY <1>5, <2>2, <2>3 DEF FsyncEnd, Refused
<1>6. ASSUME NEW t \in All, fsop_truncate(t)
      PROVE  (\A n \in DOMAIN log' : Tight(log'[n])) /\ Content'[InodeId] <= i_size'
  <2> DEFINE new == loc[t].size
  <2>1. new \in Sizes /\ new \in Nat
    BY <1>6, <1>0, FileAssumption DEF fsop_truncate, CallsInv, CallInv, TruncateLocs, Sizes
  <2>2. CASE Written(TruncateObjs(Content, i_size, new)) /\ i_size' = new /\ UNCHANGED lost
    <3>0. Fitting  BY <2>2, <1>f
    <3>1. PICK c : /\ Good(c) /\ log' = Append(log, c) /\ c[InodeId] = new
                   /\ \A b \in Blocks : CutBlock(c, Content, i_size, new, b)
      BY <2>1, <2>2, Truncated
    <3> HIDE DEF new
    <3>2. Tight(c)
      <4> SUFFICES ASSUME NEW b \in Blocks, c[data_id_init(b)] # Absent
                   PROVE  Off(b) + Len(c[data_id_init(b)]) <= new
        BY <3>1 DEF Tight
      <4>1. Len(c[data_id_init(b)]) \in 1 .. BlockSize /\ Off(b) \in Nat /\ Content[InodeId] \in Nat
        BY <3>1, <1>0, DataLen, OffFacts, FileAssumption DEF Good, Sizes
      <4>2. CASE c[data_id_init(b)] = Content[data_id_init(b)]
                 /\ (new >= i_size \/ Off(b) + BlockSize <= new \/ Off(b) >= i_size)
        <5>1. Off(b) + Len(c[data_id_init(b)]) <= Content[InodeId] /\ Content[InodeId] <= i_size
          BY <4>2, <3>0, <1>h DEF Tight
        <5> QED BY <5>1, <4>1, <4>2, <2>1, <1>0, FileAssumption
      <4>3. CASE Len(c[data_id_init(b)]) = new - Off(b)
        BY <4>1, <4>3, <2>1
      <4> QED BY <3>1, <4>2, <4>3 DEF CutBlock
    <3> QED BY <1>3, <2>1, <2>2, <3>0, <3>1, <3>2
  <2>3. CASE Refused(IF \E b \in Blocks : page[b].dirty THEN {"truncate"} ELSE {}) /\ UNCHANGED i_size
    <3>1. lost \subseteq lost' /\ UNCHANGED log  BY <2>3 DEF Refused, store_vars
    <3> QED BY <2>3, <3>1, <1>f, <1>h DEF Content
  <2>4. CASE lost' = lost \cup {"truncate"}
    BY <2>4 DEF Fitting
  <2> QED BY <1>6, <2>2, <2>3, <2>4 DEF fsop_truncate
<1>7. ASSUME NEW t \in Threads, SetattrCall(t)
      PROVE  (\A n \in DOMAIN log' : Tight(log'[n])) /\ Content'[InodeId] <= i_size'
  <2> DEFINE c == Apply(Content, <<InodeObj(i_size)>>)
  <2>0. CASE Refused({}) /\ UNCHANGED i_size
    <3>1. lost \subseteq lost' /\ UNCHANGED log  BY <2>0 DEF Refused, store_vars
    <3> QED BY <2>0, <3>1, <1>f, <1>h DEF Content
  <2> SUFFICES ASSUME Written(<<InodeObj(i_size)>>), UNCHANGED lost
               PROVE  (\A n \in DOMAIN log' : Tight(log'[n])) /\ Content'[InodeId] <= i_size'
    BY <1>7, <2>0 DEF SetattrCall
  <2>1. log' = Append(log, c) /\ UNCHANGED i_size /\ Fitting
    BY <1>7, <1>f DEF SetattrCall, Written, WriteObjs
  <2>2. Good(c) /\ c[InodeId] = i_size /\ \A b \in Blocks : c[data_id_init(b)] = Content[data_id_init(b)]
    BY <1>0, WriteInode DEF MemInv
  <2> HIDE DEF c
  <2>3. Tight(c)
    <3> SUFFICES ASSUME NEW b \in Blocks, c[data_id_init(b)] # Absent
                 PROVE  Off(b) + Len(c[data_id_init(b)]) <= i_size
      BY <2>2 DEF Tight
    <3>1. Len(c[data_id_init(b)]) \in Nat /\ Off(b) \in Nat /\ Content[InodeId] \in Nat
      BY <2>2, <1>0, DataLen, OffFacts, FileAssumption DEF Good, Sizes
    <3>2. Off(b) + Len(c[data_id_init(b)]) <= Content[InodeId] /\ Content[InodeId] <= i_size
      BY <2>1, <2>2, <1>h DEF Tight
    <3> QED BY <3>1, <3>2, <1>0
  <2>4. c[InodeId] <= i_size'  BY <1>0, <2>1, <2>2
  <2> QED BY <1>3, <2>1, <2>2, <2>3, <2>4
<1>8. ASSUME PowerFailure
      PROVE  (\A n \in DOMAIN log' : Tight(log'[n])) /\ Content'[InodeId] <= i_size'
  <2>1. PICK n \in DOMAIN log : log' = <<log[n]>> /\ i_size' = log[n][InodeId]
    BY <1>8 DEF PowerFailure
  <2>2. Fitting  BY <1>8 DEF PowerFailure, Fitting
  <2>3. Good(log[n]) /\ Tight(log[n])  BY <2>2, <1>0, <1>h DEF StoreInv
  <2>4. log[n][InodeId] \in Nat  BY <2>3, FileAssumption DEF Good, Sizes
  <2> QED BY <2>1, <2>3, <2>4, Replaced
<1>9. ASSUME UNCHANGED vars PROVE UNCHANGED <<log, i_size, lost>>
    BY <1>9 DEF vars, store_vars, mem_vars
<1>10. ASSUME NEW t \in All, bilbyfs_write_begin(t) \/ FsyncPage(t) \/ bilbyfs_setattr(t) \/ truncate_setsize(t)
       PROVE  UNCHANGED <<log, i_size, lost>>
  <2>1. CASE bilbyfs_write_begin(t)  BY <2>1 DEF bilbyfs_write_begin, store_vars
  <2>2. CASE FsyncPage(t)
    <3>1. CASE \E b, r : bilbyfs_writepage(t, b, "fsync", r)  BY <3>1 DEF bilbyfs_writepage, store_vars
    <3> QED BY <2>2, <3>1 DEF FsyncPage, store_vars
  <2>3. CASE truncate_setsize(t) \/ bilbyfs_setattr(t)
    BY <2>3 DEF truncate_setsize, bilbyfs_setattr, store_vars
  <2> QED BY <1>10, <2>1, <2>2, <2>3
<1>12. ASSUME NEW t \in All, i_size_write(t)
       PROVE  (\A n \in DOMAIN log' : Tight(log'[n])) /\ Content'[InodeId] <= i_size'
  <2>1. UNCHANGED log /\ lost \subseteq lost' /\ i_size' = loc[t].size /\ loc[t].size \in Sizes
    BY <1>12, <1>0 DEF i_size_write, store_vars, CallsInv, CallInv, TruncateLocs
  <2>2. ~(loc[t].size < i_size)  BY <1>12 DEF i_size_write, Fitting
  <2>3. Content[InodeId] \in Nat /\ i_size' \in Nat
    BY <1>0, <2>1, FileAssumption DEF Good, Sizes
  <2> QED BY <1>0, <1>f, <1>h, <2>1, <2>2, <2>3 DEF Content
<1>11. ASSUME NEW t, NEW b, NEW n, NEW l,
              WriteCall(t, n, l) \/ TruncateCall(t, n) \/ FsyncCall(t)
                \/ bilbyfs_writepage(Flusher, b, "idle", <<>>) \/ bilbyfs_readpage(b) \/ ReclaimPage(b)
       PROVE  UNCHANGED <<log, i_size, lost>>
    BY <1>11 DEF WriteCall, TruncateCall, FsyncCall, Enter, bilbyfs_writepage, bilbyfs_readpage,
                 ReclaimPage, store_vars
<1> QED BY <1>1, <1>2, <1>4, <1>5, <1>6, <1>7, <1>8, <1>9, <1>10, <1>11, <1>12 DEF Next, Continue

(* Pages are whole blocks, the file does not outgrow its bound, and the    *)
(* locks are held by threads, however the calls, write-back, failures and  *)
(* power failures interleave (wrapper.c, fsop.c).                          *)
THEOREM TypeOKHolds == Spec => []TypeOK
<1>1. TypeInv => TypeOK
  <2> SUFFICES ASSUME TypeInv PROVE TypeOK  OBVIOUS
  <2>1. \A b \in Blocks : Len(page[b].data) = BlockSize /\ page[b].lock \in All \cup {None}
    BY FileAssumption DEF TypeInv, MemInv, Pages, Data
  <2> QED BY <2>1 DEF TypeInv, MemInv, StoreInv, Good, TypeOK
<1> QED BY InitType, TypeStep, <1>1, PTL DEF Spec

(* A file that was just created satisfies SizeInv.                         *)
LEMMA InitSize == Init => SizeInv
<1> SUFFICES ASSUME Init PROVE SizeInv  OBVIOUS
<1> DEFINE c == [Empty EXCEPT ![InodeId] = 0]
<1>1. c[InodeId] = 0 /\ \A b \in Blocks : c[data_id_init(b)] = Absent
  BY IdFacts, FileAssumption DEF Empty
<1>2. log = <<c>> /\ i_size = 0  BY DEF Init
<1> HIDE DEF c
<1>3. Len(log) = 1 /\ DOMAIN log = {1} /\ log[1] = c  BY <1>2
<1>4. Content[InodeId] <= i_size  BY <1>1, <1>2, <1>3 DEF Content
<1> QED BY <1>1, <1>3, <1>4 DEF SizeInv, Tight

(* In every state that a power failure can leave, no data object lies      *)
(* behind the end of the file (fsop_truncate, fsop_write_end,              *)
(* fsop_do_setattr), unless a truncation returned early or memory got a    *)
(* smaller size than the store has (Fitting); also when write-back         *)
(* overtakes a truncation, and whatever a fresh page contains.             *)
THEOREM NoDataBehindEndHolds == Spec => []NoDataBehindEnd
<1>1. SizeInv => NoDataBehindEnd
    BY DEF SizeInv, Tight, NoDataBehindEnd, Off
<1> QED BY InitType, InitSize, TypeStep, SizeStep, <1>1, PTL DEF Spec
=============================================================================
