------------------------------ MODULE FatProofs -----------------------------
(***************************************************************************)
(* Proofs about Fat: what its runs check on a small volume, for every      *)
(* volume, any files, any bounds and any width of the FAT.                 *)
(*                                                                         *)
(* The invariant says which chain every file has, and which one a thread   *)
(* holds between two steps of an allocation, a truncation or what they     *)
(* give back when they fail; that a thread in fat_get_cluster is at a      *)
(* cluster of the chain; and that the caches, and the copies of their      *)
(* entries that threads keep, describe parts of the chain, also while      *)
(* another thread is about to cut it.                                      *)
(*                                                                         *)
(* Here are what a step leaves alone, the steps of fat_get_cluster and of  *)
(* the cache, and those of fat_alloc_clusters; the others are in           *)
(* FatSafetyProofs.                                                        *)
(***************************************************************************)
EXTENDS Fat, FatChainProofs

(* Who owns a chain: a file, or a thread that holds clusters which no file *)
(* has (yet, or any more).  The entries as a function of the cluster.      *)
Owners == Files \cup Threads
Entries(bits, tab) == [c \in Clusters |-> ent_get(bits, tab, Pos(bits, c))]

(* The failures that leave clusters lost or a chain that is not cut.       *)
Undamaged == failed \cap {"free_read", "cut_mirror", "walk_read", "sync_inode"} = {}

(* Where fat_get_cluster is, and where its callers go on.                  *)
GetPcs == {"lookup", "walk", "add", "add_alloc"}
RetPcs == {"chain_put", "mapped", "cut", "bmap_cluster"}
WritePcs == {"alloc", "alloc_mirror", "chain_add", "chain_put", "chain_mirror", "chain_undo",
             "chain_done", "mapped", "write_failed", "free", "free_mirror", "truncate_blocks",
             "cut", "cut_mirror", "done"}
TruncatePcs == {"down_write", "unmap", "free", "free_mirror", "truncate_blocks",
                "cut", "cut_mirror", "done"}
HoldPcs == {"alloc_mirror", "free", "chain_add", "chain_put", "chain_undo", "cut_mirror"}
LinkedPcs == {"chain_mirror", "chain_done"}
Rets == RetPcs \cup {"", "write_failed", "done"}
Goal(p, l) == IF p \in GetPcs THEN l.ret ELSE p

NoLoc == [op |-> "none"]
CidType == [id : Int, f : Int, d : Int, n : Int]
LocType == [op : {"write", "truncate", "read", "bmap"}, f : Files, nr : 1 .. 2, cl : Int,
            skip : Nat, bhs : SUBSET Int, res : {NoRes, AtEof, Failed},
            ret : Rets,
            tgt : Nat, fclus : Int, dclus : Int, cid : CidType]
InodeType == [i_start : Int, i_size : Nat, mmu_private : Nat, i_blocks : Int,
              i_mutex : Threads \cup {None}, cache_valid_id : Nat, nr_caches : Int]
EntryType == [f : Int, d : Int, n : Int]

(* What holds of thread t at p with the locals l, when it holds the chain  *)
(* own, the chain of its file is s, and the inode has the given fields.    *)
OpOK(t, p, l, mtx) ==
    /\ l.op = "write" => Goal(p, l) \in WritePcs
    /\ l.op = "truncate" => Goal(p, l) \in TruncatePcs
    /\ l.op \in {"read", "bmap"} => Goal(p, l) = "bmap_cluster"
    /\ p \in GetPcs => l.ret \in RetPcs
    /\ p \in {"free", "free_mirror"} =>
        l.ret \in {"write_failed", "done"} /\ (l.ret = "write_failed" => l.op = "write")
    /\ l.op \in {"write", "truncate"} => mtx = t
HoldOK(p, l, own) ==
    /\ IF Goal(p, l) \in HoldPcs THEN own # <<>> /\ l.cl = own[1] ELSE own = <<>>
    /\ Goal(p, l) \in {"alloc_mirror", "chain_add", "chain_put"} => Len(own) = l.nr
SizeOK(p, l, s, size, mmu, blk, und) ==
    /\ p \in LinkedPcs => /\ mmu + l.nr <= Len(s) /\ l.fclus = (Len(s) - l.nr) - 1
                          /\ und => blk + l.nr = Len(s)
    /\ p = "cut_mirror" => Len(s) = l.skip
    /\ p \in {"unmap", "truncate_blocks", "cut_mirror"} \/ Goal(p, l) = "cut" => l.skip = size
    /\ Goal(p, l) = "cut" => mmu = size
    /\ p = "down_write" => l.skip <= size
PosOK(p, l, s) ==
    p \in GetPcs \cup RetPcs =>
    /\ l.res # Failed => /\ l.fclus \in 0 .. Len(s) - 1 /\ l.dclus = s[l.fclus + 1]
                         /\ l.fclus <= l.tgt
    /\ p \in GetPcs => l.res # Failed
    /\ p \in {"lookup", "walk"} => l.res = NoRes /\ l.fclus < l.tgt
    /\ p \notin {"lookup", "walk"} /\ l.res = NoRes => l.fclus = l.tgt
    /\ Goal(p, l) = "chain_put" =>
        l.tgt = FAT_ENT_EOF /\ (l.res = AtEof => l.fclus = Len(s) - 1)
    /\ Goal(p, l) # "chain_put" => l.tgt < Len(s) /\ l.res # AtEof
    /\ Goal(p, l) = "cut" => l.tgt = l.skip - 1
ReaderOK(l, size, um) ==
    l.op \in {"read", "bmap"} => l.tgt < size \/ (l.op = "read" /\ um)
ThreadOK(t, p, l, own, s, size, mmu, blk, mtx, und, um) ==
    \/ p = "idle" /\ l = NoLoc /\ own = <<>>
    \/ /\ l \in LocType /\ p # "idle"
       /\ OpOK(t, p, l, mtx) /\ HoldOK(p, l, own) /\ SizeOK(p, l, s, size, mmu, blk, und)
       /\ PosOK(p, l, s) /\ ReaderOK(l, size, um)

(* A cache entry, or the copy of one, describes a part of the chain s.     *)
RunOK(s, e) ==
    /\ e.f \in Nat /\ e.f > 0 /\ e.n \in Nat /\ e.f + e.n < Len(s)
    /\ \A i \in 0 .. e.n : s[(e.f + i) + 1] = e.d + i
Within(e, lim, size) == lim => e.f + e.n < size
CidOK(p, l, s, id, lim, size) ==
    p \in {"walk", "add", "add_alloc"} =>
    /\ l.cid.id \in 0 .. id /\ l.cid.n >= 0
    /\ l.cid.f # -1 /\ l.cid.id \in {FAT_CACHE_VALID, id} => RunOK(s, l.cid) /\ Within(l.cid, lim, size)
    /\ l.cid.f # -1 /\ l.cid.id = FAT_CACHE_VALID => l.cid.f + l.cid.n <= l.fclus
    /\ l.cid.f = -1 => l.cid.d = -1 /\ l.cid.n = 0
    /\ p = "walk" /\ l.cid.f # -1 => l.cid.f + l.cid.n = l.fclus /\ l.cid.d + l.cid.n = l.dclus
    /\ p = "add_alloc" => l.cid.f # -1 /\ l.cid.id = FAT_CACHE_VALID

(* What holds of an inode m whose chain is s.                              *)
FileOK(s, m) ==
    /\ m \in InodeType /\ m.cache_valid_id # 0
    /\ m.i_start = IF s = <<>> THEN 0 ELSE s[1]
    /\ m.i_size <= m.mmu_private /\ m.mmu_private <= Len(s)

Unmapping(f) == \E t \in Threads : pc[t] = "unmap" /\ loc[t].f = f
Cutting(f) == \E t \in Threads : Goal(pc[t], loc[t]) = "cut" /\ loc[t].f = f
Growing(f) == \E t \in Threads : pc[t] \in LinkedPcs \cup {"cut_mirror"} /\ loc[t].f = f
Reserving(f) == {t \in Threads : pc[t] = "add_alloc" /\ loc[t].f = f}

(* The parts of the invariant.                                             *)
SysOK ==
    /\ fat_bits \in Widths /\ fat \in Tables(fat_bits) /\ mirror \in Tables(fat_bits)
    /\ fat_lock \in Threads \cup {None} /\ prev_free \in Clusters
    /\ free_clusters \in Int /\ free_clus_valid \in BOOLEAN /\ fs_error \in BOOLEAN
    /\ DOMAIN msdos_i = Files /\ cache \in [Files -> Seq(EntryType)]
    /\ DOMAIN pc = Threads /\ DOMAIN loc = Threads
ChainInv(ch) ==
    /\ ChainOK(Owners, Entries(fat_bits, fat), ch)
    /\ Undamaged => NoneLost(Owners, Entries(fat_bits, fat), ch)
FileInv(ch) ==
    \A f \in Files :
        /\ FileOK(ch[f], msdos_i[f])
        /\ Undamaged /\ ~Growing(f) => msdos_i[f].i_blocks = Len(ch[f])
ThreadAt(ch, t, m) ==
    ThreadOK(t, pc[t], loc[t], ch[t], ch[loc[t].f], m.i_size, m.mmu_private, m.i_blocks,
             m.i_mutex, Undamaged, Unmapping(loc[t].f))
ThreadInv(ch) == \A t \in Threads : ThreadAt(ch, t, msdos_i[loc[t].f])
CacheInv(ch) ==
    \A f \in Files : \A k \in 1 .. Len(cache[f]) :
        RunOK(ch[f], cache[f][k]) /\ Within(cache[f][k], Cutting(f), msdos_i[f].i_size)
CidAt(ch, t, m) ==
    CidOK(pc[t], loc[t], ch[loc[t].f], m.cache_valid_id, Cutting(loc[t].f), m.i_size)
CidInv(ch) == \A t \in Threads : CidAt(ch, t, msdos_i[loc[t].f])
PlacesInv ==
    \A f \in Files :
        /\ msdos_i[f].nr_caches = Len(cache[f]) + Cardinality(Reserving(f))
        /\ msdos_i[f].nr_caches <= FAT_MAX_CACHE
ErrorInv == Undamaged => ~fs_error
CountInv ==
    free_clusters # Unknown =>
        /\ free_clus_valid => free_clusters = Cardinality(FreeSet(Entries(fat_bits, fat)))
        /\ 0 <= free_clusters
        /\ free_clusters <= Cardinality(FreeSet(Entries(fat_bits, fat))) + Cardinality(Clusters)

(* The blocks that thread t has yet to copy.                               *)
MirrorPcs == {"alloc_mirror", "free", "free_mirror", "chain_mirror", "cut_mirror"}
Blocks(bits, s) == UNION {BhsOf(Pos(bits, s[k])) : k \in 1 .. Len(s)}
Pending(bits, p, l, own) ==
    (IF p \in MirrorPcs \ {"alloc_mirror"} THEN l.bhs ELSE {})
    \cup (IF p = "alloc_mirror" THEN l.bhs \cap Blocks(bits, own) ELSE {})
    \cup (IF p = "free" THEN Blocks(bits, own) ELSE {})
MirrorInv(ch) ==
    failed \cap {"free_read", "free_mirror", "cut_mirror"} = {} =>
        \A o \in Offsets :
            fat[o] = mirror[o]
            \/ \E t \in Threads : o \div s_blocksize \in Pending(fat_bits, pc[t], loc[t], ch[t])

InvOf(ch) ==
    /\ SysOK /\ ChainInv(ch) /\ FileInv(ch) /\ ThreadInv(ch) /\ CacheInv(ch) /\ CidInv(ch)
    /\ PlacesInv /\ ErrorInv /\ CountInv /\ MirrorInv(ch)
Inv == \E ch : InvOf(ch)

-----------------------------------------------------------------------------
(* Lemmas about entries, threads and caches, of constants only.            *)
LEMMA PutEntries ==
    ASSUME NEW bits \in Widths, NEW tab \in Tables(bits), NEW c \in Clusters, NEW v \in Values
    PROVE  LET new == ent_put(bits, tab, Pos(bits, c), v)
           IN /\ new \in Tables(bits)
              /\ Entries(bits, new)[c] = v
              /\ \A d \in Clusters : d # c => Entries(bits, new)[d] = Entries(bits, tab)[d]
              /\ \A o \in OffsetsOf(bits) :
                    o \div s_blocksize \notin BhsOf(Pos(bits, c)) => new[o] = tab[o]
BY EntryWritten DEF Entries

(* Another thread keeps what holds of it when its file stays the same, or  *)
(* when it only reads and its clusters stay where they are.                *)
LEMMA OtherThread ==
    ASSUME NEW u, NEW p, NEW l, NEW own,
           NEW s, NEW size, NEW mmu, NEW blk, NEW mtx, NEW und, NEW um,
           NEW s2, NEW size2, NEW mmu2, NEW blk2, NEW mtx2, NEW und2, NEW um2,
           ThreadOK(u, p, l, own, s, size, mmu, blk, mtx, und, um), und2 => und,
           l.op \in {"write", "truncate"} =>
                s2 = s /\ size2 = size /\ mmu2 = mmu /\ blk2 = blk /\ mtx2 = mtx,
           l.op \in {"read", "bmap"} /\ l.tgt < Len(s) /\ ReaderOK(l, size, um) =>
                /\ l.tgt < Len(s2) /\ \A i \in 0 .. l.tgt : s2[i + 1] = s[i + 1]
                /\ ReaderOK(l, size2, um2)
    PROVE  ThreadOK(u, p, l, own, s2, size2, mmu2, blk2, mtx2, und2, um2)
<1>1. CASE p = "idle" /\ l = NoLoc /\ own = <<>>
    BY <1>1 DEF ThreadOK
<1>2. CASE /\ l \in LocType /\ p # "idle"
           /\ OpOK(u, p, l, mtx) /\ HoldOK(p, l, own) /\ SizeOK(p, l, s, size, mmu, blk, und)
           /\ PosOK(p, l, s) /\ ReaderOK(l, size, um)
  <2>1. CASE l.op \in {"write", "truncate"}
    <3>1. SizeOK(p, l, s2, size2, mmu2, blk2, und2)  BY <1>2, <2>1 DEF SizeOK
    <3>2. ReaderOK(l, size2, um2)  BY <2>1 DEF ReaderOK
    <3> QED BY <1>2, <2>1, <3>1, <3>2 DEF ThreadOK
  <2>2. CASE l.op \in {"read", "bmap"}
    <3>1. Goal(p, l) = "bmap_cluster"  BY <1>2, <2>2 DEF OpOK
    <3>2. p \in {"lookup", "walk", "add", "add_alloc", "bmap_cluster"}  BY <3>1 DEF Goal, GetPcs
    <3>3. l.tgt < Len(s)  BY <1>2, <3>1, <3>2 DEF PosOK, GetPcs, RetPcs
    <3>4. /\ l.tgt < Len(s2) /\ \A i \in 0 .. l.tgt : s2[i + 1] = s[i + 1]
          /\ ReaderOK(l, size2, um2)
        BY <1>2, <2>2, <3>3
    <3>5. OpOK(u, p, l, mtx2)  BY <1>2, <2>2 DEF OpOK
    <3>6. SizeOK(p, l, s2, size2, mmu2, blk2, und2)  BY <3>1, <3>2 DEF SizeOK, LinkedPcs
    <3>7. PosOK(p, l, s2)
      <4>1. l.res # Failed => l.fclus \in 0 .. Len(s) - 1 /\ l.dclus = s[l.fclus + 1] /\ l.fclus <= l.tgt
          BY <1>2, <3>2 DEF PosOK, GetPcs, RetPcs
      <4>2. l.tgt \in Nat  BY <1>2 DEF LocType
      <4>3. l.res # Failed => l.fclus \in 0 .. l.tgt /\ l.dclus = s2[l.fclus + 1]
          BY <3>4, <4>1, <4>2
      <4>4. l.fclus \in 0 .. l.tgt => l.fclus \in 0 .. Len(s2) - 1 /\ l.fclus <= l.tgt
        <5> HAVE l.fclus \in 0 .. l.tgt
        <5>1. CASE Len(s2) \in Int  BY <3>4, <4>2, <5>1
        <5> QED BY <3>4, <4>2
      <4> QED BY <1>2, <3>1, <3>4, <4>3, <4>4 DEF PosOK
    <3> QED BY <1>2, <3>4, <3>5, <3>6, <3>7 DEF ThreadOK
  <2> QED BY <1>2, <2>1, <2>2 DEF LocType
<1> QED BY <1>1, <1>2 DEF ThreadOK

-----------------------------------------------------------------------------
(* What a step of thread t on file f leaves alone: the other threads and   *)
(* files.                                                                  *)
StepBy(ch, ch2, t, f) ==
    /\ fat_bits' = fat_bits /\ failed \subseteq failed'
    /\ \A u \in Threads : u # t => pc'[u] = pc[u] /\ loc'[u] = loc[u] /\ ch2[u] = ch[u]
    /\ \A g \in Files : g # f => ch2[g] = ch[g] /\ msdos_i'[g] = msdos_i[g] /\ cache'[g] = cache[g]
    /\ pc[t] # "idle" => loc[t].f = f
    /\ pc'[t] # "idle" => loc'[t].f = f

LEMMA IdleGoal == \A l : Goal("idle", l) = "idle"
BY DEF Goal, GetPcs

LEMMA FrameFlags ==
    ASSUME NEW ch, NEW ch2, NEW t \in Threads, NEW f \in Files, StepBy(ch, ch2, t, f),
           NEW g \in Files, g # f
    PROVE  /\ Unmapping(g)' <=> Unmapping(g)
           /\ Cutting(g)' <=> Cutting(g)
           /\ Growing(g)' <=> Growing(g)
           /\ Reserving(g)' = Reserving(g)
<1>1. ASSUME NEW u \in Threads, pc[u] # "idle", loc[u].f = g
      PROVE  u # t /\ pc'[u] = pc[u] /\ loc'[u] = loc[u]
    BY <1>1 DEF StepBy
<1>2. ASSUME NEW u \in Threads, pc'[u] # "idle", loc'[u].f = g
      PROVE  u # t /\ pc'[u] = pc[u] /\ loc'[u] = loc[u]
    BY <1>2 DEF StepBy
<1>3. Unmapping(g)' <=> Unmapping(g)
    BY <1>1, <1>2 DEF Unmapping
<1>4. Cutting(g)' <=> Cutting(g)
  <2>1. \A u \in Threads : Goal(pc[u], loc[u]) = "cut" => pc[u] # "idle"  BY IdleGoal
  <2>2. \A u \in Threads : Goal(pc'[u], loc'[u]) = "cut" => pc'[u] # "idle"  BY IdleGoal
  <2> QED BY <1>1, <1>2, <2>1, <2>2 DEF Cutting
<1>5. Growing(g)' <=> Growing(g)
    BY <1>1, <1>2 DEF Growing, LinkedPcs
<1>6. Reserving(g)' = Reserving(g)
    BY <1>1, <1>2 DEF Reserving
<1> QED BY <1>3, <1>4, <1>5, <1>6

LEMMA Damage ==
    ASSUME failed \subseteq failed'
    PROVE  /\ Undamaged' => Undamaged
           /\ failed' \cap {"free_read", "free_mirror", "cut_mirror"} = {}
              => failed \cap {"free_read", "free_mirror", "cut_mirror"} = {}
BY DEF Undamaged

(* The copy of an entry that another thread keeps, when the chain or the   *)
(* number of invalidations changes.                                        *)
LEMMA OtherCid ==
    ASSUME NEW p, NEW l, NEW s, NEW id \in Nat, NEW lim, NEW size,
           NEW s2, NEW id2, NEW lim2, NEW size2,
           CidOK(p, l, s, id, lim, size), id2 = id \/ id2 = id + 1,
           (/\ p \in {"walk", "add", "add_alloc"} /\ l.cid.f # -1
            /\ RunOK(s, l.cid) /\ Within(l.cid, lim, size)
            /\ id2 # id => l.cid.f + l.cid.n <= l.fclus)
             => RunOK(s2, l.cid) /\ Within(l.cid, lim2, size2)
    PROVE  CidOK(p, l, s2, id2, lim2, size2)
<1> SUFFICES ASSUME p \in {"walk", "add", "add_alloc"} PROVE CidOK(p, l, s2, id2, lim2, size2)
    BY DEF CidOK
<1>1. /\ l.cid.id \in 0 .. id /\ l.cid.n >= 0
      /\ l.cid.f # -1 /\ l.cid.id \in {FAT_CACHE_VALID, id} => RunOK(s, l.cid) /\ Within(l.cid, lim, size)
      /\ l.cid.f # -1 /\ l.cid.id = FAT_CACHE_VALID => l.cid.f + l.cid.n <= l.fclus
      /\ l.cid.f = -1 => l.cid.d = -1 /\ l.cid.n = 0
      /\ p = "walk" /\ l.cid.f # -1 => l.cid.f + l.cid.n = l.fclus /\ l.cid.d + l.cid.n = l.dclus
      /\ p = "add_alloc" => l.cid.f # -1 /\ l.cid.id = FAT_CACHE_VALID
    BY DEF CidOK
<1>2. l.cid.id \in 0 .. id2  BY <1>1
<1>3. ASSUME l.cid.f # -1, l.cid.id \in {FAT_CACHE_VALID, id2}
      PROVE  RunOK(s2, l.cid) /\ Within(l.cid, lim2, size2)
  <2>1. l.cid.id \in {FAT_CACHE_VALID, id} /\ (id2 # id => l.cid.id = FAT_CACHE_VALID)  BY <1>1, <1>3
  <2> QED BY <1>1, <1>3, <2>1
<1> QED BY <1>1, <1>2, <1>3 DEF CidOK

(* What holds of another thread is kept when it is kept on the file f.     *)
LEMMA OtherAt ==
    ASSUME NEW ch, NEW ch2, NEW t \in Threads, NEW f \in Files, NEW u \in Threads, u # t,
           SysOK, ThreadInv(ch), CidInv(ch), FileInv(ch), StepBy(ch, ch2, t, f),
           pc[u] # "idle" /\ loc[u].f = f
             => ThreadAt(ch2, u, msdos_i[f])' /\ CidAt(ch2, u, msdos_i[f])'
    PROVE  ThreadAt(ch2, u, msdos_i[loc[u].f])' /\ CidAt(ch2, u, msdos_i[loc[u].f])'
<1>1. ThreadAt(ch, u, msdos_i[loc[u].f]) /\ CidAt(ch, u, msdos_i[loc[u].f])
    BY DEF ThreadInv, CidInv
<1>2. pc'[u] = pc[u] /\ loc'[u] = loc[u] /\ ch2[u] = ch[u]  BY DEF StepBy
<1>3. CASE pc[u] = "idle"
  <2>1. loc[u] = NoLoc /\ ch[u] = <<>>  BY <1>1, <1>3 DEF ThreadAt, ThreadOK
  <2> QED BY <1>2, <1>3, <2>1 DEF ThreadAt, ThreadOK, CidAt, CidOK
<1>4. CASE pc[u] # "idle" /\ loc[u].f = f  BY <1>2, <1>4
<1>5. CASE pc[u] # "idle" /\ loc[u].f # f
  <2>1. PICK g \in Files : g = loc[u].f /\ g # f
      BY <1>1, <1>5 DEF ThreadAt, ThreadOK, LocType
  <2>2. PICK m : m = msdos_i[g] /\ msdos_i'[g] = m /\ ch2[g] = ch[g]  BY <2>1 DEF StepBy
  <2>3. /\ Unmapping(g)' <=> Unmapping(g)
        /\ Cutting(g)' <=> Cutting(g)
      BY <2>1, FrameFlags
  <2>4. Undamaged' => Undamaged  BY Damage DEF StepBy
  <2>5. m.cache_valid_id \in Nat  BY <2>2 DEF FileInv, FileOK, InodeType
  <2>6. ThreadAt(ch2, u, msdos_i[loc[u].f])'
    <3>1. ThreadOK(u, pc[u], loc[u], ch[u], ch[g], m.i_size, m.mmu_private, m.i_blocks,
                   m.i_mutex, Undamaged, Unmapping(g))
        BY <1>1, <2>1, <2>2 DEF ThreadAt
    <3>2. ReaderOK(loc[u], m.i_size, Unmapping(g)) => ReaderOK(loc[u], m.i_size, Unmapping(g)')
        BY <2>3 DEF ReaderOK
    <3>3. ThreadOK(u, pc[u], loc[u], ch[u], ch[g], m.i_size, m.mmu_private, m.i_blocks,
                   m.i_mutex, Undamaged', Unmapping(g)')
        BY <2>4, <3>1, <3>2, OtherThread
    <3> QED BY <1>2, <2>1, <2>2, <3>3 DEF ThreadAt
  <2>7. CidAt(ch2, u, msdos_i[loc[u].f])'
    <3>1. CidOK(pc[u], loc[u], ch[g], m.cache_valid_id, Cutting(g), m.i_size)
        BY <1>1, <2>1, <2>2 DEF CidAt
    <3>2. CidOK(pc[u], loc[u], ch[g], m.cache_valid_id, Cutting(g)', m.i_size)
        BY <2>3, <2>5, <3>1, OtherCid DEF Within
    <3> QED BY <1>2, <2>1, <2>2, <3>2 DEF CidAt
  <2> QED BY <2>6, <2>7
<1> QED BY <1>3, <1>4, <1>5

(* A step keeps the invariant when it keeps each part on its own file.     *)
LEMMA StepInv ==
    ASSUME NEW ch, NEW ch2, NEW t \in Threads, NEW f \in Files,
           InvOf(ch), StepBy(ch, ch2, t, f), SysOK', ChainInv(ch2)', FileOK(ch2[f], msdos_i'[f]),
           Undamaged' /\ ~Growing(f)' => msdos_i'[f].i_blocks = Len(ch2[f]),
           ThreadAt(ch2, t, msdos_i[loc[t].f])', CidAt(ch2, t, msdos_i[loc[t].f])',
           \A u \in Threads : u # t /\ pc[u] # "idle" /\ loc[u].f = f
             => ThreadAt(ch2, u, msdos_i[f])' /\ CidAt(ch2, u, msdos_i[f])',
           \A k \in 1 .. Len(cache'[f]) :
                RunOK(ch2[f], cache'[f][k]) /\ Within(cache'[f][k], Cutting(f)', msdos_i'[f].i_size),
           msdos_i'[f].nr_caches = Len(cache'[f]) + Cardinality(Reserving(f)'),
           msdos_i'[f].nr_caches <= FAT_MAX_CACHE,
           ErrorInv', CountInv', MirrorInv(ch2)'
    PROVE  InvOf(ch2)'
<1>1. /\ SysOK /\ FileInv(ch) /\ ThreadInv(ch) /\ CacheInv(ch) /\ CidInv(ch) /\ PlacesInv
    BY DEF InvOf
<1>2. FileInv(ch2)'
  <2> SUFFICES ASSUME NEW g \in Files
               PROVE  /\ FileOK(ch2[g], msdos_i'[g])
                      /\ Undamaged' /\ ~Growing(g)' => msdos_i'[g].i_blocks = Len(ch2[g])
      BY DEF FileInv
  <2>1. CASE g = f  BY <2>1
  <2>2. CASE g # f
    <3>1. msdos_i'[g] = msdos_i[g] /\ ch2[g] = ch[g] /\ (Undamaged' => Undamaged)
        BY <2>2, Damage DEF StepBy
    <3>2. Growing(g)' <=> Growing(g)  BY <2>2, FrameFlags
    <3> QED BY <1>1, <3>1, <3>2 DEF FileInv
  <2> QED BY <2>1, <2>2
<1>3. ASSUME NEW u \in Threads
      PROVE  ThreadAt(ch2, u, msdos_i[loc[u].f])' /\ CidAt(ch2, u, msdos_i[loc[u].f])'
    BY <1>1, OtherAt
<1>4. CacheInv(ch2)'
  <2> SUFFICES ASSUME NEW g \in Files, NEW k \in 1 .. Len(cache'[g])
               PROVE  RunOK(ch2[g], cache'[g][k]) /\ Within(cache'[g][k], Cutting(g)', msdos_i'[g].i_size)
      BY DEF CacheInv
  <2>1. CASE g = f  BY <2>1
  <2>2. CASE g # f
    <3>1. msdos_i'[g] = msdos_i[g] /\ ch2[g] = ch[g] /\ cache'[g] = cache[g]  BY <2>2 DEF StepBy
    <3>2. Cutting(g)' <=> Cutting(g)  BY <2>2, FrameFlags
    <3>3. RunOK(ch[g], cache[g][k]) /\ Within(cache[g][k], Cutting(g), msdos_i[g].i_size)
        BY <1>1, <3>1 DEF CacheInv
    <3> QED BY <3>1, <3>2, <3>3 DEF Within
  <2> QED BY <2>1, <2>2
<1>5. PlacesInv'
  <2> SUFFICES ASSUME NEW g \in Files
               PROVE  /\ msdos_i'[g].nr_caches = Len(cache'[g]) + Cardinality(Reserving(g)')
                      /\ msdos_i'[g].nr_caches <= FAT_MAX_CACHE
      BY DEF PlacesInv
  <2>1. CASE g = f  BY <2>1
  <2>2. CASE g # f
    <3>1. msdos_i'[g] = msdos_i[g] /\ cache'[g] = cache[g]  BY <2>2 DEF StepBy
    <3>2. Reserving(g)' = Reserving(g)  BY <2>2, FrameFlags
    <3> QED BY <1>1, <3>1, <3>2 DEF PlacesInv
  <2> QED BY <2>1, <2>2
<1>6. ThreadInv(ch2)' /\ CidInv(ch2)'  BY <1>3 DEF ThreadInv, CidInv
<1> QED BY <1>2, <1>4, <1>5, <1>6 DEF InvOf

(* Only the holder of the mutex of a file writes or truncates it.          *)
LEMMA Holder ==
    ASSUME NEW ch, ThreadInv(ch), NEW u \in Threads, pc[u] # "idle"
    PROVE  /\ loc[u] \in LocType /\ loc[u].f \in Files
           /\ \/ loc[u].op \in {"write", "truncate"} /\ msdos_i[loc[u].f].i_mutex = u
              \/ loc[u].op \in {"read", "bmap"} /\ Goal(pc[u], loc[u]) = "bmap_cluster"
<1>1. ThreadAt(ch, u, msdos_i[loc[u].f])  BY DEF ThreadInv
<1>2. loc[u] \in LocType /\ OpOK(u, pc[u], loc[u], msdos_i[loc[u].f].i_mutex)
    BY <1>1 DEF ThreadAt, ThreadOK
<1> QED BY <1>2 DEF LocType, OpOK
LEMMA HolderFlags ==
    ASSUME NEW ch, ThreadInv(ch), NEW t \in Threads, NEW f \in Files,
           msdos_i[f].i_mutex \in {t, None}
    PROVE  /\ Unmapping(f) <=> pc[t] = "unmap" /\ loc[t].f = f
           /\ Cutting(f) <=> Goal(pc[t], loc[t]) = "cut" /\ loc[t].f = f
           /\ Growing(f) <=> pc[t] \in LinkedPcs \cup {"cut_mirror"} /\ loc[t].f = f
           /\ \A u \in Threads : u # t /\ pc[u] # "idle" /\ loc[u].f = f =>
                loc[u].op \in {"read", "bmap"} /\ Goal(pc[u], loc[u]) = "bmap_cluster"
<1>1. ASSUME NEW u \in Threads, u # t, pc[u] # "idle", loc[u].f = f
      PROVE  loc[u].op \in {"read", "bmap"} /\ Goal(pc[u], loc[u]) = "bmap_cluster"
  <2>1. u # None  BY ThreadAssumption
  <2> QED BY <1>1, <2>1, Holder
<1>2. \A u \in Threads : /\ pc[u] = "unmap" => pc[u] # "idle" /\ Goal(pc[u], loc[u]) # "bmap_cluster"
                         /\ Goal(pc[u], loc[u]) = "cut" => pc[u] # "idle"
                         /\ pc[u] \in LinkedPcs \cup {"cut_mirror"} =>
                                pc[u] # "idle" /\ Goal(pc[u], loc[u]) # "bmap_cluster"
    BY DEF Goal, GetPcs, LinkedPcs
<1>3. Unmapping(f) <=> pc[t] = "unmap" /\ loc[t].f = f  BY <1>1, <1>2 DEF Unmapping
<1>4. Cutting(f) <=> Goal(pc[t], loc[t]) = "cut" /\ loc[t].f = f  BY <1>1, <1>2 DEF Cutting
<1>5. Growing(f) <=> pc[t] \in LinkedPcs \cup {"cut_mirror"} /\ loc[t].f = f
    BY <1>1, <1>2 DEF Growing
<1> QED BY <1>1, <1>3, <1>4, <1>5
(* The same after the step, when the mutex was held before it.             *)
LEMMA HolderFlagsAfter ==
    ASSUME NEW ch, NEW ch2, ThreadInv(ch), NEW t \in Threads, NEW f \in Files,
           StepBy(ch, ch2, t, f), msdos_i[f].i_mutex \in {t, None}
    PROVE  /\ Unmapping(f)' <=> pc'[t] = "unmap"
           /\ Cutting(f)' <=> Goal(pc'[t], loc'[t]) = "cut"
           /\ Growing(f)' <=> pc'[t] \in LinkedPcs \cup {"cut_mirror"}
<1>1. ASSUME NEW u \in Threads, u # t, pc'[u] # "idle", loc'[u].f = f
      PROVE  Goal(pc'[u], loc'[u]) = "bmap_cluster"
  <2>1. pc'[u] = pc[u] /\ loc'[u] = loc[u]  BY <1>1 DEF StepBy
  <2> QED BY <1>1, <2>1, HolderFlags
<1>2. \A u \in Threads : /\ pc'[u] = "unmap" => pc'[u] # "idle" /\ Goal(pc'[u], loc'[u]) # "bmap_cluster"
                         /\ Goal(pc'[u], loc'[u]) = "cut" => pc'[u] # "idle"
                         /\ pc'[u] \in LinkedPcs \cup {"cut_mirror"} =>
                                pc'[u] # "idle" /\ Goal(pc'[u], loc'[u]) # "bmap_cluster"
    BY DEF Goal, GetPcs, LinkedPcs
<1>3. pc'[t] # "idle" => loc'[t].f = f  BY DEF StepBy
<1>4. Unmapping(f)' <=> pc'[t] = "unmap"  BY <1>1, <1>2, <1>3 DEF Unmapping
<1>5. Cutting(f)' <=> Goal(pc'[t], loc'[t]) = "cut"  BY <1>1, <1>2, <1>3 DEF Cutting
<1>6. Growing(f)' <=> pc'[t] \in LinkedPcs \cup {"cut_mirror"}
    BY <1>1, <1>2, <1>3 DEF Growing
<1> QED BY <1>4, <1>5, <1>6

(* Another thread of the same file, when the step leaves the file as it    *)
(* was, and when the step changes it under the mutex.                      *)
SameFile(m, m2) ==
    /\ m2.i_start = m.i_start /\ m2.i_size = m.i_size /\ m2.mmu_private = m.mmu_private
    /\ m2.i_blocks = m.i_blocks /\ m2.i_mutex = m.i_mutex /\ m2.cache_valid_id = m.cache_valid_id
LEMMA OthersSame ==
    ASSUME NEW ch, NEW ch2, NEW t \in Threads, NEW f \in Files, NEW u \in Threads, u # t,
           ThreadInv(ch), CidInv(ch), FileInv(ch), StepBy(ch, ch2, t, f), loc[u].f = f,
           ch2[f] = ch[f], SameFile(msdos_i[f], msdos_i'[f]),
           Cutting(f)' => Cutting(f), Unmapping(f) => Unmapping(f)'
    PROVE  ThreadAt(ch2, u, msdos_i[f])' /\ CidAt(ch2, u, msdos_i[f])'
<1>1. ThreadAt(ch, u, msdos_i[f]) /\ CidAt(ch, u, msdos_i[f])  BY DEF ThreadInv, CidInv
<1>2. pc'[u] = pc[u] /\ loc'[u] = loc[u] /\ ch2[u] = ch[u]  BY DEF StepBy
<1>3. Undamaged' => Undamaged  BY Damage DEF StepBy
<1>4. PICK m : m = msdos_i[f]  OBVIOUS
<1>5. m.cache_valid_id \in Nat  BY <1>4 DEF FileInv, FileOK, InodeType
<1>6. ThreadAt(ch2, u, msdos_i[f])'
  <2>1. ThreadOK(u, pc[u], loc[u], ch[u], ch[f], m.i_size, m.mmu_private, m.i_blocks,
                 m.i_mutex, Undamaged, Unmapping(f))
      BY <1>1, <1>4 DEF ThreadAt
  <2>2. ReaderOK(loc[u], m.i_size, Unmapping(f)) => ReaderOK(loc[u], m.i_size, Unmapping(f)')
      BY DEF ReaderOK
  <2>3. ThreadOK(u, pc[u], loc[u], ch[u], ch[f], m.i_size, m.mmu_private, m.i_blocks,
                 m.i_mutex, Undamaged', Unmapping(f)')
      BY <1>3, <2>1, <2>2, OtherThread
  <2> QED BY <1>2, <1>4, <2>3 DEF ThreadAt, SameFile
<1>7. CidAt(ch2, u, msdos_i[f])'
  <2>1. CidOK(pc[u], loc[u], ch[f], m.cache_valid_id, Cutting(f), m.i_size)  BY <1>1, <1>4 DEF CidAt
  <2>2. CidOK(pc[u], loc[u], ch[f], m.cache_valid_id, Cutting(f)', m.i_size)
      BY <1>5, <2>1, OtherCid DEF Within
  <2> QED BY <1>2, <1>4, <2>2 DEF CidAt, SameFile
<1> QED BY <1>6, <1>7
LEMMA OthersHeld ==
    ASSUME NEW ch, NEW ch2, NEW t \in Threads, NEW f \in Files, NEW u \in Threads, u # t,
           ThreadInv(ch), CidInv(ch), FileInv(ch), StepBy(ch, ch2, t, f),
           pc[u] # "idle", loc[u].f = f,
           msdos_i[f].i_mutex \in {t, None},
           msdos_i'[f].cache_valid_id \in {msdos_i[f].cache_valid_id, msdos_i[f].cache_valid_id + 1},
           (/\ loc[u].op \in {"read", "bmap"} /\ loc[u].tgt < Len(ch[f])
            /\ ReaderOK(loc[u], msdos_i[f].i_size, Unmapping(f)))
           => /\ loc[u].tgt < Len(ch2[f])
              /\ \A i \in 0 .. loc[u].tgt : ch2[f][i + 1] = ch[f][i + 1]
              /\ ReaderOK(loc[u], msdos_i'[f].i_size, Unmapping(f)'),
           (/\ loc[u].op \in {"read", "bmap"}
            /\ ReaderOK(loc[u], msdos_i[f].i_size, Unmapping(f))
            /\ RunOK(ch[f], loc[u].cid) /\ Within(loc[u].cid, Cutting(f), msdos_i[f].i_size)
            /\ msdos_i'[f].cache_valid_id # msdos_i[f].cache_valid_id
                => loc[u].cid.f + loc[u].cid.n <= loc[u].tgt)
           => RunOK(ch2[f], loc[u].cid) /\ Within(loc[u].cid, Cutting(f)', msdos_i'[f].i_size)
    PROVE  ThreadAt(ch2, u, msdos_i[f])' /\ CidAt(ch2, u, msdos_i[f])'
<1>1. ThreadAt(ch, u, msdos_i[f]) /\ CidAt(ch, u, msdos_i[f])  BY DEF ThreadInv, CidInv
<1>2. pc'[u] = pc[u] /\ loc'[u] = loc[u] /\ ch2[u] = ch[u]  BY DEF StepBy
<1>3. Undamaged' => Undamaged  BY Damage DEF StepBy
<1>4. PICK m, m2 : m = msdos_i[f] /\ m2 = msdos_i'[f]  OBVIOUS
<1>5. m.cache_valid_id \in Nat  BY <1>4 DEF FileInv, FileOK, InodeType
<1>6. loc[u] \in LocType /\ loc[u].op \in {"read", "bmap"} /\ Goal(pc[u], loc[u]) = "bmap_cluster"
    BY Holder, HolderFlags
<1>7. loc[u].op \notin {"write", "truncate"}  BY <1>6
<1>8. ThreadOK(u, pc[u], loc[u], ch[u], ch[f], m.i_size, m.mmu_private, m.i_blocks,
                 m.i_mutex, Undamaged, Unmapping(f))
    BY <1>1, <1>4 DEF ThreadAt
<1>9. ThreadAt(ch2, u, msdos_i[f])'
  <2>1. ThreadOK(u, pc[u], loc[u], ch[u], ch2[f], m2.i_size, m2.mmu_private, m2.i_blocks,
                 m2.i_mutex, Undamaged', Unmapping(f)')
      BY <1>3, <1>4, <1>6, <1>7, <1>8, OtherThread
  <2> QED BY <1>2, <1>4, <2>1 DEF ThreadAt
<1>10. CidAt(ch2, u, msdos_i[f])'
  <2>1. CidOK(pc[u], loc[u], ch[f], m.cache_valid_id, Cutting(f), m.i_size)  BY <1>1, <1>4 DEF CidAt
  <2>2. PosOK(pc[u], loc[u], ch[f]) /\ ReaderOK(loc[u], m.i_size, Unmapping(f))
      BY <1>8 DEF ThreadOK
  <2>3. pc[u] \in {"walk", "add", "add_alloc"} => loc[u].fclus <= loc[u].tgt
      BY <2>2 DEF PosOK, GetPcs
  <2>4. pc[u] \in {"walk", "add", "add_alloc"} /\ loc[u].cid.f + loc[u].cid.n <= loc[u].fclus
        => loc[u].cid.f + loc[u].cid.n <= loc[u].tgt
      BY <1>6, <2>3 DEF LocType, CidType
  <2>5. m2.cache_valid_id = m.cache_valid_id \/ m2.cache_valid_id = m.cache_valid_id + 1
      BY <1>4
  <2>6. CidOK(pc[u], loc[u], ch2[f], m2.cache_valid_id, Cutting(f)', m2.i_size)
      BY <1>4, <1>5, <1>6, <2>1, <2>2, <2>4, <2>5, OtherCid
  <2> QED BY <1>2, <1>4, <2>6 DEF CidAt
<1> QED BY <1>9, <1>10
LEMMA ReservingSame ==
    ASSUME NEW ch, NEW ch2, NEW t \in Threads, NEW f \in Files, StepBy(ch, ch2, t, f),
           pc[t] = "add_alloc" <=> pc'[t] = "add_alloc"
    PROVE  Reserving(f)' = Reserving(f)
<1>1. \A u \in Threads : u # t => pc'[u] = pc[u] /\ loc'[u] = loc[u]  BY DEF StepBy
<1>2. pc[t] = "add_alloc" => loc[t].f = f /\ loc'[t].f = f  BY DEF StepBy
<1> QED BY <1>1, <1>2 DEF Reserving

(* A step that leaves the FAT, the chains and the inode as they are, but   *)
(* for its cache.                                                          *)
MirrorKept(ch, t) ==
    fat' = fat /\ mirror' = mirror
    /\ Pending(fat_bits, pc[t], loc[t], ch[t]) \subseteq Pending(fat_bits, pc'[t], loc'[t], ch[t])
LEMMA MirrorSame ==
    ASSUME NEW ch, NEW t \in Threads, NEW f, StepBy(ch, ch, t, f), MirrorInv(ch), MirrorKept(ch, t)
    PROVE  MirrorInv(ch)'
<1> SUFFICES ASSUME failed' \cap {"free_read", "free_mirror", "cut_mirror"} = {},
                    NEW o \in Offsets', fat'[o] # mirror'[o]
             PROVE  \E u \in Threads : o \div s_blocksize \in Pending(fat_bits', pc'[u], loc'[u], ch[u])
    BY DEF MirrorInv
<1>1. o \in Offsets /\ fat_bits' = fat_bits  BY DEF Offsets, StepBy
<1>2. PICK u \in Threads : o \div s_blocksize \in Pending(fat_bits, pc[u], loc[u], ch[u])
    BY <1>1, Damage DEF MirrorInv, MirrorKept, StepBy
<1>3. CASE u = t  BY <1>1, <1>2, <1>3 DEF MirrorKept
<1>4. CASE u # t  BY <1>1, <1>2, <1>4 DEF StepBy
<1> QED BY <1>3, <1>4
Local(t, f) ==
    /\ UNCHANGED <<fat, free_clusters, free_clus_valid>>
    /\ SameFile(msdos_i[f], msdos_i'[f]) /\ msdos_i'[f] \in InodeType
    /\ Goal(pc'[t], loc'[t]) = "cut" => Goal(pc[t], loc[t]) = "cut"
    /\ pc[t] # "unmap"
    /\ pc[t] \in LinkedPcs \cup {"cut_mirror"} => pc'[t] \in LinkedPcs \cup {"cut_mirror"}
LEMMA LocalInv ==
    ASSUME NEW ch, NEW t \in Threads, NEW f \in Files,
           InvOf(ch), StepBy(ch, ch, t, f), SysOK', Local(t, f), MirrorKept(ch, t),
           ThreadAt(ch, t, msdos_i[loc[t].f])', CidAt(ch, t, msdos_i[loc[t].f])',
           \A k \in 1 .. Len(cache'[f]) :
                RunOK(ch[f], cache'[f][k]) /\ Within(cache'[f][k], Cutting(f), msdos_i[f].i_size),
           msdos_i'[f].nr_caches = Len(cache'[f]) + Cardinality(Reserving(f)'),
           msdos_i'[f].nr_caches <= FAT_MAX_CACHE,
           Undamaged' => ~fs_error'
    PROVE  InvOf(ch)'
<1>1. /\ SysOK /\ ChainInv(ch) /\ FileInv(ch) /\ ThreadInv(ch) /\ CacheInv(ch) /\ CidInv(ch)
      /\ PlacesInv /\ CountInv /\ MirrorInv(ch)
    BY DEF InvOf
<1>2. fat_bits' = fat_bits /\ fat' = fat /\ (Undamaged' => Undamaged)  BY Damage DEF StepBy, Local
<1>3. ChainInv(ch)'  BY <1>1, <1>2 DEF ChainInv
<1>4. FileOK(ch[f], msdos_i'[f])  BY <1>1 DEF FileInv, FileOK, Local, SameFile
<1>5. Cutting(f)' => Cutting(f)
  <2>1. ASSUME NEW u \in Threads, Goal(pc'[u], loc'[u]) = "cut", loc'[u].f = f
        PROVE  Goal(pc[u], loc[u]) = "cut" /\ loc[u].f = f
    <3>1. CASE u # t  BY <2>1, <3>1 DEF StepBy
    <3>2. CASE u = t
      <4>1. Goal(pc[t], loc[t]) = "cut" /\ pc[t] # "idle"  BY <2>1, <3>2 DEF Local, Goal, GetPcs
      <4> QED BY <3>2, <4>1 DEF StepBy
    <3> QED BY <3>1, <3>2
  <2> QED BY <2>1 DEF Cutting
<1>6. Unmapping(f) => Unmapping(f)'
  <2>1. \A u \in Threads : pc[u] = "unmap" => pc'[u] = pc[u] /\ loc'[u] = loc[u]
      BY DEF Local, StepBy
  <2> QED BY <2>1 DEF Unmapping
<1>7. Growing(f) => Growing(f)'
  <2>1. ASSUME NEW u \in Threads, pc[u] \in LinkedPcs \cup {"cut_mirror"}, loc[u].f = f
        PROVE  pc'[u] \in LinkedPcs \cup {"cut_mirror"} /\ loc'[u].f = f
    <3>1. CASE u # t  BY <2>1, <3>1 DEF StepBy
    <3>2. CASE u = t
      <4>1. pc'[t] \in LinkedPcs \cup {"cut_mirror"}  BY <2>1, <3>2 DEF Local
      <4>2. pc'[t] # "idle"  BY <4>1 DEF LinkedPcs
      <4> QED BY <3>2, <4>1, <4>2 DEF StepBy
    <3> QED BY <3>1, <3>2
  <2> QED BY <2>1 DEF Growing
<1>8. Undamaged' /\ ~Growing(f)' => msdos_i'[f].i_blocks = Len(ch[f])
    BY <1>1, <1>2, <1>7 DEF FileInv, Local, SameFile
<1>9. \A u \in Threads : u # t /\ pc[u] # "idle" /\ loc[u].f = f
             => ThreadAt(ch, u, msdos_i[f])' /\ CidAt(ch, u, msdos_i[f])'
    BY <1>1, <1>5, <1>6, OthersSame DEF Local
<1>10. \A k \in 1 .. Len(cache'[f]) :
            RunOK(ch[f], cache'[f][k]) /\ Within(cache'[f][k], Cutting(f)', msdos_i'[f].i_size)
    BY <1>5 DEF Local, SameFile, Within
<1>11. CountInv'  BY <1>1, <1>2 DEF CountInv, Local
<1>12. ErrorInv'  BY DEF ErrorInv
<1>13. MirrorInv(ch)'  BY <1>1, MirrorSame
<1> QED BY <1>3, <1>4, <1>8, <1>9, <1>10, <1>11, <1>12, <1>13, StepInv

(* A step under the mutex of the file: its cache stays as it is, or is     *)
(* emptied.                                                                *)
Kept(m, m2, c, c2) ==
    m2.cache_valid_id = m.cache_valid_id /\ m2.nr_caches = m.nr_caches /\ c2 = c
Flushed(m, m2, c, c2) ==
    m2.cache_valid_id = m.cache_valid_id + 1 /\ m2.nr_caches = m.nr_caches - Len(c) /\ c2 = <<>>
Held(ch, ch2, t, f) ==
    /\ msdos_i[f].i_mutex \in {t, None} /\ pc[t] # "add_alloc" /\ pc'[t] # "add_alloc"
    /\ \/ Kept(msdos_i[f], msdos_i'[f], cache[f], cache'[f])
       \/ Flushed(msdos_i[f], msdos_i'[f], cache[f], cache'[f])
    /\ \A u \in Threads : u # t /\ pc[u] # "idle" /\ loc[u].f = f
            /\ loc[u] \in LocType /\ loc[u].op \in {"read", "bmap"} /\ loc[u].tgt < Len(ch[f])
            /\ ReaderOK(loc[u], msdos_i[f].i_size, Unmapping(f))
         => /\ loc[u].tgt < Len(ch2[f])
            /\ \A i \in 0 .. loc[u].tgt : ch2[f][i + 1] = ch[f][i + 1]
            /\ ReaderOK(loc[u], msdos_i'[f].i_size, Unmapping(f)')
    /\ \A e : /\ RunOK(ch[f], e) /\ Within(e, Cutting(f), msdos_i[f].i_size)
              /\ Flushed(msdos_i[f], msdos_i'[f], cache[f], cache'[f])
                    => Unmapping(f) \/ e.f + e.n < msdos_i[f].i_size
           => RunOK(ch2[f], e) /\ Within(e, Cutting(f)', msdos_i'[f].i_size)
LEMMA HeldInv ==
    ASSUME NEW ch, NEW ch2, NEW t \in Threads, NEW f \in Files,
           InvOf(ch), StepBy(ch, ch2, t, f), Held(ch, ch2, t, f),
           SysOK', ChainInv(ch2)', FileOK(ch2[f], msdos_i'[f]),
           Undamaged' /\ ~Growing(f)' => msdos_i'[f].i_blocks = Len(ch2[f]),
           ThreadAt(ch2, t, msdos_i[loc[t].f])', CidAt(ch2, t, msdos_i[loc[t].f])',
           ErrorInv', CountInv', MirrorInv(ch2)'
    PROVE  InvOf(ch2)'
<1>1. /\ SysOK /\ ChainInv(ch) /\ FileInv(ch) /\ ThreadInv(ch) /\ CacheInv(ch) /\ CidInv(ch)
      /\ PlacesInv
    BY DEF InvOf
<1>2. PICK m, m2, c, c2 : m = msdos_i[f] /\ m2 = msdos_i'[f] /\ c = cache[f] /\ c2 = cache'[f]
    OBVIOUS
<1>3. m.cache_valid_id \in Nat /\ m.i_size \in Nat /\ m.nr_caches \in Int /\ Len(c) \in Nat
      /\ m2.nr_caches \in Int
  <2>1. c \in Seq(EntryType)  BY <1>1, <1>2 DEF SysOK
  <2>2. m \in InodeType /\ m2 \in InodeType  BY <1>1, <1>2 DEF FileInv, FileOK
  <2> QED BY <2>1, <2>2 DEF InodeType
<1>4. m2.cache_valid_id # m.cache_valid_id => Flushed(m, m2, c, c2)
    BY <1>2 DEF Held, Kept
<1>5. ASSUME NEW u \in Threads, u # t, pc[u] # "idle", loc[u].f = f
      PROVE  ThreadAt(ch2, u, msdos_i[f])' /\ CidAt(ch2, u, msdos_i[f])'
  <2>1. loc[u] \in LocType  BY <1>1, <1>5, Holder
  <2>2. m2.cache_valid_id \in {m.cache_valid_id, m.cache_valid_id + 1}  BY <1>2 DEF Held, Kept, Flushed
  <2>3. PICK l : l = loc[u]  OBVIOUS
  <2>4. ASSUME l.op \in {"read", "bmap"}, ReaderOK(l, m.i_size, Unmapping(f)),
               RunOK(ch[f], l.cid), Within(l.cid, Cutting(f), m.i_size),
               m2.cache_valid_id # m.cache_valid_id => l.cid.f + l.cid.n <= l.tgt
        PROVE  RunOK(ch2[f], l.cid) /\ Within(l.cid, Cutting(f)', m2.i_size)
    <3>1. l.tgt \in Nat /\ l.cid.f \in Int /\ l.cid.n \in Int  BY <2>1, <2>3 DEF LocType, CidType
    <3>2. Flushed(m, m2, c, c2) => m2.cache_valid_id # m.cache_valid_id  BY <1>3 DEF Flushed
    <3>3. Flushed(m, m2, c, c2) => Unmapping(f) \/ l.cid.f + l.cid.n < m.i_size
        BY <1>3, <2>4, <3>1, <3>2 DEF ReaderOK
    <3> QED BY <1>2, <2>4, <3>3 DEF Held
  <2>5. ASSUME l.op \in {"read", "bmap"}, l.tgt < Len(ch[f]), ReaderOK(l, m.i_size, Unmapping(f))
        PROVE  /\ l.tgt < Len(ch2[f])
               /\ \A i \in 0 .. l.tgt : ch2[f][i + 1] = ch[f][i + 1]
               /\ ReaderOK(l, m2.i_size, Unmapping(f)')
      BY <1>2, <1>5, <2>1, <2>3, <2>5 DEF Held
  <2>6. msdos_i[f].i_mutex \in {t, None}  BY DEF Held
  <2> QED BY <1>1, <1>2, <1>5, <2>2, <2>3, <2>4, <2>5, <2>6, OthersHeld
<1>6. ASSUME NEW k \in 1 .. Len(c2)
      PROVE  RunOK(ch2[f], c2[k]) /\ Within(c2[k], Cutting(f)', m2.i_size)
  <2>1. ~Flushed(m, m2, c, c2)  BY <1>6 DEF Flushed
  <2>2. c2 = c  BY <1>2, <2>1 DEF Held, Kept
  <2>3. RunOK(ch[f], c[k]) /\ Within(c[k], Cutting(f), m.i_size)  BY <1>1, <1>2, <1>6, <2>2 DEF CacheInv
  <2> QED BY <1>2, <2>1, <2>2, <2>3 DEF Held
<1>7. Reserving(f)' = Reserving(f)  BY ReservingSame DEF Held
<1>8. m2.nr_caches = Len(c2) + Cardinality(Reserving(f)') /\ m2.nr_caches <= FAT_MAX_CACHE
  <2>1. m.nr_caches = Len(c) + Cardinality(Reserving(f)) /\ m.nr_caches <= FAT_MAX_CACHE
      BY <1>1, <1>2 DEF PlacesInv
  <2>2. PICK r \in Nat : r = Cardinality(Reserving(f))
    <3>1. IsFiniteSet(Reserving(f))
      <4>1. Reserving(f) \subseteq Threads  BY DEF Reserving
      <4> QED BY <4>1, ThreadAssumption, FS_Subset
    <3> QED BY <3>1, FS_CardinalityType
  <2>3. CASE Kept(m, m2, c, c2)  BY <1>7, <2>1, <2>3 DEF Kept
  <2>4. CASE Flushed(m, m2, c, c2)
    <3>1. m2.nr_caches = r  BY <1>3, <2>1, <2>2, <2>4 DEF Flushed
    <3>2. Len(c2) = 0  BY <2>4 DEF Flushed
    <3>3. r <= FAT_MAX_CACHE  BY <1>3, <2>1, <2>2, BoundsAssumption
    <3> QED BY <1>7, <2>2, <3>1, <3>2, <3>3
  <2> QED BY <1>2, <2>3, <2>4 DEF Held
<1> QED BY <1>2, <1>5, <1>6, <1>8, StepInv

-----------------------------------------------------------------------------
(* What the loops find and make.                                           *)

(* fat_cache_lookup finds no entry behind the cluster it is asked for.     *)
Searched(c, fclus, h, k) ==
    LET hf == IF h = 0 THEN 0 ELSE c[h].f
    IN IF (h # 0 /\ hf + c[h].n >= fclus) \/ ~(c[k].f <= fclus /\ hf < c[k].f) THEN h ELSE k
LEMMA LookupHit ==
    ASSUME NEW c \in Seq(EntryType), NEW fclus
    PROVE  LET k == fat_cache_lookup(c, fclus)
           IN k \in 0 .. Len(c) /\ (k # 0 => c[k].f <= fclus)
<1> DEFINE n == Len(c)
           V == 0 .. n
           G == [k \in 1 .. n |-> [h \in V |-> Searched(c, fclus, h, k)]]
           hit == CHOOSE g : g = [k \in 0 .. Len(c) |->
                    IF k = 0 THEN 0
                    ELSE IF (g[k - 1] # 0 /\ (IF g[k - 1] = 0 THEN 0 ELSE c[g[k - 1]].f) + c[g[k - 1]].n >= fclus)
                            \/ ~(c[k].f <= fclus /\ (IF g[k - 1] = 0 THEN 0 ELSE c[g[k - 1]].f) < c[k].f)
                         THEN g[k - 1] ELSE k]
<1>1. n \in Nat /\ 0 \in V /\ n \in V  OBVIOUS
<1>2. PICK h \in [0 .. n -> V] : h[0] = 0 /\ \A k \in 1 .. n : h[k] = G[k][h[k - 1]]
  <2>1. G \in [1 .. n -> [V -> V]]
    <3>1. \A k \in 1 .. n : \A x \in V : Searched(c, fclus, x, k) \in V  BY DEF Searched
    <3> HIDE DEF n, V
    <3> QED BY <3>1
  <2> HIDE DEF G, V, n
  <2>2. Defined(n, V, 0, G)  BY <1>1, <2>1, Recursion
  <2> QED BY <2>2 DEF Defined
<1>3. \A k \in 1 .. n : h[k - 1] \in V /\ h[k] = Searched(c, fclus, h[k - 1], k)
  <2> SUFFICES ASSUME NEW k \in 1 .. n PROVE h[k - 1] \in V /\ h[k] = Searched(c, fclus, h[k - 1], k)
      OBVIOUS
  <2>1. k - 1 \in 0 .. n  BY <1>1
  <2>2. h[k - 1] \in V  BY <2>1
  <2> HIDE DEF V, n
  <2> QED BY <1>2, <2>2
<1> HIDE DEF G
<1>4. h = [k \in 0 .. Len(c) |->
                    IF k = 0 THEN 0
                    ELSE IF (h[k - 1] # 0 /\ (IF h[k - 1] = 0 THEN 0 ELSE c[h[k - 1]].f) + c[h[k - 1]].n >= fclus)
                            \/ ~(c[k].f <= fclus /\ (IF h[k - 1] = 0 THEN 0 ELSE c[h[k - 1]].f) < c[k].f)
                         THEN h[k - 1] ELSE k]
  <2>1. h = [k \in 0 .. n |-> h[k]]  BY <1>2
  <2>2. ASSUME NEW k \in 0 .. n
        PROVE  h[k] = IF k = 0 THEN 0 ELSE Searched(c, fclus, h[k - 1], k)
    <3>1. CASE k = 0  BY <1>2, <3>1
    <3>2. CASE k # 0
      <4>1. k \in 1 .. n  BY <1>1, <2>2, <3>2
      <4> QED BY <1>3, <3>2, <4>1
    <3> QED BY <3>1, <3>2
  <2>3. h = [k \in 0 .. n |-> IF k = 0 THEN 0 ELSE Searched(c, fclus, h[k - 1], k)]
    <3> HIDE DEF n
    <3> QED BY <2>1, <2>2
  <2> QED BY <2>3 DEF Searched
<1>5. hit = [k \in 0 .. Len(c) |->
                    IF k = 0 THEN 0
                    ELSE IF (hit[k - 1] # 0 /\ (IF hit[k - 1] = 0 THEN 0 ELSE c[hit[k - 1]].f) + c[hit[k - 1]].n >= fclus)
                            \/ ~(c[k].f <= fclus /\ (IF hit[k - 1] = 0 THEN 0 ELSE c[hit[k - 1]].f) < c[k].f)
                         THEN hit[k - 1] ELSE k]
    BY <1>4
<1>6. fat_cache_lookup(c, fclus) = hit[n]
    BY DEF fat_cache_lookup
<1> HIDE DEF hit
<1>7. hit[0] = 0 /\ \A k \in 1 .. n : hit[k] = Searched(c, fclus, hit[k - 1], k)
  <2>1. hit[0] = 0  BY <1>1, <1>5
  <2>2. ASSUME NEW k \in 1 .. n PROVE hit[k] = Searched(c, fclus, hit[k - 1], k)
    <3>1. k \in 0 .. Len(c) /\ k # 0  BY <1>1
    <3> QED BY <1>5, <3>1 DEF Searched
  <2> QED BY <2>1, <2>2
<1> DEFINE T == {k \in V : hit[k] \in V /\ (hit[k] # 0 => c[hit[k]].f <= fclus)}
<1>8. 0 \in T  BY <1>1, <1>7
<1>9. ASSUME NEW k \in 1 .. n, k - 1 \in T
      PROVE  k \in T
  <2>1. PICK x : x = hit[k - 1] /\ x \in V /\ (x # 0 => c[x].f <= fclus)  BY <1>9
  <2>2. hit[k] = Searched(c, fclus, x, k)  BY <1>7, <2>1
  <2>3. k \in V  BY <1>1
  <2>4. hit[k] = x \/ (hit[k] = k /\ c[k].f <= fclus)  BY <2>2 DEF Searched
  <2> QED BY <2>1, <2>3, <2>4
<1>10. \A k \in 0 .. n : k \in T
  <2> HIDE DEF T, n, V
  <2> QED BY <1>1, <1>8, <1>9, UpTo
<1>11. n \in T  BY <1>1, <1>10
<1> QED BY <1>6, <1>11

(* The loop of an allocation: positions of free entries, each once, and    *)
(* all of them when there are too few.                                     *)
Taken(tab, all, nr, s, k) ==
    IF Len(s) < nr /\ ent_get(fat_bits, tab, all[k]) = FAT_ENT_FREE THEN Append(s, all[k]) ELSE s
FoundOK(tab, all, nr, k, s) ==
    /\ s \in Seq(Posns(fat_bits)) /\ Len(s) <= nr
    /\ \A i \in 1 .. Len(s) : ent_get(fat_bits, tab, s[i]) = FAT_ENT_FREE /\ \E j \in 1 .. k : s[i] = all[j]
    /\ \A i, j \in 1 .. Len(s) : s[i].entry = s[j].entry => i = j
    /\ Len(s) < nr => \A j \in 1 .. k : ent_get(fat_bits, tab, all[j]) = FAT_ENT_FREE =>
                            \E i \in 1 .. Len(s) : s[i] = all[j]
LEMMA AppendFacts ==
    ASSUME NEW S, NEW s \in Seq(S), NEW x \in S
    PROVE  /\ Append(s, x) \in Seq(S) /\ Len(Append(s, x)) = Len(s) + 1
           /\ \A i \in 1 .. Len(s) : Append(s, x)[i] = s[i]
           /\ Append(s, x)[Len(s) + 1] = x
           /\ \A i \in 1 .. Len(Append(s, x)) : i \in 1 .. Len(s) \/ i = Len(s) + 1
OBVIOUS
LEMMA FreeAmongFacts ==
    ASSUME fat_bits \in Widths, NEW tab, NEW all \in Seq(Posns(fat_bits)), NEW nr \in Nat,
           \A j, k \in 1 .. Len(all) : all[j].entry = all[k].entry => j = k
    PROVE  \A k \in 0 .. Len(all) : FoundOK(tab, all, nr, k, FreeAmong(tab, all, nr)[k])
<1> DEFINE n == Len(all)
           V == Seq(Posns(fat_bits))
           G == [k \in 1 .. n |-> [s \in V |-> Taken(tab, all, nr, s, k)]]
           found == CHOOSE g : g = [k \in 0 .. Len(all) |->
                    IF k = 0 THEN <<>>
                    ELSE IF Len(g[k - 1]) < nr /\ ent_get(fat_bits, tab, all[k]) = FAT_ENT_FREE
                         THEN Append(g[k - 1], all[k]) ELSE g[k - 1]]
<1>1. n \in Nat /\ <<>> \in V  OBVIOUS
<1>2. PICK h \in [0 .. n -> V] : h[0] = <<>> /\ \A k \in 1 .. n : h[k] = G[k][h[k - 1]]
  <2>1. G \in [1 .. n -> [V -> V]]
    <3>1. \A k \in 1 .. n : all[k] \in Posns(fat_bits)  OBVIOUS
    <3>2. \A k \in 1 .. n : \A s \in V : Taken(tab, all, nr, s, k) \in V  BY <3>1, AppendFacts DEF Taken
    <3> HIDE DEF n, V
    <3> QED BY <3>2
  <2> HIDE DEF G, V, n
  <2>2. Defined(n, V, <<>>, G)  BY <1>1, <2>1, Recursion
  <2> QED BY <2>2 DEF Defined
<1>3. \A k \in 1 .. n : h[k - 1] \in V /\ h[k] = Taken(tab, all, nr, h[k - 1], k)
  <2> SUFFICES ASSUME NEW k \in 1 .. n PROVE h[k - 1] \in V /\ h[k] = Taken(tab, all, nr, h[k - 1], k)
      OBVIOUS
  <2>1. k - 1 \in 0 .. n  BY <1>1
  <2>2. h[k - 1] \in V  BY <2>1
  <2> HIDE DEF V, n
  <2> QED BY <1>2, <2>2
<1> HIDE DEF G
<1>4. h = [k \in 0 .. Len(all) |->
                    IF k = 0 THEN <<>>
                    ELSE IF Len(h[k - 1]) < nr /\ ent_get(fat_bits, tab, all[k]) = FAT_ENT_FREE
                         THEN Append(h[k - 1], all[k]) ELSE h[k - 1]]
  <2>1. h = [k \in 0 .. n |-> h[k]]  BY <1>2
  <2>2. ASSUME NEW k \in 0 .. n
        PROVE  h[k] = IF k = 0 THEN <<>> ELSE Taken(tab, all, nr, h[k - 1], k)
    <3>1. CASE k = 0  BY <1>2, <3>1
    <3>2. CASE k # 0
      <4>1. k \in 1 .. n  BY <1>1, <2>2, <3>2
      <4> QED BY <1>3, <3>2, <4>1
    <3> QED BY <3>1, <3>2
  <2>3. h = [k \in 0 .. n |-> IF k = 0 THEN <<>> ELSE Taken(tab, all, nr, h[k - 1], k)]
    <3> HIDE DEF n
    <3> QED BY <2>1, <2>2
  <2> QED BY <2>3 DEF Taken
<1>5. found = [k \in 0 .. Len(all) |->
                    IF k = 0 THEN <<>>
                    ELSE IF Len(found[k - 1]) < nr /\ ent_get(fat_bits, tab, all[k]) = FAT_ENT_FREE
                         THEN Append(found[k - 1], all[k]) ELSE found[k - 1]]
    BY <1>4
<1>6. FreeAmong(tab, all, nr) = found
    BY DEF FreeAmong
<1> HIDE DEF found
<1>7. found[0] = <<>> /\ \A k \in 1 .. n : found[k] = Taken(tab, all, nr, found[k - 1], k)
  <2>1. found[0] = <<>>  BY <1>1, <1>5
  <2>2. ASSUME NEW k \in 1 .. n PROVE found[k] = Taken(tab, all, nr, found[k - 1], k)
    <3>1. k \in 0 .. Len(all) /\ k # 0  BY <1>1
    <3> QED BY <1>5, <3>1 DEF Taken
  <2> QED BY <2>1, <2>2
<1> DEFINE T == {k \in 0 .. n : FoundOK(tab, all, nr, k, found[k])}
<1>8. 0 \in T
  <2>1. FoundOK(tab, all, nr, 0, <<>>)  BY <1>1 DEF FoundOK
  <2> QED BY <1>1, <1>7, <2>1
<1>9. ASSUME NEW k \in 1 .. n, k - 1 \in T
      PROVE  k \in T
  <2>1. PICK s : s = found[k - 1] /\ FoundOK(tab, all, nr, k - 1, s)  BY <1>9
  <2>2. found[k] = Taken(tab, all, nr, s, k)  BY <1>7, <2>1
  <2>3. k \in 0 .. n /\ all[k] \in Posns(fat_bits) /\ k \in 1 .. k /\ k \in Nat  BY <1>1
  <2>4. s \in Seq(Posns(fat_bits)) /\ Len(s) \in Nat  BY <2>1 DEF FoundOK
  <2>5. \A j \in 1 .. k : j \in 1 .. k - 1 \/ j = k  BY <2>3
  <2>6. \A j \in 1 .. k - 1 : j \in 1 .. k /\ j # k  BY <2>3
  <2>7. FoundOK(tab, all, nr, k, found[k])
    <3>1. CASE Len(s) < nr /\ ent_get(fat_bits, tab, all[k]) = FAT_ENT_FREE
      <4>1. PICK r : r = Append(s, all[k])  OBVIOUS
      <4>2. /\ r \in Seq(Posns(fat_bits)) /\ Len(r) = Len(s) + 1
            /\ \A i \in 1 .. Len(s) : r[i] = s[i]
            /\ r[Len(s) + 1] = all[k]
            /\ \A i \in 1 .. Len(r) : i \in 1 .. Len(s) \/ i = Len(s) + 1
          BY <2>3, <2>4, <4>1, AppendFacts
      <4>3. found[k] = r /\ Len(r) <= nr  BY <2>2, <2>4, <3>1, <4>1, <4>2 DEF Taken
      <4>4. ASSUME NEW i \in 1 .. Len(r)
            PROVE  ent_get(fat_bits, tab, r[i]) = FAT_ENT_FREE /\ \E j \in 1 .. k : r[i] = all[j]
        <5>1. CASE i \in 1 .. Len(s)
          <6>1. ent_get(fat_bits, tab, s[i]) = FAT_ENT_FREE /\ \E j \in 1 .. k - 1 : s[i] = all[j]
              BY <2>1, <5>1 DEF FoundOK
          <6> QED BY <2>6, <4>2, <5>1, <6>1
        <5>2. CASE i = Len(s) + 1  BY <2>3, <3>1, <4>2, <5>2
        <5> QED BY <4>2, <5>1, <5>2
      <4>5. ASSUME NEW i \in 1 .. Len(s) PROVE s[i].entry # all[k].entry
        <5>1. PICK j \in 1 .. k - 1 : s[i] = all[j]  BY <2>1 DEF FoundOK
        <5>2. j \in 1 .. Len(all) /\ k \in 1 .. Len(all) /\ j # k  BY <2>6, <1>1
        <5> QED BY <5>1, <5>2
      <4>6. ASSUME NEW i \in 1 .. Len(r), NEW j \in 1 .. Len(r), r[i].entry = r[j].entry
            PROVE  i = j
        <5>1. CASE i \in 1 .. Len(s) /\ j \in 1 .. Len(s)
            BY <2>1, <4>2, <4>6, <5>1 DEF FoundOK
        <5>2. CASE i \in 1 .. Len(s) /\ j = Len(s) + 1  BY <4>2, <4>5, <4>6, <5>2
        <5>3. CASE i = Len(s) + 1 /\ j \in 1 .. Len(s)  BY <4>2, <4>5, <4>6, <5>3
        <5> QED BY <4>2, <5>1, <5>2, <5>3
      <4>7. ASSUME Len(r) < nr, NEW j \in 1 .. k, ent_get(fat_bits, tab, all[j]) = FAT_ENT_FREE
            PROVE  \E i \in 1 .. Len(r) : r[i] = all[j]
        <5>1. Len(s) < nr  BY <3>1
        <5>2. CASE j = k
          <6>1. Len(s) + 1 \in 1 .. Len(r)  BY <2>4, <4>2
          <6> QED BY <4>2, <5>2, <6>1
        <5>3. CASE j \in 1 .. k - 1
          <6>1. PICK i \in 1 .. Len(s) : s[i] = all[j]  BY <2>1, <4>7, <5>1, <5>3 DEF FoundOK
          <6>2. i \in 1 .. Len(r)  BY <2>4, <4>2
          <6> QED BY <4>2, <6>1, <6>2
        <5> QED BY <2>5, <5>2, <5>3
      <4> QED BY <4>2, <4>3, <4>4, <4>6, <4>7, ZenonT(60) DEF FoundOK
    <3>2. CASE ~(Len(s) < nr /\ ent_get(fat_bits, tab, all[k]) = FAT_ENT_FREE)
      <4>1. found[k] = s  BY <2>2, <3>2 DEF Taken
      <4>2. ASSUME NEW i \in 1 .. Len(s)
            PROVE  ent_get(fat_bits, tab, s[i]) = FAT_ENT_FREE /\ \E j \in 1 .. k : s[i] = all[j]
        <5>1. ent_get(fat_bits, tab, s[i]) = FAT_ENT_FREE /\ \E j \in 1 .. k - 1 : s[i] = all[j]
              BY <2>1 DEF FoundOK
        <5> QED BY <2>6, <5>1
      <4>3. ASSUME Len(s) < nr, NEW j \in 1 .. k, ent_get(fat_bits, tab, all[j]) = FAT_ENT_FREE
            PROVE  \E i \in 1 .. Len(s) : s[i] = all[j]
        <5>1. j # k  BY <3>2, <4>3
        <5> QED BY <2>1, <2>5, <4>3, <5>1 DEF FoundOK
      <4>4. \A i, j \in 1 .. Len(s) : s[i].entry = s[j].entry => i = j  BY <2>1 DEF FoundOK
      <4>5. Len(s) <= nr  BY <2>1 DEF FoundOK
      <4> QED BY <2>4, <4>1, <4>2, <4>3, <4>4, <4>5 DEF FoundOK
    <3> QED BY <3>1, <3>2
  <2> QED BY <2>3, <2>7
<1>10. \A k \in 0 .. n : k \in T
  <2> HIDE DEF T, n
  <2> QED BY <1>1, <1>8, <1>9, UpTo
<1> QED BY <1>6, <1>10

(* The entries that are found become a chain, and no others change.        *)
Joined(x, found, k) ==
    LET a == ent_put(fat_bits, x, found[k], FAT_ENT_EOF)
    IN IF k = 1 THEN a ELSE ent_put(fat_bits, a, found[k - 1], found[k].entry)
LinkedOK(tab, found, k, x) ==
    /\ x \in Tables(fat_bits)
    /\ \A i \in 1 .. k : Entries(fat_bits, x)[found[i].entry] =
                            IF i = k THEN FAT_ENT_EOF ELSE found[i + 1].entry
    /\ \A c \in Clusters : (\A i \in 1 .. k : found[i].entry # c) =>
            Entries(fat_bits, x)[c] = Entries(fat_bits, tab)[c]
    /\ \A o \in OffsetsOf(fat_bits) :
            (\A i \in 1 .. k : o \div s_blocksize \notin BhsOf(Pos(fat_bits, found[i].entry))) =>
            x[o] = tab[o]
LEMMA PutPosn ==
    ASSUME fat_bits \in Widths, NEW tab \in Tables(fat_bits), NEW p \in Posns(fat_bits), NEW v \in Values
    PROVE  /\ p.entry \in Clusters
           /\ LET new == ent_put(fat_bits, tab, p, v)
              IN /\ new \in Tables(fat_bits)
                 /\ Entries(fat_bits, new)[p.entry] = v
                 /\ \A d \in Clusters : d # p.entry =>
                        Entries(fat_bits, new)[d] = Entries(fat_bits, tab)[d]
                 /\ \A o \in OffsetsOf(fat_bits) :
                        o \div s_blocksize \notin BhsOf(Pos(fat_bits, p.entry)) => new[o] = tab[o]
<1>1. p.entry \in Clusters  BY DEF Posns
<1>2. ent_put(fat_bits, tab, p, v) = ent_put(fat_bits, tab, Pos(fat_bits, p.entry), v)  BY SamePosn
<1> QED BY <1>1, <1>2, PutEntries
LEMMA LinkAllFacts ==
    ASSUME fat_bits \in Widths, NEW tab \in Tables(fat_bits), NEW found \in Seq(Posns(fat_bits)),
           \A i, j \in 1 .. Len(found) : found[i].entry = found[j].entry => i = j
    PROVE  LinkedOK(tab, found, Len(found), LinkAll(tab, found))
<1> DEFINE n == Len(found)
           V == Tables(fat_bits)
           G == [k \in 1 .. n |-> [x \in V |-> Joined(x, found, k)]]
           lnk == CHOOSE g : g = [k \in 0 .. Len(found) |->
                    IF k = 0 THEN tab
                    ELSE IF k = 1 THEN ent_put(fat_bits, g[k - 1], found[k], FAT_ENT_EOF)
                         ELSE ent_put(fat_bits, ent_put(fat_bits, g[k - 1], found[k], FAT_ENT_EOF),
                                      found[k - 1], found[k].entry)]
<1>1. n \in Nat /\ tab \in V  OBVIOUS
<1>2. \A k \in 1 .. n : found[k] \in Posns(fat_bits)  OBVIOUS
<1>3. \A k \in 1 .. n : found[k].entry \in Values /\ FAT_ENT_EOF \in Values
    BY <1>2 DEF Posns, Values
<1>4. \A k \in 1 .. n : \A x \in V : Joined(x, found, k) \in V
  <2> SUFFICES ASSUME NEW k \in 1 .. n, NEW x \in V PROVE Joined(x, found, k) \in V  OBVIOUS
  <2>1. ent_put(fat_bits, x, found[k], FAT_ENT_EOF) \in V  BY <1>2, <1>3, PutPosn
  <2>2. CASE k = 1  BY <2>1, <2>2 DEF Joined
  <2>3. CASE k # 1
    <3>1. k - 1 \in 1 .. n  BY <1>1, <2>3
    <3>2. found[k - 1] \in Posns(fat_bits) /\ found[k].entry \in Values  BY <1>2, <1>3, <3>1
    <3> QED BY <2>1, <2>3, <3>2, PutPosn DEF Joined
  <2> QED BY <2>2, <2>3
<1>5. PICK h \in [0 .. n -> V] : h[0] = tab /\ \A k \in 1 .. n : h[k] = G[k][h[k - 1]]
  <2>1. G \in [1 .. n -> [V -> V]]
    <3> HIDE DEF n, V
    <3> QED BY <1>4
  <2> HIDE DEF G, V, n
  <2>2. Defined(n, V, tab, G)  BY <1>1, <2>1, Recursion
  <2> QED BY <2>2 DEF Defined
<1>6. \A k \in 1 .. n : h[k - 1] \in V /\ h[k] = Joined(h[k - 1], found, k)
  <2> SUFFICES ASSUME NEW k \in 1 .. n PROVE h[k - 1] \in V /\ h[k] = Joined(h[k - 1], found, k)
      OBVIOUS
  <2>1. k - 1 \in 0 .. n  BY <1>1
  <2>2. h[k - 1] \in V  BY <2>1
  <2> HIDE DEF V, n
  <2> QED BY <1>5, <2>2
<1> HIDE DEF G
<1>7. h = [k \in 0 .. Len(found) |->
                    IF k = 0 THEN tab
                    ELSE IF k = 1 THEN ent_put(fat_bits, h[k - 1], found[k], FAT_ENT_EOF)
                         ELSE ent_put(fat_bits, ent_put(fat_bits, h[k - 1], found[k], FAT_ENT_EOF),
                                      found[k - 1], found[k].entry)]
  <2>1. h = [k \in 0 .. n |-> h[k]]  BY <1>5
  <2>2. ASSUME NEW k \in 0 .. n
        PROVE  h[k] = IF k = 0 THEN tab ELSE Joined(h[k - 1], found, k)
    <3>1. CASE k = 0  BY <1>5, <3>1
    <3>2. CASE k # 0
      <4>1. k \in 1 .. n  BY <1>1, <2>2, <3>2
      <4> QED BY <1>6, <3>2, <4>1
    <3> QED BY <3>1, <3>2
  <2>3. h = [k \in 0 .. n |-> IF k = 0 THEN tab ELSE Joined(h[k - 1], found, k)]
    <3> HIDE DEF n
    <3> QED BY <2>1, <2>2
  <2> QED BY <2>3 DEF Joined
<1>8. lnk = [k \in 0 .. Len(found) |->
                    IF k = 0 THEN tab
                    ELSE IF k = 1 THEN ent_put(fat_bits, lnk[k - 1], found[k], FAT_ENT_EOF)
                         ELSE ent_put(fat_bits, ent_put(fat_bits, lnk[k - 1], found[k], FAT_ENT_EOF),
                                      found[k - 1], found[k].entry)]
    BY <1>7
<1>9. LinkAll(tab, found) = lnk[n]
    BY DEF LinkAll
<1> HIDE DEF lnk
<1>10. lnk[0] = tab /\ \A k \in 1 .. n : lnk[k] = Joined(lnk[k - 1], found, k)
  <2>1. lnk[0] = tab  BY <1>1, <1>8
  <2>2. ASSUME NEW k \in 1 .. n PROVE lnk[k] = Joined(lnk[k - 1], found, k)
    <3>1. k \in 0 .. Len(found) /\ k # 0  BY <1>1
    <3> QED BY <1>8, <3>1 DEF Joined
  <2> QED BY <2>1, <2>2
<1> DEFINE T == {k \in 0 .. n : LinkedOK(tab, found, k, lnk[k])}
<1>11. 0 \in T
  <2>1. LinkedOK(tab, found, 0, tab)  BY <1>1 DEF LinkedOK
  <2> QED BY <1>1, <1>10, <2>1
<1>12. ASSUME NEW k \in 1 .. n, k - 1 \in T
       PROVE  k \in T
  <2>1. PICK x : x = lnk[k - 1] /\ LinkedOK(tab, found, k - 1, x)  BY <1>12
  <2>2. x \in V /\ found[k] \in Posns(fat_bits) /\ k \in 0 .. n /\ k \in 1 .. k
      BY <1>1, <1>2, <2>1 DEF LinkedOK
  <2>3. PICK a : a = ent_put(fat_bits, x, found[k], FAT_ENT_EOF)  OBVIOUS
  <2>4. /\ a \in Tables(fat_bits) /\ Entries(fat_bits, a)[found[k].entry] = FAT_ENT_EOF
        /\ \A d \in Clusters : d # found[k].entry =>
                Entries(fat_bits, a)[d] = Entries(fat_bits, x)[d]
        /\ \A o \in OffsetsOf(fat_bits) :
                o \div s_blocksize \notin BhsOf(Pos(fat_bits, found[k].entry)) => a[o] = x[o]
    <3>1. x \in Tables(fat_bits) /\ FAT_ENT_EOF \in Values  BY <1>3, <2>2
    <3>2. PICK p \in Posns(fat_bits) : p = found[k]  BY <2>2
    <3> HIDE DEF V, n, T
    <3> QED BY <2>3, <3>1, <3>2, PutPosn
  <2>5. lnk[k] = Joined(x, found, k)  BY <1>10, <2>1
  <2>6. \A i \in 1 .. k - 1 : i \in 1 .. k /\ i # k /\ i \in 1 .. n  BY <1>1
  <2>7. \A i \in 1 .. k : i \in 1 .. k - 1 \/ i = k  OBVIOUS
  <2>8. LinkedOK(tab, found, k, lnk[k])
    <3>1. CASE k = 1
      <4>1. lnk[k] = a  BY <2>3, <2>5, <3>1 DEF Joined
      <4>2. \A i \in 1 .. k : i = k  BY <3>1
      <4>3. \A i \in 1 .. k - 1 : FALSE  BY <3>1
      <4>4. \A c \in Clusters : Entries(fat_bits, x)[c] = Entries(fat_bits, tab)[c]  BY <2>1, <4>3 DEF LinkedOK
      <4>5. \A o \in OffsetsOf(fat_bits) : x[o] = tab[o]  BY <2>1, <4>3 DEF LinkedOK
      <4> QED BY <2>2, <2>4, <4>1, <4>2, <4>4, <4>5 DEF LinkedOK
    <3>2. CASE k # 1
      <4>1. k - 1 \in 1 .. n /\ k - 1 \in 1 .. k - 1 /\ k - 1 \in 1 .. k /\ (k - 1) + 1 = k
          BY <1>1, <3>2
      <4>2. PICK p : p = found[k - 1]  OBVIOUS
      <4>3. p \in Posns(fat_bits) /\ p.entry \in Clusters /\ found[k].entry \in Clusters
            /\ found[k].entry \in Values
          BY <1>2, <1>3, <2>2, <4>1, <4>2 DEF Posns
      <4>4. PICK y : y = ent_put(fat_bits, a, p, found[k].entry)  OBVIOUS
      <4>5. /\ y \in Tables(fat_bits) /\ Entries(fat_bits, y)[p.entry] = found[k].entry
            /\ \A d \in Clusters : d # p.entry =>
                Entries(fat_bits, y)[d] = Entries(fat_bits, a)[d]
            /\ \A o \in OffsetsOf(fat_bits) :
                o \div s_blocksize \notin BhsOf(Pos(fat_bits, p.entry)) => y[o] = a[o]
          BY <2>4, <4>3, <4>4, PutPosn
      <4>6. lnk[k] = y  BY <2>3, <2>5, <3>2, <4>2, <4>4 DEF Joined
      <4>7. p.entry # found[k].entry  BY <2>6, <4>1, <4>2
      <4>8. ASSUME NEW i \in 1 .. k
            PROVE  Entries(fat_bits, y)[found[i].entry] = IF i = k THEN FAT_ENT_EOF ELSE found[i + 1].entry
        <5>1. CASE i = k  BY <2>4, <4>3, <4>5, <4>7, <5>1
        <5>2. CASE i = k - 1
          <6>1. i + 1 = k /\ i # k  BY <4>1, <5>2
          <6> QED BY <4>2, <4>5, <5>2, <6>1
        <5>3. CASE i # k /\ i # k - 1
          <6>1. i \in 1 .. k - 1 /\ i \in 1 .. n /\ k \in 1 .. n  BY <2>6, <2>7, <5>3
          <6>2. found[i].entry # found[k].entry /\ found[i].entry # p.entry
              BY <4>1, <4>2, <5>3, <6>1
          <6>3. found[i].entry \in Clusters  BY <1>2, <6>1 DEF Posns
          <6>4. Entries(fat_bits, x)[found[i].entry] = found[i + 1].entry
              BY <2>1, <5>3, <6>1 DEF LinkedOK
          <6> QED BY <2>4, <4>5, <5>3, <6>2, <6>3, <6>4
        <5> QED BY <5>1, <5>2, <5>3
      <4>9. ASSUME NEW c \in Clusters, \A i \in 1 .. k : found[i].entry # c
            PROVE  Entries(fat_bits, y)[c] = Entries(fat_bits, tab)[c]
        <5>1. c # found[k].entry /\ c # p.entry  BY <2>2, <4>1, <4>2, <4>9
        <5>2. Entries(fat_bits, x)[c] = Entries(fat_bits, tab)[c]  BY <2>1, <2>6, <4>9 DEF LinkedOK
        <5> QED BY <2>4, <4>5, <5>1, <5>2
      <4>10. ASSUME NEW o \in OffsetsOf(fat_bits),
                    \A i \in 1 .. k : o \div s_blocksize \notin BhsOf(Pos(fat_bits, found[i].entry))
             PROVE  y[o] = tab[o]
        <5>1. o \div s_blocksize \notin BhsOf(Pos(fat_bits, found[k].entry))
              /\ o \div s_blocksize \notin BhsOf(Pos(fat_bits, p.entry))
            BY <2>2, <4>1, <4>2, <4>10
        <5>2. x[o] = tab[o]  BY <2>1, <2>6, <4>10 DEF LinkedOK
        <5> QED BY <2>4, <4>5, <5>1, <5>2
      <4> QED BY <4>5, <4>6, <4>8, <4>9, <4>10 DEF LinkedOK
    <3> QED BY <3>1, <3>2
  <2> QED BY <2>2, <2>8
<1>13. \A k \in 0 .. n : k \in T
  <2> HIDE DEF T, n
  <2> QED BY <1>1, <1>11, <1>12, UpTo
<1>14. n \in T  BY <1>1, <1>13
<1> QED BY <1>9, <1>14

(* The chain that is read from its first cluster on.                       *)
Grown(tab, c, s) ==
    LET d == IF s = <<>> THEN c ELSE Entry(tab, s[Len(s)])
    IN IF d \in Clusters THEN Append(s, d) ELSE s
LEMMA SeqEqual ==
    ASSUME NEW S, NEW r \in Seq(S), NEW s \in Seq(S), Len(r) = Len(s),
           \A i \in 1 .. Len(s) : r[i] = s[i]
    PROVE  r = s
<1>1. r = [i \in 1 .. Len(r) |-> r[i]] /\ s = [i \in 1 .. Len(s) |-> s[i]]  OBVIOUS
<1> QED BY <1>1
LEMMA ChainFromIs ==
    ASSUME fat_bits \in Widths, NEW tab, NEW s \in Seq(Clusters), Distinct(s),
           \A k \in 1 .. Len(s) : Entries(fat_bits, tab)[s[k]] = Link(s, k),
           NEW c, c = IF s = <<>> THEN 0 ELSE s[1]
    PROVE  ChainFrom(tab, c) = s
<1>1. PICK n \in Nat : n = max_cluster - FAT_START_ENT  BY BlockAssumption DEF FAT_START_ENT
<1>2. PICK l \in Nat : l = Len(s) /\ l <= n
  <2>0. Len(s) <= max_cluster - FAT_START_ENT  BY DistinctLen
  <2>1. Len(s) \in Nat /\ Len(s) <= n  BY <1>1, <2>0
  <2> QED BY <2>1
<1> DEFINE V == Seq(Clusters)
           G == [k \in 1 .. n |-> [r \in V |-> Grown(tab, c, r)]]
           at == CHOOSE g : g = [k \in 0 .. max_cluster - FAT_START_ENT |->
                    IF k = 0 THEN <<>>
                    ELSE IF (IF g[k - 1] = <<>> THEN c ELSE Entry(tab, g[k - 1][Len(g[k - 1])])) \in Clusters
                         THEN Append(g[k - 1], IF g[k - 1] = <<>> THEN c ELSE Entry(tab, g[k - 1][Len(g[k - 1])]))
                         ELSE g[k - 1]]
<1>3. \A r \in V : Grown(tab, c, r) \in V  BY AppendFacts DEF Grown
<1>4. PICK h \in [0 .. n -> V] : h[0] = <<>> /\ \A k \in 1 .. n : h[k] = G[k][h[k - 1]]
  <2>0. <<>> \in V  OBVIOUS
  <2>1. G \in [1 .. n -> [V -> V]]
    <3> HIDE DEF V
    <3> QED BY <1>3
  <2> HIDE DEF G, V
  <2>2. Defined(n, V, <<>>, G)  BY <2>0, <2>1, Recursion
  <2> QED BY <2>2 DEF Defined
<1>5. \A k \in 1 .. n : h[k - 1] \in V /\ h[k] = Grown(tab, c, h[k - 1])
  <2> SUFFICES ASSUME NEW k \in 1 .. n PROVE h[k - 1] \in V /\ h[k] = Grown(tab, c, h[k - 1])
      OBVIOUS
  <2>1. k - 1 \in 0 .. n  OBVIOUS
  <2> HIDE DEF V
  <2>2. h[k - 1] \in V  BY <2>1
  <2> QED BY <1>4, <2>2
<1> HIDE DEF G
<1>6. h = [k \in 0 .. max_cluster - FAT_START_ENT |->
                    IF k = 0 THEN <<>>
                    ELSE IF (IF h[k - 1] = <<>> THEN c ELSE Entry(tab, h[k - 1][Len(h[k - 1])])) \in Clusters
                         THEN Append(h[k - 1], IF h[k - 1] = <<>> THEN c ELSE Entry(tab, h[k - 1][Len(h[k - 1])]))
                         ELSE h[k - 1]]
  <2>1. h = [k \in 0 .. n |-> h[k]]  BY <1>4
  <2>2. ASSUME NEW k \in 0 .. n
        PROVE  h[k] = IF k = 0 THEN <<>> ELSE Grown(tab, c, h[k - 1])
    <3>1. CASE k = 0  BY <1>4, <3>1
    <3>2. CASE k # 0
      <4>1. k \in 1 .. n  BY <2>2, <3>2
      <4> QED BY <1>5, <3>2, <4>1
    <3> QED BY <3>1, <3>2
  <2>3. h = [k \in 0 .. n |-> IF k = 0 THEN <<>> ELSE Grown(tab, c, h[k - 1])]
    BY <2>1, <2>2
  <2> QED BY <1>1, <2>3 DEF Grown
<1>7. at = [k \in 0 .. max_cluster - FAT_START_ENT |->
                    IF k = 0 THEN <<>>
                    ELSE IF (IF at[k - 1] = <<>> THEN c ELSE Entry(tab, at[k - 1][Len(at[k - 1])])) \in Clusters
                         THEN Append(at[k - 1], IF at[k - 1] = <<>> THEN c ELSE Entry(tab, at[k - 1][Len(at[k - 1])]))
                         ELSE at[k - 1]]
    BY <1>6
<1>8. ChainFrom(tab, c) = at[n]
    BY <1>1 DEF ChainFrom
<1> HIDE DEF at
<1>9. at[0] = <<>> /\ \A k \in 1 .. n : at[k] = Grown(tab, c, at[k - 1])
  <2>1. at[0] = <<>>  BY <1>1, <1>7
  <2>2. ASSUME NEW k \in 1 .. n PROVE at[k] = Grown(tab, c, at[k - 1])
    <3>1. k \in 0 .. max_cluster - FAT_START_ENT /\ k # 0  BY <1>1
    <3> QED BY <1>7, <3>1 DEF Grown
  <2> QED BY <2>1, <2>2
<1> DEFINE Upto(k) == IF k <= l THEN k ELSE l
           P(k, r) == r \in V /\ Len(r) = Upto(k) /\ \A i \in 1 .. Upto(k) : r[i] = s[i]
           T == {k \in 0 .. n : P(k, at[k])}
<1>10. 0 \in T
  <2>1. <<>> \in V /\ Len(<<>>) = 0  OBVIOUS
  <2>2. Upto(0) = 0 /\ 0 \in 0 .. n  BY <1>1, <1>2
  <2>3. \A i \in 1 .. 0 : FALSE  OBVIOUS
  <2>4. P(0, <<>>)  BY <2>1, <2>2, <2>3
  <2> QED BY <1>9, <2>2, <2>4
<1>11. ASSUME NEW k \in 1 .. n, k - 1 \in T
       PROVE  k \in T
  <2>1. PICK r \in V : r = at[k - 1] /\ P(k - 1, r)  BY <1>11
  <2>2. at[k] = Grown(tab, c, r)  BY <1>9, <2>1
  <2>3. PICK d : d = IF r = <<>> THEN c ELSE Entry(tab, r[Len(r)])  OBVIOUS
  <2>4. CASE k <= l
    <3>1. Len(r) = k - 1 /\ \A i \in 1 .. k - 1 : r[i] = s[i]  BY <1>2, <2>1, <2>4
    <3>2. d = s[k]
      <4>1. CASE k = 1
        <5>1. r = <<>>  BY <2>1, <3>1, <4>1
        <5>2. s # <<>>  BY <1>2, <2>4
        <5> QED BY <2>3, <4>1, <5>1, <5>2
      <4>2. CASE k # 1
        <5>1. k - 1 \in 1 .. k - 1 /\ k - 1 \in 1 .. Len(s) /\ k - 1 # Len(s) /\ (k - 1) + 1 = k
            BY <1>2, <2>4, <4>2
        <5>2. r # <<>>  BY <3>1, <4>2
        <5>3. s[k - 1] \in Clusters  BY <5>1
        <5>4. d = Entries(fat_bits, tab)[s[k - 1]]
            BY <2>3, <3>1, <5>1, <5>2, <5>3 DEF Entry, Entries
        <5> QED BY <5>1, <5>4 DEF Link
      <4> QED BY <4>1, <4>2
    <3>3. k \in 1 .. Len(s) /\ s[k] \in Clusters  BY <1>2, <2>4
    <3>4. at[k] = Append(r, s[k])  BY <2>2, <2>3, <3>2, <3>3 DEF Grown
    <3>5. /\ Append(r, s[k]) \in V /\ Len(Append(r, s[k])) = (k - 1) + 1
          /\ \A i \in 1 .. k - 1 : Append(r, s[k])[i] = r[i]
          /\ Append(r, s[k])[(k - 1) + 1] = s[k]
        BY <2>1, <3>1, <3>3, AppendFacts, SMTT(30)
    <3>6. PICK q : q = at[k]  OBVIOUS
    <3>7. q \in V /\ Len(q) = k /\ q[k] = s[k] /\ \A i \in 1 .. k - 1 : q[i] = s[i]
      <4>1. (k - 1) + 1 = k  OBVIOUS
      <4> QED BY <3>1, <3>4, <3>5, <3>6, <4>1
    <3>8. Upto(k) = k /\ \A i \in 1 .. k : i \in 1 .. k - 1 \/ i = k  BY <2>4
    <3>9. P(k, q)  BY <3>7, <3>8
    <3>10. k \in 0 .. n  OBVIOUS
    <3> QED BY <3>6, <3>9, <3>10
  <2>5. CASE ~(k <= l)
    <3>1. Len(r) = l /\ \A i \in 1 .. l : r[i] = s[i]  BY <1>2, <2>1, <2>5
    <3>2. d \notin Clusters
      <4>1. CASE l = 0
        <5>0. r \in Seq(Clusters) /\ Len(r) = 0 /\ Len(s) = 0  BY <1>2, <2>1, <3>1, <4>1
        <5>1. r = <<>> /\ s = <<>>  BY <5>0
        <5> QED BY <2>3, <5>1, ClusterFacts
      <4>2. CASE l # 0
        <5>1. l \in 1 .. l /\ l \in 1 .. Len(s)  BY <1>2, <4>2
        <5>2. r # <<>>  BY <3>1, <4>2
        <5>3. s[l] \in Clusters  BY <5>1
        <5>4. d = Entries(fat_bits, tab)[s[l]]
            BY <2>3, <3>1, <5>1, <5>2, <5>3 DEF Entry, Entries
        <5>5. d = FAT_ENT_EOF  BY <1>2, <5>1, <5>4 DEF Link
        <5> QED BY <5>5, NotEof
      <4> QED BY <4>1, <4>2
    <3>3. at[k] = r  BY <2>2, <2>3, <3>2 DEF Grown
    <3>4. Upto(k) = l /\ k \in 0 .. n  BY <2>5
    <3>5. P(k, r)  BY <3>1, <3>4
    <3> QED BY <3>3, <3>4, <3>5
  <2> QED BY <2>4, <2>5
<1>12. n \in T
  <2> HIDE DEF T
  <2>1. \A k \in 0 .. n : k \in T  BY <1>10, <1>11, UpTo
  <2> QED BY <2>1
<1>13. at[n] \in V /\ Len(at[n]) = Len(s) /\ \A i \in 1 .. Len(s) : at[n][i] = s[i]
    BY <1>2, <1>12
<1> QED BY <1>8, <1>13, SeqEqual

(* The free entries that fat_count_free_clusters counts.                   *)
LEMMA FreeCounted ==
    ASSUME fat_bits \in Widths, NEW tab
    PROVE  LET all == Visit(fat_bits, FAT_START_ENT)
           IN Cardinality({k \in DOMAIN all : ent_get(fat_bits, tab, all[k]) = FAT_ENT_FREE})
                = Cardinality(FreeSet(Entries(fat_bits, tab)))
<1>1. PICK all : all = Visit(fat_bits, FAT_START_ENT)  OBVIOUS
<1>2. PICK n : n = max_cluster - FAT_START_ENT  OBVIOUS
<1>3. /\ n \in Nat /\ all \in [1 .. n -> Posns(fat_bits)]
      /\ \A c \in Clusters : \E k \in 1 .. n : all[k].entry = c
      /\ \A j, k \in 1 .. n : all[j].entry = all[k].entry => j = k
  <2>1. FAT_START_ENT \in Nat /\ FAT_START_ENT >= FAT_START_ENT /\ FAT_START_ENT <= max_cluster
      BY BlockAssumption DEF FAT_START_ENT
  <2> QED BY <1>1, <1>2, <2>1, VisitAll
<1>4. PICK A : A = {k \in DOMAIN all : ent_get(fat_bits, tab, all[k]) = FAT_ENT_FREE}  OBVIOUS
<1>5. PICK B : B = FreeSet(Entries(fat_bits, tab))  OBVIOUS
<1>6. \A k \in 1 .. n : /\ all[k].entry \in Clusters
                        /\ ent_get(fat_bits, tab, all[k]) = Entries(fat_bits, tab)[all[k].entry]
  <2> SUFFICES ASSUME NEW k \in 1 .. n
               PROVE  /\ all[k].entry \in Clusters
                      /\ ent_get(fat_bits, tab, all[k]) = Entries(fat_bits, tab)[all[k].entry]
      OBVIOUS
  <2>1. PICK p \in Posns(fat_bits) : p = all[k]  BY <1>3
  <2>2. p.entry \in Clusters  BY DEF Posns
  <2>3. ent_get(fat_bits, tab, p) = ent_get(fat_bits, tab, Pos(fat_bits, p.entry))  BY SamePosn
  <2> QED BY <2>1, <2>2, <2>3 DEF Entries
<1>7. A = {k \in 1 .. n : Entries(fat_bits, tab)[all[k].entry] = FAT_ENT_FREE}
    BY <1>3, <1>4, <1>6
<1>8. IsFiniteSet(A)
  <2>1. IsFiniteSet(1 .. n)  BY <1>3, FS_Interval
  <2> QED BY <1>7, <2>1, FS_Subset
<1>9. ExistsBijection(A, B)
  <2> DEFINE g == [k \in A |-> all[k].entry]
  <2>1. \A k \in A : k \in 1 .. n /\ all[k].entry \in B  BY <1>5, <1>6, <1>7 DEF FreeSet
  <2>2. g \in [A -> B]  BY <2>1
  <2>3. \A j, k \in A : g[j] = g[k] => j = k  BY <1>3, <2>1
  <2>4. \A y \in B : \E k \in A : g[k] = y
    <3> SUFFICES ASSUME NEW y \in B PROVE \E k \in A : g[k] = y  OBVIOUS
    <3>1. y \in Clusters /\ Entries(fat_bits, tab)[y] = FAT_ENT_FREE  BY <1>5 DEF FreeSet
    <3>2. PICK k \in 1 .. n : all[k].entry = y  BY <1>3, <3>1
    <3>3. k \in A  BY <1>7, <3>1, <3>2
    <3> QED BY <3>2, <3>3
  <2> HIDE DEF g
  <2>5. g \in Bijection(A, B)
      BY <2>2, <2>3, <2>4 DEF Bijection, Injection, Surjection, IsInjective
  <2> QED BY <2>5 DEF ExistsBijection
<1>10. Cardinality(A) = Cardinality(B)  BY <1>8, <1>9, FS_Bijection
<1> QED BY <1>1, <1>4, <1>5, <1>10

(* What a step of thread t on file f makes of the program counter, the     *)
(* locals, the inode and its cache.                                        *)
Changed(t, f, p, l, m, c) ==
    /\ DOMAIN pc' = Threads /\ DOMAIN loc' = Threads /\ DOMAIN msdos_i' = Files
    /\ cache' \in [Files -> Seq(EntryType)]
    /\ pc'[t] = p /\ loc'[t] = l /\ msdos_i'[f] = m /\ cache'[f] = c
    /\ \A u \in Threads : u # t => pc'[u] = pc[u] /\ loc'[u] = loc[u]
    /\ \A g \in Files : g # f => msdos_i'[g] = msdos_i[g] /\ cache'[g] = cache[g]

LEMMA Stepped ==
    ASSUME NEW ch, NEW ch2, NEW t \in Threads, NEW f \in Files, NEW p, NEW l, NEW m, NEW c,
           Changed(t, f, p, l, m, c), fat_bits' = fat_bits, failed \subseteq failed',
           pc[t] # "idle" => loc[t].f = f, p # "idle" => l.f = f,
           \A u \in Threads : u # t => ch2[u] = ch[u],
           \A g \in Files : g # f => ch2[g] = ch[g]
    PROVE  StepBy(ch, ch2, t, f)
BY DEF StepBy, Changed

(* What the invariant says of a thread in a call.                          *)
CacheOK(c, s, lim, size) == \A k \in 1 .. Len(c) : RunOK(s, c[k]) /\ Within(c[k], lim, size)
LEMMA ThreadFacts ==
    ASSUME NEW ch, InvOf(ch), NEW t \in Threads, pc[t] # "idle",
           NEW l, l = loc[t], NEW f, f = l.f, NEW m, m = msdos_i[f], NEW s, s = ch[f]
    PROVE  /\ l \in LocType /\ f \in Files /\ m \in InodeType
           /\ OpOK(t, pc[t], l, m.i_mutex) /\ HoldOK(pc[t], l, ch[t])
           /\ SizeOK(pc[t], l, s, m.i_size, m.mmu_private, m.i_blocks, Undamaged)
           /\ PosOK(pc[t], l, s) /\ ReaderOK(l, m.i_size, Unmapping(f))
           /\ CidOK(pc[t], l, s, m.cache_valid_id, Cutting(f), m.i_size)
           /\ FileOK(s, m)
<1>1. ThreadInv(ch) /\ CidInv(ch) /\ FileInv(ch)  BY DEF InvOf
<1>2. ThreadAt(ch, t, msdos_i[loc[t].f]) /\ CidAt(ch, t, msdos_i[loc[t].f])
    BY <1>1 DEF ThreadInv, CidInv
<1>3. /\ l \in LocType /\ OpOK(t, pc[t], l, m.i_mutex) /\ HoldOK(pc[t], l, ch[t])
      /\ SizeOK(pc[t], l, s, m.i_size, m.mmu_private, m.i_blocks, Undamaged)
      /\ PosOK(pc[t], l, s) /\ ReaderOK(l, m.i_size, Unmapping(f))
    BY <1>2 DEF ThreadAt, ThreadOK
<1>4. f \in Files  BY <1>3 DEF LocType
<1>5. FileOK(s, m) /\ m \in InodeType  BY <1>1, <1>4 DEF FileInv, FileOK
<1> QED BY <1>2, <1>3, <1>4, <1>5 DEF CidAt
LEMMA ChainFacts ==
    ASSUME NEW ch, InvOf(ch), NEW x \in Owners, NEW s, s = ch[x]
    PROVE  /\ s \in Seq(Clusters) /\ Len(s) \in Nat /\ Distinct(s)
           /\ \A k \in 1 .. Len(s) : /\ s[k] \in Clusters
                                     /\ Entries(fat_bits, fat)[s[k]] = Link(s, k)
                                     /\ Entry(fat, s[k]) = Link(s, k)
<1>1. ChainOK(Owners, Entries(fat_bits, fat), ch)  BY DEF InvOf, ChainInv
<1>2. /\ s \in Seq(Clusters) /\ Len(s) \in Nat /\ Distinct(s)
      /\ \A k \in 1 .. Len(s) : s[k] \in Clusters /\ Entries(fat_bits, fat)[s[k]] = Link(s, k)
    BY <1>1, ChainType
<1>3. \A c \in Clusters : Entries(fat_bits, fat)[c] = Entry(fat, c)  BY DEF Entries, Entry
<1> QED BY <1>2, <1>3
LEMMA CacheFacts ==
    ASSUME NEW ch, InvOf(ch), NEW f \in Files
    PROVE  /\ cache[f] \in Seq(EntryType)
           /\ CacheOK(cache[f], ch[f], Cutting(f), msdos_i[f].i_size)
           /\ msdos_i[f].nr_caches = Len(cache[f]) + Cardinality(Reserving(f))
           /\ msdos_i[f].nr_caches <= FAT_MAX_CACHE
BY DEF InvOf, SysOK, CacheInv, CacheOK, PlacesInv

(* A step of fat_get_cluster.                                              *)
SameCall(l, l2) ==
    /\ l2.op = l.op /\ l2.f = l.f /\ l2.nr = l.nr /\ l2.cl = l.cl /\ l2.skip = l.skip
    /\ l2.ret = l.ret /\ l2.tgt = l.tgt
LEMMA GetStep ==
    ASSUME NEW ch, InvOf(ch), NEW t \in Threads, NEW l, l = loc[t], NEW f, f = l.f,
           NEW m, m = msdos_i[f], NEW s, s = ch[f],
           NEW p2, NEW l2 \in LocType, NEW m2 \in InodeType, NEW c2,
           pc[t] \in GetPcs, Changed(t, f, p2, l2, m2, c2), p2 \in GetPcs \cup {l.ret},
           SameCall(l, l2), SameFile(m, m2),
           UNCHANGED <<fat_bits, fat, mirror, sbi_vars>>, failed \subseteq failed',
           PosOK(p2, l2, s), CidOK(p2, l2, s, m.cache_valid_id, Cutting(f), m.i_size),
           CacheOK(c2, s, Cutting(f), m.i_size),
           m2.nr_caches = Len(c2) + Cardinality(Reserving(f)'), m2.nr_caches <= FAT_MAX_CACHE,
           fs_error' \in BOOLEAN, Undamaged' => ~fs_error'
    PROVE  InvOf(ch)'
<1>1. pc[t] # "idle"  BY DEF GetPcs
<1>2. /\ l \in LocType /\ f \in Files
      /\ OpOK(t, pc[t], l, m.i_mutex) /\ HoldOK(pc[t], l, ch[t])
      /\ ReaderOK(l, m.i_size, Unmapping(f))
      /\ SizeOK(pc[t], l, s, m.i_size, m.mmu_private, m.i_blocks, Undamaged)
      /\ m.cache_valid_id \in Nat
    BY <1>1, ThreadFacts, SMTT(30) DEF InodeType
<1>3. l.ret \in RetPcs  BY <1>2 DEF OpOK
<1>4. /\ p2 \in GetPcs \cup RetPcs /\ Goal(p2, l2) = l.ret /\ Goal(pc[t], l) = l.ret
      /\ p2 \notin GetPcs => p2 = l.ret
    BY <1>3 DEF Goal, RetPcs, GetPcs, SameCall
<1>5. p2 # "idle" /\ l2.f = f  BY <1>4 DEF GetPcs, RetPcs, SameCall
<1>6. StepBy(ch, ch, t, f)  BY <1>2, <1>5, Stepped
<1>7. /\ pc'[t] = p2 /\ loc'[t] = l2 /\ msdos_i'[f] = m2 /\ cache'[f] = c2  BY DEF Changed
<1>8. SysOK'  BY DEF InvOf, SysOK, Changed, sbi_vars
<1>9. Local(t, f)
  <2>1. pc[t] # "unmap" /\ pc[t] \notin LinkedPcs \cup {"cut_mirror"}  BY DEF GetPcs, LinkedPcs
  <2> QED BY <1>4, <1>7, <2>1 DEF Local, sbi_vars
<1>10. MirrorKept(ch, t)
  <2>1. pc[t] \notin MirrorPcs /\ pc[t] # "free"  BY DEF GetPcs, MirrorPcs
  <2>2. Pending(fat_bits, pc[t], l, ch[t]) = {}  BY <2>1 DEF Pending, MirrorPcs
  <2> QED BY <2>2 DEF MirrorKept
<1>11. Cutting(f)' <=> Cutting(f)
  <2>1. \A u \in Threads : u # t => pc'[u] = pc[u] /\ loc'[u] = loc[u]  BY DEF Changed
  <2> QED BY <1>4, <1>5, <1>7, <2>1 DEF Cutting
<1>12. Unmapping(f) => Unmapping(f)'
  <2>1. \A u \in Threads : u # t => pc'[u] = pc[u] /\ loc'[u] = loc[u]  BY DEF Changed
  <2>2. pc[t] # "unmap"  BY DEF GetPcs
  <2> QED BY <2>1, <2>2 DEF Unmapping
<1>13. ThreadAt(ch, t, msdos_i[loc[t].f])'
  <2>1. OpOK(t, p2, l2, m2.i_mutex)
    <3>1. p2 \notin {"free", "free_mirror"}  BY <1>4 DEF GetPcs, RetPcs
    <3> QED BY <1>2, <1>3, <1>4, <3>1 DEF OpOK, SameCall, SameFile
  <2>2. HoldOK(p2, l2, ch[t])  BY <1>2, <1>4 DEF HoldOK, SameCall
  <2>3. SizeOK(p2, l2, s, m2.i_size, m2.mmu_private, m2.i_blocks, Undamaged')
    <3>1. p2 \notin LinkedPcs /\ p2 \notin {"cut_mirror", "unmap", "truncate_blocks", "down_write"}
        BY <1>4 DEF GetPcs, RetPcs, LinkedPcs
    <3> QED BY <1>2, <1>4, <3>1 DEF SizeOK, SameCall, SameFile
  <2>4. ReaderOK(l2, m2.i_size, Unmapping(f)')  BY <1>2, <1>12 DEF ReaderOK, SameCall, SameFile
  <2>5. ThreadOK(t, p2, l2, ch[t], s, m2.i_size, m2.mmu_private, m2.i_blocks, m2.i_mutex,
                 Undamaged', Unmapping(f)')
      BY <1>5, <2>1, <2>2, <2>3, <2>4 DEF ThreadOK
  <2> QED BY <1>5, <1>7, <2>5 DEF ThreadAt
<1>14. CidAt(ch, t, msdos_i[loc[t].f])'
  <2>1. CidOK(p2, l2, s, m.cache_valid_id, Cutting(f)', m.i_size)
      BY <1>2, <1>11, OtherCid DEF Within
  <2> QED BY <1>5, <1>7, <2>1 DEF CidAt, SameFile
<1>15. \A k \in 1 .. Len(cache'[f]) :
                RunOK(ch[f], cache'[f][k]) /\ Within(cache'[f][k], Cutting(f), msdos_i[f].i_size)
    BY <1>7 DEF CacheOK
<1> QED BY <1>2, <1>6, <1>7, <1>8, <1>9, <1>10, <1>13, <1>14, <1>15, LocalInv

LEMMA LocCid ==
    ASSUME NEW l \in LocType, NEW c \in CidType
    PROVE  LET l2 == [l EXCEPT !.cid = c]
           IN /\ l2 \in LocType /\ SameCall(l, l2) /\ l2.res = l.res
              /\ l2.fclus = l.fclus /\ l2.dclus = l.dclus /\ l2.cid = c
BY DEF LocType, SameCall
LEMMA LocRes ==
    ASSUME NEW l \in LocType, NEW r \in {NoRes, AtEof, Failed}
    PROVE  LET l2 == [l EXCEPT !.res = r]
           IN /\ l2 \in LocType /\ SameCall(l, l2) /\ l2.res = r
              /\ l2.fclus = l.fclus /\ l2.dclus = l.dclus /\ l2.cid = l.cid
BY DEF LocType, SameCall
LEMMA ResDiffer == NoRes # AtEof /\ NoRes # Failed /\ AtEof # Failed
<1>1. NoRes.ok = TRUE /\ NoRes.eof = FALSE /\ AtEof.ok = TRUE /\ AtEof.eof = TRUE
      /\ Failed.ok = FALSE /\ Failed.eof = FALSE
    BY DEF NoRes, AtEof, Failed
<1>2. TRUE # FALSE  OBVIOUS
<1> QED BY <1>1, <1>2

(* The entry used is moved to the front of the list.                       *)
LEMMA LruFacts ==
    ASSUME NEW c \in Seq(EntryType), NEW k \in 1 .. Len(c)
    PROVE  LET r == fat_cache_update_lru(c, k)
           IN /\ r \in Seq(EntryType) /\ Len(r) = Len(c)
              /\ \A i \in 1 .. Len(r) : \E j \in 1 .. Len(c) : r[i] = c[j]
<1>1. PICK n \in Nat : n = Len(c)  OBVIOUS
<1>2. PICK a : a = SubSeq(c, 1, k - 1)  OBVIOUS
<1>3. PICK b : b = SubSeq(c, k + 1, Len(c))  OBVIOUS
<1>4. a \in Seq(EntryType) /\ Len(a) = k - 1 /\ \A i \in 1 .. k - 1 : a[i] = c[i]
    BY <1>2
<1>5. b \in Seq(EntryType) /\ Len(b) = n - k /\ \A i \in 1 .. n - k : b[i] = c[k + i]
  <2>1. b \in Seq(EntryType) /\ Len(b) = n - k  BY <1>1, <1>3
  <2>2. ASSUME NEW i \in 1 .. n - k PROVE b[i] = c[k + i]
      BY <1>1, <1>3
  <2> QED BY <2>1, <2>2
<1>6. PICK d : d = <<c[k]>> \o a  OBVIOUS
<1>7. d \in Seq(EntryType) /\ Len(d) = k /\ d[1] = c[k] /\ \A i \in 2 .. k : d[i] = c[i - 1]
  <2>1. c[k] \in EntryType  OBVIOUS
  <2>2. <<c[k]>> \in Seq(EntryType) /\ Len(<<c[k]>>) = 1  BY <2>1
  <2>3. d \in Seq(EntryType) /\ Len(d) = k  BY <1>4, <1>6, <2>2
  <2>4. d[1] = c[k]  BY <1>4, <1>6, <2>2
  <2>5. ASSUME NEW i \in 2 .. k PROVE d[i] = c[i - 1]
    <3>1. d[i] = a[i - 1]  BY <1>4, <1>6, <2>2
    <3>2. i - 1 \in 1 .. k - 1  OBVIOUS
    <3> QED BY <1>4, <3>1, <3>2
  <2> QED BY <2>3, <2>4, <2>5
<1>8. PICK r : r = fat_cache_update_lru(c, k) /\ r = d \o b
    BY <1>2, <1>3, <1>6 DEF fat_cache_update_lru
<1>9. r \in Seq(EntryType) /\ Len(r) = n
  <2>0. d \in Seq(EntryType) /\ b \in Seq(EntryType) /\ r = d \o b  BY <1>5, <1>7, <1>8
  <2>1. Len(r) = Len(d) + Len(b) /\ r \in Seq(EntryType)  BY <2>0
  <2> QED BY <1>1, <1>5, <1>7, <2>1
<1>10. ASSUME NEW i \in 1 .. n PROVE \E j \in 1 .. n : r[i] = c[j]
  <2>1. CASE i <= k
    <3>1. r[i] = d[i]  BY <1>5, <1>7, <1>8, <2>1
    <3>2. CASE i = 1  BY <1>1, <1>7, <3>1, <3>2
    <3>3. CASE i # 1
      <4>1. i \in 2 .. k /\ i - 1 \in 1 .. n  BY <1>1, <2>1, <3>3
      <4> QED BY <1>7, <3>1, <4>1
    <3> QED BY <3>2, <3>3
  <2>2. CASE ~(i <= k)
    <3>1. i - k \in 1 .. n - k /\ k + (i - k) = i  BY <1>1, <2>2
    <3>2. r[i] = b[i - k]  BY <1>5, <1>7, <1>8, <1>9, <2>2
    <3>3. b[i - k] = c[i]  BY <1>5, <3>1
    <3> QED BY <1>1, <3>2, <3>3
  <2> QED BY <2>1, <2>2
<1> QED BY <1>1, <1>8, <1>9, <1>10
LEMMA LruOK ==
    ASSUME NEW c \in Seq(EntryType), NEW k \in 1 .. Len(c), NEW s, NEW lim, NEW size,
           CacheOK(c, s, lim, size)
    PROVE  /\ fat_cache_update_lru(c, k) \in Seq(EntryType)
           /\ Len(fat_cache_update_lru(c, k)) = Len(c)
           /\ CacheOK(fat_cache_update_lru(c, k), s, lim, size)
<1>1. PICK r : r = fat_cache_update_lru(c, k)  OBVIOUS
<1>2. /\ r \in Seq(EntryType) /\ Len(r) = Len(c)
      /\ \A i \in 1 .. Len(r) : \E j \in 1 .. Len(c) : r[i] = c[j]
    BY <1>1, LruFacts
<1>3. CacheOK(r, s, lim, size)  BY <1>2 DEF CacheOK
<1> QED BY <1>1, <1>2, <1>3

-----------------------------------------------------------------------------
(* One lemma for each action.                                              *)
LEMMA LookupStep ==
    ASSUME NEW ch, InvOf(ch), NEW t \in Threads, Lookup(t)
    PROVE  InvOf(ch)'
<1>1. PICK l, f, m, s, c : l = loc[t] /\ f = l.f /\ m = msdos_i[f] /\ s = ch[f] /\ c = cache[f]
    OBVIOUS
<1>2. pc[t] = "lookup"  BY DEF Lookup
<1>3. /\ l \in LocType /\ f \in Files /\ m \in InodeType /\ PosOK(pc[t], l, s)
      /\ OpOK(t, pc[t], l, m.i_mutex) /\ FileOK(s, m)
    BY <1>1, <1>2, ThreadFacts
<1>4. s \in Seq(Clusters) /\ Len(s) \in Nat  BY <1>1, <1>3, ChainFacts DEF Owners
<1>5. /\ c \in Seq(EntryType) /\ CacheOK(c, s, Cutting(f), m.i_size)
      /\ m.nr_caches = Len(c) + Cardinality(Reserving(f)) /\ m.nr_caches <= FAT_MAX_CACHE
    BY <1>1, <1>3, CacheFacts
<1>6. PICK k : k = fat_cache_lookup(c, l.tgt)  OBVIOUS
<1>7. k \in 0 .. Len(c) /\ (k # 0 => c[k].f <= l.tgt)  BY <1>5, <1>6, LookupHit
<1>8. /\ l.res = NoRes /\ l.fclus \in 0 .. Len(s) - 1 /\ l.dclus = s[l.fclus + 1] /\ l.fclus < l.tgt
      /\ l.tgt \in Nat /\ l.fclus \in Int /\ l.dclus \in Int
      /\ Goal(pc[t], l) = l.ret /\ l.ret \in RetPcs
    BY <1>2, <1>3, ResDiffer DEF PosOK, OpOK, Goal, GetPcs, LocType
<1>9. /\ Goal(pc[t], l) = "chain_put" => l.tgt = FAT_ENT_EOF
      /\ Goal(pc[t], l) # "chain_put" => l.tgt < Len(s)
      /\ Goal(pc[t], l) = "cut" => l.tgt = l.skip - 1
    BY <1>2, <1>3 DEF PosOK, GetPcs
<1>10. /\ UNCHANGED <<fat_bits, fat, mirror, sbi_vars>> /\ failed \subseteq failed'
       /\ fs_error' = fs_error /\ msdos_i' = msdos_i
    BY DEF Lookup, Works, env_vars
<1>11. fs_error' \in BOOLEAN /\ (Undamaged' => ~fs_error')
    BY <1>10, Damage DEF InvOf, SysOK, ErrorInv
<1>12. DOMAIN pc = Threads /\ DOMAIN loc = Threads /\ DOMAIN msdos_i = Files
       /\ cache \in [Files -> Seq(EntryType)]
    BY DEF InvOf, SysOK
<1>13. m.cache_valid_id \in Nat \ {0} /\ SameFile(m, m)  BY <1>3 DEF FileOK, InodeType, SameFile
<1>14. CASE k = 0
  <2>1. PICK d : d = cache_init(-1, -1)  OBVIOUS
  <2>2. d \in CidType /\ d.id = 0 /\ d.f = -1 /\ d.d = -1 /\ d.n = 0
      BY <2>1 DEF CidType, cache_init, FAT_CACHE_VALID
  <2>3. PICK l2 : l2 = [l EXCEPT !.cid = d]  OBVIOUS
  <2>4. /\ l2 \in LocType /\ SameCall(l, l2) /\ l2.res = l.res
        /\ l2.fclus = l.fclus /\ l2.dclus = l.dclus /\ l2.cid = d
      BY <1>3, <2>2, <2>3, LocCid
  <2>5. loc' = [loc EXCEPT ![t].cid = d] /\ cache' = cache /\ pc' = [pc EXCEPT ![t] = "walk"]
    <3>1. 0 < l.tgt  BY <1>8
    <3> QED BY <1>1, <1>6, <1>14, <2>1, <3>1 DEF Lookup, Set, Goto
  <2>6. Changed(t, f, "walk", l2, m, c)
      BY <1>1, <1>3, <1>10, <1>12, <2>3, <2>5 DEF Changed
  <2>7. PosOK("walk", l2, s)
    <3>1. Goal("walk", l2) = l.ret /\ l.fclus <= l.tgt  BY <1>8, <2>4 DEF Goal, GetPcs, SameCall
    <3> QED BY <1>8, <1>9, <2>4, <3>1, ResDiffer DEF PosOK, SameCall
  <2>8. CidOK("walk", l2, s, m.cache_valid_id, Cutting(f), m.i_size)
      BY <1>13, <2>2, <2>4 DEF CidOK
  <2>9. Reserving(f)' = Reserving(f)
    <3>1. StepBy(ch, ch, t, f)
        BY <1>1, <1>3, <1>10, <2>4, <2>6, Stepped DEF SameCall
    <3>2. pc[t] # "add_alloc" /\ pc'[t] # "add_alloc"  BY <1>2, <2>6 DEF Changed
    <3> QED BY <1>3, <3>1, <3>2, ReservingSame
  <2>10. pc[t] \in GetPcs /\ "walk" \in GetPcs \cup {l.ret}  BY <1>2 DEF GetPcs
  <2> QED BY <1>1, <1>3, <1>5, <1>10, <1>11, <1>13, <2>4, <2>6, <2>7, <2>8, <2>9, <2>10, GetStep
<1>15. CASE k # 0
  <2>1. k \in 1 .. Len(c)  BY <1>5, <1>7, <1>15
  <2>2. PICK e : e = c[k]  OBVIOUS
  <2>3. /\ e \in EntryType /\ RunOK(s, e) /\ Within(e, Cutting(f), m.i_size) /\ e.f <= l.tgt
      BY <1>5, <1>7, <2>1, <2>2 DEF CacheOK
  <2>4. /\ e.f \in Nat /\ e.n \in Nat /\ e.d \in Int /\ e.f > 0 /\ e.f + e.n < Len(s)
        /\ \A i \in 0 .. e.n : s[(e.f + i) + 1] = e.d + i
      BY <2>3 DEF EntryType, RunOK
  <2>5. PICK off \in 0 .. e.n : off = IF e.f + e.n < l.tgt THEN e.n ELSE l.tgt - e.f
      BY <1>8, <2>3, <2>4, SMTT(30)
  <2>6. PICK a \in Nat : a = e.f + off /\ a <= l.tgt /\ a < Len(s) /\ (a < l.tgt => off = e.n)
    <3>1. PICK x \in Nat, y \in Nat, z \in Nat, n \in Nat : x = e.f /\ y = e.n /\ z = l.tgt /\ n = Len(s)
        BY <1>4, <1>8, <2>4
    <3>2. x + y < n /\ x <= z /\ off \in 0 .. y /\ off = (IF x + y < z THEN y ELSE z - x)
        BY <2>3, <2>4, <2>5, <3>1
    <3>3. x + off \in Nat /\ x + off <= z /\ x + off < n /\ (x + off < z => off = y)
        BY <3>2
    <3> QED BY <3>1, <3>3
  <2>7. PICK b \in Int : b = e.d + off /\ b = s[a + 1]
    <3>1. e.d + off \in Int /\ s[(e.f + off) + 1] = e.d + off  BY <2>4, <2>5, SMTT(30)
    <3> QED BY <2>6, <3>1
  <2>8. PICK d : d = [id |-> m.cache_valid_id, f |-> e.f, d |-> e.d, n |-> e.n]  OBVIOUS
  <2>9. d \in CidType /\ d.id = m.cache_valid_id /\ d.f = e.f /\ d.d = e.d /\ d.n = e.n
      BY <1>13, <2>4, <2>8 DEF CidType
  <2>10. PICK l2 : l2 = [l EXCEPT !.fclus = a, !.dclus = b, !.cid = d]  OBVIOUS
  <2>11. /\ l2 \in LocType /\ SameCall(l, l2) /\ l2.res = l.res
         /\ l2.fclus = a /\ l2.dclus = b /\ l2.cid = d
    <3>1. a \in Int /\ b \in Int  BY <2>6, <2>7
    <3> QED BY <1>3, <2>9, <2>10, <3>1 DEF LocType, SameCall
  <2>12. PICK p2 : p2 = IF a < l.tgt THEN "walk" ELSE "add"  OBVIOUS
  <2>13. PICK c2 : c2 = fat_cache_update_lru(c, k)  OBVIOUS
  <2>14. c2 \in Seq(EntryType) /\ Len(c2) = Len(c) /\ CacheOK(c2, s, Cutting(f), m.i_size)
      BY <1>5, <2>1, <2>13, LruOK
  <2>15. /\ loc' = [loc EXCEPT ![t].fclus = a, ![t].dclus = b, ![t].cid = d]
         /\ cache' = [cache EXCEPT ![f] = c2] /\ pc' = [pc EXCEPT ![t] = p2]
      BY <1>1, <1>6, <1>15, <2>2, <2>5, <2>6, <2>7, <2>8, <2>12, <2>13 DEF Lookup, Goto
  <2>16. Changed(t, f, p2, l2, m, c2)
    <3>1. loc'[t] = l2 /\ DOMAIN loc' = Threads /\ \A u \in Threads : u # t => loc'[u] = loc[u]
        BY <1>1, <1>12, <2>10, <2>15
    <3>2. /\ cache' \in [Files -> Seq(EntryType)] /\ cache'[f] = c2
          /\ \A g \in Files : g # f => cache'[g] = cache[g]
        BY <1>3, <1>12, <2>14, <2>15
    <3> QED BY <1>1, <1>3, <1>10, <1>12, <2>15, <3>1, <3>2 DEF Changed
  <2>17. PosOK(p2, l2, s)
    <3>1. a \in 0 .. Len(s) - 1 /\ (p2 = "walk" => a < l.tgt) /\ (p2 # "walk" => a = l.tgt)
          /\ p2 \in {"walk", "add"}
        BY <1>4, <1>8, <2>6, <2>12
    <3>2. Goal(p2, l2) = l.ret  BY <2>11, <3>1 DEF Goal, GetPcs, SameCall
    <3> QED BY <1>8, <1>9, <2>6, <2>7, <2>11, <3>1, <3>2, ResDiffer DEF PosOK, SameCall
  <2>18. CidOK(p2, l2, s, m.cache_valid_id, Cutting(f), m.i_size)
    <3>1. RunOK(s, d) /\ Within(d, Cutting(f), m.i_size)  BY <2>3, <2>9 DEF RunOK, Within
    <3>2. d.f # -1 /\ d.n >= 0 /\ d.id \in 0 .. m.cache_valid_id /\ d.id # FAT_CACHE_VALID
        BY <1>13, <2>4, <2>9 DEF FAT_CACHE_VALID
    <3>3. p2 = "walk" => d.f + d.n = a /\ d.d + d.n = b  BY <2>6, <2>7, <2>9, <2>12
    <3>4. p2 # "add_alloc"  BY <2>12
    <3> QED BY <2>11, <3>1, <3>2, <3>3, <3>4 DEF CidOK
  <2>19. Reserving(f)' = Reserving(f)
    <3>1. StepBy(ch, ch, t, f)
        BY <1>1, <1>3, <1>10, <2>11, <2>16, Stepped DEF SameCall
    <3>2. pc[t] # "add_alloc" /\ pc'[t] # "add_alloc"  BY <1>2, <2>12, <2>16 DEF Changed
    <3> QED BY <1>3, <3>1, <3>2, ReservingSame
  <2>20. pc[t] \in GetPcs /\ p2 \in GetPcs \cup {l.ret}  BY <1>2, <2>12 DEF GetPcs
  <2>21. m.nr_caches = Len(c2) + Cardinality(Reserving(f)')  BY <1>5, <2>14, <2>19
  <2> QED BY <1>1, <1>3, <1>5, <1>10, <1>11, <1>13, <2>11, <2>14, <2>16, <2>17, <2>18, <2>20, <2>21, GetStep
<1> QED BY <1>14, <1>15

(* While a chain is being cut, nobody looks for a cluster behind the cut.  *)
LEMMA SeekBelow ==
    ASSUME NEW ch, InvOf(ch), NEW t \in Threads, pc[t] \in GetPcs, NEW f, f = loc[t].f, Cutting(f)
    PROVE  loc[t].tgt < msdos_i[f].i_size
<1>1. ThreadInv(ch)  BY DEF InvOf
<1>2. PICK u \in Threads : Goal(pc[u], loc[u]) = "cut" /\ loc[u].f = f  BY DEF Cutting
<1>3. pc[u] # "idle" /\ pc[u] # "unmap" /\ pc[t] # "idle"  BY <1>2 DEF Goal, GetPcs
<1>4. f \in Files /\ msdos_i[f].i_mutex = u  BY <1>1, <1>2, <1>3, Holder
<1>5. ~Unmapping(f)  BY <1>1, <1>3, <1>4, HolderFlags
<1>6. CASE t = u
  <2>1. PICK l : l = loc[t]  OBVIOUS
  <2>2. l \in LocType /\ PosOK(pc[t], l, ch[f]) /\ msdos_i[f].i_size \in Nat
        /\ SizeOK(pc[t], l, ch[f], msdos_i[f].i_size, msdos_i[f].mmu_private, msdos_i[f].i_blocks, Undamaged)
      BY <1>3, <2>1, ThreadFacts DEF InodeType
  <2>3. l.tgt = l.skip - 1 /\ l.skip = msdos_i[f].i_size
      BY <1>2, <1>6, <2>1, <2>2 DEF PosOK, SizeOK
  <2> QED BY <2>1, <2>2, <2>3
<1>7. CASE t # u
  <2>1. loc[t].op \in {"read", "bmap"}  BY <1>1, <1>3, <1>4, <1>7, HolderFlags
  <2>2. ReaderOK(loc[t], msdos_i[f].i_size, Unmapping(f))  BY <1>3, ThreadFacts
  <2> QED BY <1>5, <2>1, <2>2 DEF ReaderOK
<1> QED BY <1>6, <1>7

LEMMA WalkStep ==
    ASSUME NEW ch, InvOf(ch), NEW t \in Threads, Walk(t)
    PROVE  InvOf(ch)'
<1>1. PICK l, f, m, s, c : l = loc[t] /\ f = l.f /\ m = msdos_i[f] /\ s = ch[f] /\ c = cache[f]
    OBVIOUS
<1>2. pc[t] = "walk"  BY DEF Walk
<1>3. /\ l \in LocType /\ f \in Files /\ m \in InodeType /\ PosOK(pc[t], l, s)
      /\ OpOK(t, pc[t], l, m.i_mutex) /\ FileOK(s, m)
      /\ CidOK(pc[t], l, s, m.cache_valid_id, Cutting(f), m.i_size)
    BY <1>1, <1>2, ThreadFacts
<1>4. /\ s \in Seq(Clusters) /\ Len(s) \in Nat
      /\ \A k \in 1 .. Len(s) : s[k] \in Clusters /\ Entry(fat, s[k]) = Link(s, k)
    BY <1>1, <1>3, ChainFacts DEF Owners
<1>5. /\ c \in Seq(EntryType) /\ CacheOK(c, s, Cutting(f), m.i_size)
      /\ m.nr_caches = Len(c) + Cardinality(Reserving(f)) /\ m.nr_caches <= FAT_MAX_CACHE
    BY <1>1, <1>3, CacheFacts
<1>6. /\ l.res = NoRes /\ l.fclus \in 0 .. Len(s) - 1 /\ l.dclus = s[l.fclus + 1] /\ l.fclus < l.tgt
      /\ l.tgt \in Nat /\ l.fclus \in Int /\ l.dclus \in Int
      /\ Goal(pc[t], l) = l.ret /\ l.ret \in RetPcs
    BY <1>2, <1>3, ResDiffer DEF PosOK, OpOK, Goal, GetPcs, LocType
<1>7. /\ l.ret = "chain_put" => l.tgt = FAT_ENT_EOF
      /\ l.ret # "chain_put" => l.tgt < Len(s)
      /\ l.ret = "cut" => l.tgt = l.skip - 1
    BY <1>2, <1>3, <1>6 DEF PosOK, GetPcs
<1>8. UNCHANGED <<fat_bits, fat, mirror, sbi_vars>> /\ msdos_i' = msdos_i /\ cache' = cache
    BY DEF Walk, env_vars
<1>9. failed \subseteq failed'  BY DEF Walk, Works, Fails
<1>10. DOMAIN pc = Threads /\ DOMAIN loc = Threads /\ DOMAIN msdos_i = Files
       /\ cache \in [Files -> Seq(EntryType)] /\ fs_error \in BOOLEAN /\ (Undamaged => ~fs_error)
       /\ fat_bits \in Widths
    BY DEF InvOf, SysOK, ErrorInv
<1>11. m.cache_valid_id \in Nat \ {0} /\ SameFile(m, m)  BY <1>3 DEF FileOK, InodeType, SameFile
<1>12. PICK k \in 1 .. Len(s) : k = l.fclus + 1  BY <1>4, <1>6
<1>13. PICK nr : nr = Entry(fat, l.dclus) /\ nr = Link(s, k)  BY <1>4, <1>6, <1>12
<1>14. /\ nr # FAT_ENT_FREE /\ (nr = FAT_ENT_EOF <=> k = Len(s))
       /\ k # Len(s) => nr = s[k + 1] /\ k + 1 \in 1 .. Len(s) /\ nr \in Clusters
  <2>1. nr \in Clusters \cup {FAT_ENT_EOF} /\ nr # FAT_ENT_FREE  BY <1>4, <1>13, LinkType
  <2>2. FAT_ENT_EOF \notin Clusters  BY <1>10, NotEof
  <2>3. k # Len(s) => k + 1 \in 1 .. Len(s)  BY <1>4
  <2>4. k # Len(s) => s[k + 1] \in Clusters  BY <1>4, <2>3
  <2> QED BY <1>13, <2>1, <2>2, <2>3, <2>4 DEF Link
<1>15. /\ l.cid \in CidType /\ l.cid.id \in 0 .. m.cache_valid_id /\ l.cid.n >= 0
       /\ l.cid.f # -1 /\ l.cid.id \in {FAT_CACHE_VALID, m.cache_valid_id}
            => RunOK(s, l.cid) /\ Within(l.cid, Cutting(f), m.i_size)
       /\ l.cid.f # -1 /\ l.cid.id = FAT_CACHE_VALID => l.cid.f + l.cid.n <= l.fclus
       /\ l.cid.f = -1 => l.cid.d = -1 /\ l.cid.n = 0
       /\ l.cid.f # -1 => l.cid.f + l.cid.n = l.fclus /\ l.cid.d + l.cid.n = l.dclus
    BY <1>2, <1>3 DEF CidOK, LocType
<1>16. ASSUME NEW p2, NEW l2 \in LocType, SameCall(l, l2), p2 \in {"walk", "add", l.ret},
              pc' = [pc EXCEPT ![t] = p2], loc'[t] = l2, DOMAIN loc' = Threads,
              \A u \in Threads : u # t => loc'[u] = loc[u],
              PosOK(p2, l2, s), CidOK(p2, l2, s, m.cache_valid_id, Cutting(f), m.i_size),
              fs_error' = fs_error
       PROVE  InvOf(ch)'
  <2>1. Changed(t, f, p2, l2, m, c)  BY <1>1, <1>3, <1>8, <1>10, <1>16 DEF Changed
  <2>2. p2 # "add_alloc" /\ pc[t] # "add_alloc" /\ pc[t] \in GetPcs /\ p2 \in GetPcs \cup {l.ret}
      BY <1>2, <1>6, <1>16 DEF GetPcs, RetPcs
  <2>3. StepBy(ch, ch, t, f)
    <3>1. l2.f = f /\ fat_bits' = fat_bits  BY <1>1, <1>8, <1>16 DEF SameCall
    <3> QED BY <1>1, <1>3, <1>9, <2>1, <3>1, Stepped
  <2>4. Reserving(f)' = Reserving(f)
    <3>1. pc'[t] = p2  BY <2>1 DEF Changed
    <3> QED BY <1>3, <2>2, <2>3, <3>1, ReservingSame
  <2>5. fs_error' \in BOOLEAN /\ (Undamaged' => ~fs_error')  BY <1>9, <1>10, <1>16, Damage
  <2> QED BY <1>1, <1>3, <1>5, <1>8, <1>9, <1>11, <1>16, <2>1, <2>2, <2>4, <2>5, GetStep
<1>17. CASE nr = FAT_ENT_EOF /\ Set(t, "res", AtEof) /\ Goto(t, "add") /\ UNCHANGED fs_error
  <2>1. PICK l2 : l2 = [l EXCEPT !.res = AtEof]  OBVIOUS
  <2>2. /\ l2 \in LocType /\ SameCall(l, l2) /\ l2.res = AtEof
        /\ l2.fclus = l.fclus /\ l2.dclus = l.dclus /\ l2.cid = l.cid
      BY <1>3, <2>1, LocRes
  <2>3. loc'[t] = l2 /\ DOMAIN loc' = Threads /\ \A u \in Threads : u # t => loc'[u] = loc[u]
      BY <1>1, <1>10, <1>17, <2>1 DEF Set
  <2>4. l.fclus = Len(s) - 1  BY <1>4, <1>6, <1>12, <1>14, <1>17
  <2>5. l.ret = "chain_put"  BY <1>4, <1>6, <1>7, <2>4
  <2>6. Goal("add", l2) = l.ret  BY <2>2 DEF Goal, GetPcs, SameCall
  <2>7. PosOK("add", l2, s)
    <3>1. l.fclus <= l.tgt  BY <1>6
    <3> QED BY <1>6, <1>7, <2>2, <2>4, <2>5, <2>6, <3>1, ResDiffer DEF PosOK, SameCall
  <2>8. CidOK("add", l2, s, m.cache_valid_id, Cutting(f), m.i_size)
      BY <1>15, <2>2 DEF CidOK
  <2>9. pc' = [pc EXCEPT ![t] = "add"] /\ fs_error' = fs_error  BY <1>17 DEF Goto
  <2> QED BY <1>16, <2>2, <2>3, <2>7, <2>8, <2>9
<1>18. CASE Fails("walk_read") /\ Set(t, "res", Failed) /\ Goto(t, l.ret) /\ UNCHANGED fs_error
  <2>1. PICK l2 : l2 = [l EXCEPT !.res = Failed]  OBVIOUS
  <2>2. /\ l2 \in LocType /\ SameCall(l, l2) /\ l2.res = Failed
        /\ l2.fclus = l.fclus /\ l2.dclus = l.dclus /\ l2.cid = l.cid
      BY <1>3, <2>1, LocRes
  <2>3. loc'[t] = l2 /\ DOMAIN loc' = Threads /\ \A u \in Threads : u # t => loc'[u] = loc[u]
      BY <1>1, <1>10, <1>18, <2>1 DEF Set
  <2>4. Goal(l.ret, l2) = l.ret /\ l.ret \notin GetPcs  BY <1>6 DEF Goal, GetPcs, RetPcs
  <2>5. PosOK(l.ret, l2, s)
    <3>1. l.ret \notin {"lookup", "walk"}  BY <2>4 DEF GetPcs
    <3> QED BY <1>6, <1>7, <2>2, <2>4, <3>1, ResDiffer DEF PosOK, SameCall
  <2>6. CidOK(l.ret, l2, s, m.cache_valid_id, Cutting(f), m.i_size)
      BY <2>4 DEF CidOK, GetPcs
  <2>7. pc' = [pc EXCEPT ![t] = l.ret] /\ fs_error' = fs_error  BY <1>18 DEF Goto
  <2> QED BY <1>16, <2>2, <2>3, <2>5, <2>6, <2>7
<1>19. CASE /\ nr \in Clusters
            /\ loc' = [loc EXCEPT ![t].fclus = @ + 1, ![t].dclus = nr,
                        ![t].cid = IF cache_contiguous(l.cid, nr) THEN [l.cid EXCEPT !.n = @ + 1]
                                              ELSE cache_init(l.fclus + 1, nr)]
            /\ Goto(t, IF l.fclus + 1 < l.tgt THEN "walk" ELSE "add")
            /\ UNCHANGED fs_error
  <2>1. k # Len(s)
    <3>1. FAT_ENT_EOF \notin Clusters  BY <1>10, NotEof
    <3> QED BY <1>14, <1>19, <3>1
  <2>2. PICK a \in Nat : a = l.fclus + 1 /\ a > 0 /\ a < Len(s) /\ a <= l.tgt /\ s[a + 1] = nr
    <3>1. k \in Nat /\ k > 0 /\ k < Len(s) /\ k <= l.tgt  BY <1>4, <1>6, <1>12, <2>1
    <3>2. s[k + 1] = nr  BY <1>14, <2>1
    <3> QED BY <1>12, <3>1, <3>2
  <2>3. nr \in Nat /\ nr > 0  BY <1>19 DEF Clusters, FAT_START_ENT
  <2>4. PICK d : d = IF cache_contiguous(l.cid, nr) THEN [l.cid EXCEPT !.n = @ + 1]
                                              ELSE cache_init(l.fclus + 1, nr)
      OBVIOUS
  <2>5. PICK l2 : l2 = [l EXCEPT !.fclus = a, !.dclus = nr, !.cid = d]  OBVIOUS
  <2>6. PICK x \in CidType : x = l.cid  BY <1>15
  <2>7. x.id \in Int /\ x.f \in Int /\ x.d \in Int /\ x.n \in Int  BY DEF CidType
  <2>8. Cutting(f) => a < m.i_size
    <3>1. Cutting(f) => l.tgt < m.i_size  BY <1>1, <1>2, SeekBelow DEF GetPcs
    <3>2. m.i_size \in Nat  BY <1>3 DEF InodeType
    <3> QED BY <1>6, <2>2, <3>1, <3>2
  <2>9. /\ d \in CidType /\ d.id \in 0 .. m.cache_valid_id /\ d.n >= 0 /\ d.f # -1
        /\ d.f + d.n = a /\ d.d + d.n = nr
        /\ d.id \in {FAT_CACHE_VALID, m.cache_valid_id} => RunOK(s, d)
    <3>1. CASE cache_contiguous(x, nr)
      <4>1. x.d + x.n + 1 = nr  BY <3>1 DEF cache_contiguous
      <4>2. d = [x EXCEPT !.n = x.n + 1]  BY <2>4, <2>6, <3>1 DEF CidType
      <4>3. d \in CidType /\ d.id = x.id /\ d.f = x.f /\ d.d = x.d /\ d.n = x.n + 1
          BY <2>7, <4>2 DEF CidType
      <4>4. x.f # -1  BY <1>15, <2>3, <2>6, <4>1
      <4>5. x.f + x.n = l.fclus /\ x.n >= 0  BY <1>15, <2>6, <4>4
      <4>6. d.f + d.n = a /\ d.d + d.n = nr
        <5>1. \A i, j \in Int : i + (j + 1) = (i + j) + 1  OBVIOUS
        <5>2. x.f + (x.n + 1) = (x.f + x.n) + 1 /\ x.d + (x.n + 1) = (x.d + x.n) + 1  BY <2>7, <5>1
        <5> QED BY <2>2, <4>1, <4>3, <4>5, <5>2
      <4>7. ASSUME d.id \in {FAT_CACHE_VALID, m.cache_valid_id} PROVE RunOK(s, d)
        <5>1. RunOK(s, x)  BY <1>15, <2>6, <4>3, <4>4, <4>7
        <5>2. ASSUME NEW i \in 0 .. d.n PROVE s[(d.f + i) + 1] = d.d + i
          <6>1. CASE i \in 0 .. x.n  BY <4>3, <5>1, <6>1 DEF RunOK
          <6>2. CASE i = x.n + 1
            <7>1. i = d.n  BY <4>3, <6>2
            <7> QED BY <2>2, <4>6, <7>1
          <6>3. i \in 0 .. x.n \/ i = x.n + 1  BY <2>7, <4>3, <4>5
          <6> QED BY <6>1, <6>2, <6>3
        <5>3. d.f \in Nat /\ d.f > 0 /\ d.n \in Nat  BY <2>7, <4>3, <4>5, <5>1 DEF RunOK
        <5> QED BY <2>2, <4>6, <5>2, <5>3 DEF RunOK
      <4>8. d.n >= 0  BY <2>7, <4>3, <4>5
      <4> QED BY <1>15, <2>6, <4>3, <4>4, <4>6, <4>7, <4>8
    <3>2. CASE ~cache_contiguous(x, nr)
      <4>1. d = [id |-> 0, f |-> a, d |-> nr, n |-> 0]
          BY <2>2, <2>4, <2>6, <3>2 DEF cache_init, FAT_CACHE_VALID
      <4>2. d \in CidType /\ d.id = 0 /\ d.f = a /\ d.d = nr /\ d.n = 0
          BY <2>2, <2>3, <4>1 DEF CidType
      <4>3. \A i \in 0 .. 0 : s[(a + i) + 1] = nr + i  BY <2>2, <2>3
      <4>4. RunOK(s, d)  BY <2>2, <4>2, <4>3 DEF RunOK
      <4> QED BY <1>11, <2>2, <2>3, <4>2, <4>4
    <3> QED BY <2>6, <3>1, <3>2
  <2>10. /\ l2 \in LocType /\ SameCall(l, l2) /\ l2.res = l.res
         /\ l2.fclus = a /\ l2.dclus = nr /\ l2.cid = d
    <3>1. a \in Int /\ nr \in Int  BY <2>2, <2>3
    <3> QED BY <1>3, <2>5, <2>9, <3>1 DEF LocType, SameCall
  <2>11. loc'[t] = l2 /\ DOMAIN loc' = Threads /\ \A u \in Threads : u # t => loc'[u] = loc[u]
      BY <1>1, <1>10, <1>19, <2>2, <2>4, <2>5
  <2>12. PICK p2 : p2 = IF l.fclus + 1 < l.tgt THEN "walk" ELSE "add"  OBVIOUS
  <2>13. PosOK(p2, l2, s)
    <3>1. a \in 0 .. Len(s) - 1 /\ (p2 = "walk" => a < l.tgt) /\ (p2 # "walk" => a = l.tgt)
          /\ p2 \in {"walk", "add"}
        BY <1>4, <1>6, <2>2, <2>12
    <3>2. Goal(p2, l2) = l.ret  BY <2>10, <3>1 DEF Goal, GetPcs, SameCall
    <3> QED BY <1>6, <1>7, <2>2, <2>10, <3>1, <3>2, ResDiffer DEF PosOK, SameCall
  <2>14. CidOK(p2, l2, s, m.cache_valid_id, Cutting(f), m.i_size)
    <3>1. Within(d, Cutting(f), m.i_size)  BY <2>8, <2>9 DEF Within
    <3>2. p2 # "add_alloc"  BY <2>12
    <3>3. d.f + d.n <= a  BY <2>2, <2>9
    <3> QED BY <2>9, <2>10, <3>1, <3>2, <3>3 DEF CidOK
  <2>15. pc' = [pc EXCEPT ![t] = p2] /\ fs_error' = fs_error /\ p2 \in {"walk", "add", l.ret}
      BY <1>19, <2>12 DEF Goto
  <2> QED BY <1>16, <2>10, <2>11, <2>13, <2>14, <2>15
<1> QED BY <1>1, <1>13, <1>14, <1>17, <1>18, <1>19 DEF Walk

(* An entry takes the longer of two runs.                                  *)
LEMMA MergeOK ==
    ASSUME NEW c \in Seq(EntryType), NEW new, new.n \in Int, new.d \in Int, NEW s, NEW lim, NEW size,
           CacheOK(c, s, lim, size), RunOK(s, new), Within(new, lim, size), SameStart(c, new) # {}
    PROVE  /\ fat_cache_merge(c, new) \in Seq(EntryType)
           /\ Len(fat_cache_merge(c, new)) = Len(c)
           /\ CacheOK(fat_cache_merge(c, new), s, lim, size)
           /\ ~MergeBug(c, new)
<1>1. \A j \in SameStart(c, new) : j \in 1 .. Len(c) /\ c[j].f = new.f  BY DEF SameStart
<1>2. PICK k \in SameStart(c, new) : k = CHOOSE j \in SameStart(c, new) : TRUE
    OBVIOUS
<1>3. k \in 1 .. Len(c) /\ c[k].f = new.f  BY <1>1, <1>2
<1>6. c[k] \in EntryType  BY <1>3
<1>4. PICK n : n \in Int /\ n = IF new.n > c[k].n THEN new.n ELSE c[k].n
  <2>1. c[k].n \in Int  BY <1>6 DEF EntryType
  <2> QED BY <2>1
<1>5. PICK e : e = [c[k] EXCEPT !.n = n]  OBVIOUS
<1>7. e \in EntryType /\ e.f = c[k].f /\ e.d = c[k].d /\ e.n = n
    BY <1>4, <1>5, <1>6 DEF EntryType
<1>8. ASSUME NEW j \in SameStart(c, new) PROVE c[j].d = new.d
  <2>1. j \in 1 .. Len(c) /\ c[j].f = new.f /\ RunOK(s, c[j])  BY <1>1, <1>8 DEF CacheOK
  <2>2. c[j] \in EntryType  BY <2>1
  <2>3. c[j].n \in Nat /\ c[j].d \in Int /\ new.n >= 0 /\ c[j].f \in Int
      BY <2>1, <2>2, SMTT(30) DEF EntryType, RunOK
  <2>4. 0 \in 0 .. c[j].n /\ 0 \in 0 .. new.n  BY <2>3
  <2>5. s[(c[j].f + 0) + 1] = c[j].d + 0 /\ s[(new.f + 0) + 1] = new.d + 0  BY <2>1, <2>4 DEF RunOK
  <2>6. c[j].d + 0 = new.d + 0  BY <2>1, <2>5
  <2> QED BY <2>3, <2>6, <1>1, <1>8
<1>9. RunOK(s, e) /\ Within(e, lim, size)
  <2>1. RunOK(s, c[k]) /\ Within(c[k], lim, size) /\ c[k].d = new.d  BY <1>2, <1>3, <1>8 DEF CacheOK
  <2>2. CASE new.n > c[k].n
    <3>1. e.f = new.f /\ e.d = new.d /\ e.n = new.n  BY <1>3, <1>4, <1>7, <2>1, <2>2
    <3> QED BY <3>1 DEF RunOK, Within
  <2>3. CASE ~(new.n > c[k].n)
    <3>1. e.f = c[k].f /\ e.d = c[k].d /\ e.n = c[k].n  BY <1>4, <1>7, <2>3
    <3> QED BY <2>1, <3>1 DEF RunOK, Within
  <2> QED BY <2>2, <2>3
<1>10. PICK c2 : c2 = [c EXCEPT ![k] = e]  OBVIOUS
<1>11. c2 \in Seq(EntryType) /\ Len(c2) = Len(c) /\ c2[k] = e /\ \A j \in 1 .. Len(c) : j # k => c2[j] = c[j]
    BY <1>3, <1>7, <1>10
<1>12. CacheOK(c2, s, lim, size)  BY <1>9, <1>11 DEF CacheOK
<1>13. fat_cache_merge(c, new) = fat_cache_update_lru(c2, k)
  <2>1. c2 = [c EXCEPT ![k].n = IF new.n > @ THEN new.n ELSE @]  BY <1>3, <1>4, <1>5, <1>6, <1>10 DEF EntryType
  <2> QED BY <1>2, <2>1 DEF fat_cache_merge
<1>14. ~MergeBug(c, new)  BY <1>8 DEF MergeBug
<1> QED BY <1>3, <1>11, <1>12, <1>13, <1>14, LruOK

(* An entry at the front.                                                  *)
LEMMA ConsOK ==
    ASSUME NEW c \in Seq(EntryType), NEW e \in EntryType, NEW s, NEW lim, NEW size,
           CacheOK(c, s, lim, size), RunOK(s, e), Within(e, lim, size)
    PROVE  /\ <<e>> \o c \in Seq(EntryType) /\ Len(<<e>> \o c) = Len(c) + 1
           /\ CacheOK(<<e>> \o c, s, lim, size)
<1>1. PICK r : r = <<e>> \o c  OBVIOUS
<1>2. r \in Seq(EntryType) /\ Len(r) = Len(c) + 1  BY <1>1
<1>3. ASSUME NEW i \in 1 .. Len(r) PROVE r[i] = e \/ \E j \in 1 .. Len(c) : r[i] = c[j]
  <2>1. CASE i = 1  BY <1>1, <2>1
  <2>2. CASE i # 1
    <3>1. i - 1 \in 1 .. Len(c)  BY <1>2, <2>2
    <3>2. r[i] = c[i - 1]  BY <1>1, <1>2, <2>2
    <3> QED BY <3>1, <3>2
  <2> QED BY <2>1, <2>2
<1>4. CacheOK(r, s, lim, size)  BY <1>3 DEF CacheOK
<1> QED BY <1>1, <1>2, <1>4
LEMMA FrontOK ==
    ASSUME NEW c \in Seq(EntryType), NEW s, NEW lim, NEW size, CacheOK(c, s, lim, size), c # <<>>
    PROVE  LET r == SubSeq(c, 1, Len(c) - 1)
           IN r \in Seq(EntryType) /\ Len(r) = Len(c) - 1 /\ CacheOK(r, s, lim, size)
<1>1. PICK n \in Nat : n = Len(c) /\ n > 0  OBVIOUS
<1>2. PICK r : r = SubSeq(c, 1, n - 1)  OBVIOUS
<1>3. r \in Seq(EntryType) /\ Len(r) = n - 1 /\ \A i \in 1 .. n - 1 : r[i] = c[i]
    BY <1>1, <1>2
<1>4. CacheOK(r, s, lim, size)  BY <1>1, <1>3 DEF CacheOK
<1> QED BY <1>1, <1>2, <1>3, <1>4

(* Places that are reserved.                                               *)
LEMMA ReservingCount ==
    ASSUME NEW ch, NEW ch2, NEW t \in Threads, NEW f \in Files, StepBy(ch, ch2, t, f)
    PROVE  /\ Cardinality(Reserving(f)) \in Nat /\ Cardinality(Reserving(f)') \in Nat
           /\ pc[t] # "add_alloc" /\ pc'[t] = "add_alloc" =>
                Cardinality(Reserving(f)') = Cardinality(Reserving(f)) + 1
           /\ pc[t] = "add_alloc" /\ pc'[t] # "add_alloc" =>
                Cardinality(Reserving(f)') = Cardinality(Reserving(f)) - 1
<1>1. \A u \in Threads : u # t => pc'[u] = pc[u] /\ loc'[u] = loc[u]  BY DEF StepBy
<1>2. (pc[t] = "add_alloc" => loc[t].f = f) /\ (pc'[t] = "add_alloc" => loc'[t].f = f)  BY DEF StepBy
<1>3. PICK A, B : A = Reserving(f) /\ B = Reserving(f)'  OBVIOUS
<1>4. A \subseteq Threads /\ B \subseteq Threads  BY <1>3 DEF Reserving
<1>5. IsFiniteSet(A) /\ IsFiniteSet(B)  BY <1>4, ThreadAssumption, FS_Subset
<1>6. Cardinality(A) \in Nat /\ Cardinality(B) \in Nat  BY <1>5, FS_CardinalityType
<1>7. ASSUME pc[t] # "add_alloc", pc'[t] = "add_alloc"
      PROVE  Cardinality(B) = Cardinality(A) + 1
  <2>1. B = A \cup {t} /\ t \notin A  BY <1>1, <1>2, <1>3, <1>7 DEF Reserving
  <2> QED BY <1>5, <2>1, FS_AddElement
<1>8. ASSUME pc[t] = "add_alloc", pc'[t] # "add_alloc"
      PROVE  Cardinality(B) = Cardinality(A) - 1
  <2>1. B = A \ {t} /\ t \in A  BY <1>1, <1>2, <1>3, <1>8 DEF Reserving
  <2> QED BY <1>5, <2>1, FS_RemoveElement
<1> QED BY <1>3, <1>6, <1>7, <1>8

(* Two threads are in fat_cache_add with copies of entries that were taken *)
(* from the list meanwhile: the code then keeps a place for a copy that    *)
(* another thread may invalidate before it is added, or, when all places   *)
(* are reserved and the list is empty, takes the head of the list for an   *)
(* entry.  That needs three threads on one file.                           *)
CacheRace ==
    \E t \in Threads :
        LET l == loc[t]
            m == msdos_i[l.f]
        IN /\ pc[t] = "add" /\ l.cid.f # -1 /\ SameStart(cache[l.f], l.cid) = {}
           /\ l.cid.id \in {FAT_CACHE_VALID, m.cache_valid_id}
           /\ IF m.nr_caches < FAT_MAX_CACHE THEN l.cid.id # FAT_CACHE_VALID ELSE cache[l.f] = <<>>

LEMMA PosAdd ==
    ASSUME NEW p \in {"add", "add_alloc"}, NEW l, NEW s, PosOK(p, l, s), l.ret \in RetPcs
    PROVE  PosOK(l.ret, l, s) /\ PosOK("add_alloc", l, s)
<1>1. Goal(p, l) = l.ret /\ Goal("add_alloc", l) = l.ret /\ Goal(l.ret, l) = l.ret
    BY DEF Goal, GetPcs, RetPcs
<1>2. l.ret \notin GetPcs /\ l.ret \notin {"lookup", "walk"} /\ p \in GetPcs /\ p \notin {"lookup", "walk"}
      /\ "add_alloc" \in GetPcs /\ "add_alloc" \notin {"lookup", "walk"}
    BY DEF GetPcs, RetPcs
<1> QED BY <1>1, <1>2 DEF PosOK

LEMMA AddStep ==
    ASSUME NEW ch, InvOf(ch), NEW t \in Threads, fat_cache_add(t), ~CacheRace
    PROVE  InvOf(ch)'
<1>1. PICK l, f, m, s, c : l = loc[t] /\ f = l.f /\ m = msdos_i[f] /\ s = ch[f] /\ c = cache[f]
    OBVIOUS
<1>2. pc[t] = "add"  BY DEF fat_cache_add
<1>3. /\ l \in LocType /\ f \in Files /\ m \in InodeType /\ PosOK(pc[t], l, s)
      /\ OpOK(t, pc[t], l, m.i_mutex) /\ FileOK(s, m)
      /\ CidOK(pc[t], l, s, m.cache_valid_id, Cutting(f), m.i_size)
    BY <1>1, <1>2, ThreadFacts
<1>4. /\ c \in Seq(EntryType) /\ CacheOK(c, s, Cutting(f), m.i_size)
      /\ m.nr_caches = Len(c) + Cardinality(Reserving(f)) /\ m.nr_caches <= FAT_MAX_CACHE
    BY <1>1, <1>3, CacheFacts
<1>5. /\ UNCHANGED <<fat_bits, fat, mirror, sbi_vars>> /\ failed \subseteq failed' /\ loc' = loc
    BY DEF fat_cache_add, Works, env_vars
<1>6. DOMAIN pc = Threads /\ DOMAIN loc = Threads /\ DOMAIN msdos_i = Files
       /\ cache \in [Files -> Seq(EntryType)] /\ fs_error \in BOOLEAN /\ (Undamaged => ~fs_error)
    BY DEF InvOf, SysOK, ErrorInv
<1>7. /\ l.cid \in CidType /\ l.cid.id \in 0 .. m.cache_valid_id /\ l.cid.n >= 0
      /\ l.cid.f # -1 /\ l.cid.id \in {FAT_CACHE_VALID, m.cache_valid_id}
            => RunOK(s, l.cid) /\ Within(l.cid, Cutting(f), m.i_size)
      /\ l.cid.f # -1 /\ l.cid.id = FAT_CACHE_VALID => l.cid.f + l.cid.n <= l.fclus
    BY <1>2, <1>3 DEF CidOK, LocType
<1>8. l.cid.f \in Int /\ l.cid.d \in Int /\ l.cid.n \in Int /\ l.cid.id \in Int  BY <1>7 DEF CidType
<1>9. l.ret \in RetPcs /\ pc[t] \in GetPcs  BY <1>2, <1>3 DEF OpOK, GetPcs
<1>10. PosOK(l.ret, l, s) /\ PosOK("add_alloc", l, s)  BY <1>2, <1>3, <1>9, PosAdd
<1>11. CidOK(l.ret, l, s, m.cache_valid_id, Cutting(f), m.i_size)
  <2>1. l.ret \notin {"walk", "add", "add_alloc"}  BY <1>9 DEF RetPcs
  <2> QED BY <2>1 DEF CidOK
<1>12. SameCall(l, l)  BY DEF SameCall
<1>13. PICK r \in Nat : r = Cardinality(Reserving(f))
  <2>1. Reserving(f) \subseteq Threads  BY DEF Reserving
  <2>2. IsFiniteSet(Reserving(f))  BY <2>1, ThreadAssumption, FS_Subset
  <2> QED BY <2>2, FS_CardinalityType
<1>14. ASSUME NEW p2 \in {l.ret, "add_alloc"}, NEW m2 \in InodeType, NEW c2 \in Seq(EntryType), SameFile(m, m2),
              pc' = [pc EXCEPT ![t] = p2],
              msdos_i' = [msdos_i EXCEPT ![f] = m2] \/ (msdos_i' = msdos_i /\ m2 = m),
              cache' = [cache EXCEPT ![f] = c2] \/ (cache' = cache /\ c2 = c), fs_error' = fs_error,
              CidOK(p2, l, s, m.cache_valid_id, Cutting(f), m.i_size),
              CacheOK(c2, s, Cutting(f), m.i_size),
              p2 = "add_alloc" => m2.nr_caches = Len(c2) + (r + 1),
              p2 # "add_alloc" => m2.nr_caches = Len(c2) + r,
              m2.nr_caches <= FAT_MAX_CACHE
       PROVE  InvOf(ch)'
  <2>1. Changed(t, f, p2, l, m2, c2)  BY <1>1, <1>3, <1>5, <1>6, <1>14, SMTT(20) DEF Changed
  <2>2. p2 \in GetPcs \cup {l.ret} /\ PosOK(p2, l, s)  BY <1>10, <1>14 DEF GetPcs
  <2>3. StepBy(ch, ch, t, f)  BY <1>1, <1>3, <1>5, <2>1, Stepped
  <2>4. pc'[t] = p2  BY <2>1 DEF Changed
  <2>5. Cardinality(Reserving(f)') = IF p2 = "add_alloc" THEN r + 1 ELSE r
    <3>1. CASE p2 = "add_alloc"  BY <1>2, <1>3, <1>13, <2>3, <2>4, <3>1, ReservingCount
    <3>2. CASE p2 # "add_alloc"
      <4>1. Reserving(f)' = Reserving(f)  BY <1>2, <1>3, <2>3, <2>4, <3>2, ReservingSame
      <4> QED BY <1>13, <3>2, <4>1
    <3> QED BY <3>1, <3>2
  <2>6. fs_error' \in BOOLEAN /\ (Undamaged' => ~fs_error')  BY <1>5, <1>6, <1>14, Damage
  <2>7. m2.nr_caches = Len(c2) + Cardinality(Reserving(f)')  BY <1>14, <2>5
  <2> QED BY <1>1, <1>3, <1>5, <1>9, <1>12, <1>14, <2>1, <2>2, <2>6, <2>7, GetStep
<1>15. m \in InodeType /\ SameFile(m, m)  BY <1>3 DEF SameFile
<1>16. l.ret # "add_alloc" /\ l.ret \in {l.ret, "add_alloc"}  BY <1>9 DEF RetPcs
<1>17. m.nr_caches = Len(c) + r  BY <1>4, <1>13
<1>19. CASE l.cid.f = -1 \/ (l.cid.id # FAT_CACHE_VALID /\ l.cid.id # m.cache_valid_id)
  <2>1. pc' = [pc EXCEPT ![t] = l.ret] /\ cache' = cache /\ msdos_i' = msdos_i /\ fs_error' = fs_error
      BY <1>1, <1>19 DEF fat_cache_add, Goto
  <2> QED BY <1>4, <1>11, <1>14, <1>15, <1>16, <1>17, <2>1
<1>20. CASE ~(l.cid.f = -1 \/ (l.cid.id # FAT_CACHE_VALID /\ l.cid.id # m.cache_valid_id))
  <2>1. RunOK(s, l.cid) /\ Within(l.cid, Cutting(f), m.i_size)  BY <1>7, <1>20
  <2>2. PICK e : e = CacheEntry(l.cid)  OBVIOUS
  <2>3. e \in EntryType /\ e.f = l.cid.f /\ e.d = l.cid.d /\ e.n = l.cid.n
      BY <1>8, <2>2 DEF CacheEntry, EntryType
  <2>4. RunOK(s, e) /\ Within(e, Cutting(f), m.i_size)  BY <2>1, <2>3 DEF RunOK, Within
  <2>5. CASE SameStart(c, l.cid) # {}
    <3>1. PICK c2 : c2 = fat_cache_merge(c, l.cid)  OBVIOUS
    <3>2. /\ c2 \in Seq(EntryType) /\ Len(c2) = Len(c) /\ CacheOK(c2, s, Cutting(f), m.i_size)
          /\ ~MergeBug(c, l.cid)
        BY <1>4, <1>8, <2>1, <2>5, <3>1, MergeOK
    <3>3. /\ cache' = [cache EXCEPT ![f] = c2] /\ fs_error' = (fs_error \/ MergeBug(c, l.cid))
          /\ pc' = [pc EXCEPT ![t] = l.ret] /\ msdos_i' = msdos_i
        BY <1>1, <1>20, <2>5, <3>1 DEF fat_cache_add, Goto
    <3>4. fs_error' = fs_error  BY <1>6, <3>2, <3>3
    <3>5. m.nr_caches = Len(c2) + r  BY <1>17, <3>2
    <3> QED BY <1>4, <1>11, <1>14, <1>15, <1>16, <3>2, <3>3, <3>4, <3>5
  <2>6. CASE SameStart(c, l.cid) = {} /\ m.nr_caches < FAT_MAX_CACHE
    <3>1. l.cid.id = FAT_CACHE_VALID
      <4>1. l.cid.id \in {FAT_CACHE_VALID, m.cache_valid_id} /\ l.cid.f # -1  BY <1>20
      <4> QED BY <1>1, <1>2, <2>6, <4>1 DEF CacheRace
    <3>2. PICK m2 : m2 = [m EXCEPT !.nr_caches = m.nr_caches + 1]  OBVIOUS
    <3>3. m2 \in InodeType /\ SameFile(m, m2) /\ m2.nr_caches = m.nr_caches + 1
        BY <1>3, <3>2 DEF InodeType, SameFile
    <3>4. /\ msdos_i' = [msdos_i EXCEPT ![l.f].nr_caches = @ + 1]
          /\ pc' = [pc EXCEPT ![t] = "add_alloc"] /\ cache' = cache /\ fs_error' = fs_error
        BY <1>1, <1>20, <2>6 DEF fat_cache_add, Goto
    <3>5. msdos_i' = [msdos_i EXCEPT ![f] = m2]  BY <1>1, <1>3, <1>6, <3>2, <3>4
    <3>6. m.nr_caches \in Int /\ Len(c) \in Nat  BY <1>3, <1>4 DEF InodeType
    <3>7. m2.nr_caches = Len(c) + (r + 1) /\ m2.nr_caches <= FAT_MAX_CACHE
        BY <1>17, <2>6, <3>3, <3>6, BoundsAssumption
    <3>8. CidOK("add_alloc", l, s, m.cache_valid_id, Cutting(f), m.i_size)
        BY <1>7, <1>20, <3>1 DEF CidOK
    <3> QED BY <1>4, <1>14, <3>3, <3>4, <3>5, <3>7, <3>8
  <2>7. CASE SameStart(c, l.cid) = {} /\ ~(m.nr_caches < FAT_MAX_CACHE)
    <3>1. c # <<>>
      <4>1. l.cid.id \in {FAT_CACHE_VALID, m.cache_valid_id} /\ l.cid.f # -1  BY <1>20
      <4> QED BY <1>1, <1>2, <2>7, <4>1 DEF CacheRace
    <3>2. PICK b : b = SubSeq(c, 1, Len(c) - 1)  OBVIOUS
    <3>3. b \in Seq(EntryType) /\ Len(b) = Len(c) - 1 /\ CacheOK(b, s, Cutting(f), m.i_size)
        BY <1>4, <3>1, <3>2, FrontOK
    <3>4. PICK c2 : c2 = <<e>> \o b  OBVIOUS
    <3>5. c2 \in Seq(EntryType) /\ Len(c2) = Len(b) + 1 /\ CacheOK(c2, s, Cutting(f), m.i_size)
        BY <2>3, <2>4, <3>3, <3>4, ConsOK
    <3>6. /\ cache' = [cache EXCEPT ![f] = c2] /\ fs_error' = (fs_error \/ c = <<>>)
          /\ pc' = [pc EXCEPT ![t] = l.ret] /\ msdos_i' = msdos_i
        BY <1>1, <1>20, <2>2, <2>7, <3>2, <3>4 DEF fat_cache_add, Goto
    <3>7. fs_error' = fs_error  BY <1>6, <3>1, <3>6
    <3>8. m.nr_caches = Len(c2) + r
      <4>1. Len(c2) = Len(c)  BY <1>4, <3>3, <3>5
      <4> QED BY <1>17, <4>1
    <3> QED BY <1>4, <1>11, <1>14, <1>15, <1>16, <3>5, <3>6, <3>7, <3>8
  <2> QED BY <2>5, <2>6, <2>7
<1> QED BY <1>19, <1>20

LEMMA CacheAllocStep ==
    ASSUME NEW ch, InvOf(ch), NEW t \in Threads, CacheAlloc(t)
    PROVE  InvOf(ch)'
<1>1. PICK l, f, m, s, c : l = loc[t] /\ f = l.f /\ m = msdos_i[f] /\ s = ch[f] /\ c = cache[f]
    OBVIOUS
<1>2. pc[t] = "add_alloc"  BY DEF CacheAlloc
<1>3. /\ l \in LocType /\ f \in Files /\ m \in InodeType /\ PosOK(pc[t], l, s)
      /\ OpOK(t, pc[t], l, m.i_mutex) /\ FileOK(s, m)
      /\ CidOK(pc[t], l, s, m.cache_valid_id, Cutting(f), m.i_size)
    BY <1>1, <1>2, ThreadFacts
<1>4. /\ c \in Seq(EntryType) /\ CacheOK(c, s, Cutting(f), m.i_size)
      /\ m.nr_caches = Len(c) + Cardinality(Reserving(f)) /\ m.nr_caches <= FAT_MAX_CACHE
    BY <1>1, <1>3, CacheFacts
<1>5. /\ UNCHANGED <<fat_bits, fat, mirror, sbi_vars>> /\ failed \subseteq failed' /\ loc' = loc
      /\ pc' = [pc EXCEPT ![t] = l.ret]
    BY <1>1 DEF CacheAlloc, Works, Fails, env_vars, Goto
<1>6. DOMAIN pc = Threads /\ DOMAIN loc = Threads /\ DOMAIN msdos_i = Files
       /\ cache \in [Files -> Seq(EntryType)] /\ fs_error \in BOOLEAN /\ (Undamaged => ~fs_error)
    BY DEF InvOf, SysOK, ErrorInv
<1>7. l.cid \in CidType /\ RunOK(s, l.cid) /\ Within(l.cid, Cutting(f), m.i_size)
    BY <1>2, <1>3 DEF CidOK, LocType
<1>8. l.cid.f \in Int /\ l.cid.d \in Int /\ l.cid.n \in Int /\ l.cid.id \in Int  BY <1>7 DEF CidType
<1>9. l.ret \in RetPcs /\ pc[t] \in GetPcs  BY <1>2, <1>3 DEF OpOK, GetPcs
<1>10. PosOK(l.ret, l, s)  BY <1>2, <1>3, <1>9, PosAdd
<1>11. CidOK(l.ret, l, s, m.cache_valid_id, Cutting(f), m.i_size)
  <2>1. l.ret \notin {"walk", "add", "add_alloc"}  BY <1>9 DEF RetPcs
  <2> QED BY <2>1 DEF CidOK
<1>12. SameCall(l, l)  BY DEF SameCall
<1>13. PICK r \in Nat : r = Cardinality(Reserving(f))
  <2>1. Reserving(f) \subseteq Threads  BY DEF Reserving
  <2>2. IsFiniteSet(Reserving(f))  BY <2>1, ThreadAssumption, FS_Subset
  <2> QED BY <2>2, FS_CardinalityType
<1>14. ASSUME NEW m2 \in InodeType, NEW c2 \in Seq(EntryType), SameFile(m, m2),
              msdos_i' = [msdos_i EXCEPT ![f] = m2] \/ (msdos_i' = msdos_i /\ m2 = m),
              cache' = [cache EXCEPT ![f] = c2] \/ (cache' = cache /\ c2 = c), fs_error' = fs_error,
              CacheOK(c2, s, Cutting(f), m.i_size),
              m2.nr_caches = Len(c2) + (r - 1), m2.nr_caches <= FAT_MAX_CACHE
       PROVE  InvOf(ch)'
  <2>1. Changed(t, f, l.ret, l, m2, c2)  BY <1>1, <1>3, <1>5, <1>6, <1>14 DEF Changed
  <2>2. l.ret \in GetPcs \cup {l.ret}  OBVIOUS
  <2>3. StepBy(ch, ch, t, f)  BY <1>1, <1>3, <1>5, <2>1, Stepped
  <2>4. pc'[t] = l.ret /\ l.ret # "add_alloc"  BY <1>9, <2>1 DEF Changed, RetPcs
  <2>5. Cardinality(Reserving(f)') = r - 1  BY <1>2, <1>3, <1>13, <2>3, <2>4, ReservingCount
  <2>6. fs_error' \in BOOLEAN /\ (Undamaged' => ~fs_error')  BY <1>5, <1>6, <1>14, Damage
  <2>7. m2.nr_caches = Len(c2) + Cardinality(Reserving(f)')  BY <1>14, <2>5
  <2> QED BY <1>1, <1>3, <1>5, <1>9, <1>10, <1>11, <1>12, <1>14, <2>1, <2>2, <2>6, <2>7, GetStep
<1>15. m \in InodeType /\ SameFile(m, m)  BY <1>3 DEF SameFile
<1>16. m.nr_caches = Len(c) + r /\ m.nr_caches \in Int /\ Len(c) \in Nat  BY <1>3, <1>4, <1>13 DEF InodeType
<1>17. PICK m2 : m2 = [m EXCEPT !.nr_caches = m.nr_caches - 1]  OBVIOUS
<1>18. m2 \in InodeType /\ SameFile(m, m2) /\ m2.nr_caches = m.nr_caches - 1
    BY <1>3, <1>17 DEF InodeType, SameFile
<1>19. m2.nr_caches = Len(c) + (r - 1) /\ m2.nr_caches <= FAT_MAX_CACHE
    BY <1>4, <1>16, <1>18, BoundsAssumption
<1>20. msdos_i' = [msdos_i EXCEPT ![l.f].nr_caches = @ - 1] => msdos_i' = [msdos_i EXCEPT ![f] = m2]
    BY <1>1, <1>3, <1>6, <1>17
<1>21. CASE SameStart(c, l.cid) # {} /\ cache' = [cache EXCEPT ![f] = fat_cache_merge(c, l.cid)]
            /\ fs_error' = (fs_error \/ MergeBug(c, l.cid))
            /\ msdos_i' = [msdos_i EXCEPT ![l.f].nr_caches = @ - 1]
  <2>1. PICK c2 : c2 = fat_cache_merge(c, l.cid)  OBVIOUS
  <2>2. /\ c2 \in Seq(EntryType) /\ Len(c2) = Len(c) /\ CacheOK(c2, s, Cutting(f), m.i_size)
        /\ ~MergeBug(c, l.cid)
      BY <1>4, <1>7, <1>8, <1>21, <2>1, MergeOK
  <2>3. fs_error' = fs_error  BY <1>6, <1>21, <2>2
  <2> QED BY <1>14, <1>18, <1>19, <1>20, <1>21, <2>1, <2>2, <2>3
<1>22. CASE cache' = [cache EXCEPT ![f] = <<CacheEntry(l.cid)>> \o c] /\ UNCHANGED <<msdos_i, fs_error>>
  <2>1. PICK e : e = CacheEntry(l.cid)  OBVIOUS
  <2>2. e \in EntryType /\ e.f = l.cid.f /\ e.d = l.cid.d /\ e.n = l.cid.n
      BY <1>8, <2>1 DEF CacheEntry, EntryType
  <2>3. RunOK(s, e) /\ Within(e, Cutting(f), m.i_size)  BY <1>7, <2>2 DEF RunOK, Within
  <2>4. PICK c2 : c2 = <<e>> \o c  OBVIOUS
  <2>5. c2 \in Seq(EntryType) /\ Len(c2) = Len(c) + 1 /\ CacheOK(c2, s, Cutting(f), m.i_size)
      BY <1>4, <2>2, <2>3, <2>4, ConsOK
  <2>6. m.nr_caches = Len(c2) + (r - 1)  BY <1>16, <2>5
  <2> QED BY <1>4, <1>14, <1>15, <1>22, <2>1, <2>4, <2>5, <2>6
<1>23. CASE msdos_i' = [msdos_i EXCEPT ![l.f].nr_caches = @ - 1] /\ UNCHANGED <<cache, fs_error>>
    BY <1>4, <1>14, <1>18, <1>19, <1>20, <1>23
<1> QED BY <1>1, <1>21, <1>22, <1>23 DEF CacheAlloc

-----------------------------------------------------------------------------
(* A step under the mutex of the file, and one that leaves the first FAT   *)
(* and the chains as they are.                                             *)
LEMMA MirrorStep ==
    ASSUME NEW ch, NEW ch2, NEW t \in Threads, NEW f, StepBy(ch, ch2, t, f), MirrorInv(ch),
           failed' \cap {"free_read", "free_mirror", "cut_mirror"} = {} =>
             \A o \in Offsets :
                \/ fat'[o] = mirror'[o]
                \/ o \div s_blocksize \in Pending(fat_bits, pc'[t], loc'[t], ch2[t])
                \/ fat[o] # mirror[o] /\ o \div s_blocksize \notin Pending(fat_bits, pc[t], loc[t], ch[t])
    PROVE  MirrorInv(ch2)'
<1> SUFFICES ASSUME failed' \cap {"free_read", "free_mirror", "cut_mirror"} = {},
                    NEW o \in Offsets', fat'[o] # mirror'[o]
             PROVE  \E u \in Threads : o \div s_blocksize \in Pending(fat_bits', pc'[u], loc'[u], ch2[u])
    BY DEF MirrorInv
<1>1. o \in Offsets /\ fat_bits' = fat_bits  BY DEF Offsets, StepBy
<1>2. CASE o \div s_blocksize \in Pending(fat_bits, pc'[t], loc'[t], ch2[t])  BY <1>1, <1>2
<1>3. CASE fat[o] # mirror[o] /\ o \div s_blocksize \notin Pending(fat_bits, pc[t], loc[t], ch[t])
  <2>1. PICK u \in Threads : o \div s_blocksize \in Pending(fat_bits, pc[u], loc[u], ch[u])
      BY <1>1, <1>3, Damage DEF MirrorInv, StepBy
  <2>2. u # t  BY <1>3, <2>1
  <2> QED BY <1>1, <2>1, <2>2 DEF StepBy
<1> QED BY <1>1, <1>2, <1>3

ReadersKept(s, s2, t, f, size, size2, um, um2) ==
    \A u \in Threads :
        (/\ u # t /\ pc[u] # "idle" /\ loc[u].f = f
         /\ loc[u] \in LocType /\ loc[u].op \in {"read", "bmap"}
         /\ loc[u].tgt < Len(s) /\ ReaderOK(loc[u], size, um))
        => /\ loc[u].tgt < Len(s2)
           /\ \A i \in 0 .. loc[u].tgt : s2[i + 1] = s[i + 1]
           /\ ReaderOK(loc[u], size2, um2)
RunsKept(s, s2, size, size2, fl, um, cut, cut2) ==
    \A e : (RunOK(s, e) /\ Within(e, cut, size) /\ (fl => um \/ e.f + e.n < size))
        => RunOK(s2, e) /\ Within(e, cut2, size2)
LEMMA HeldStep ==
    ASSUME NEW ch, NEW ch2, InvOf(ch), NEW t \in Threads, NEW f \in Files, NEW m, m = msdos_i[f],
           NEW p2, NEW l2, NEW m2, NEW c2, Changed(t, f, p2, l2, m2, c2),
           fat_bits' = fat_bits, failed \subseteq failed', m.i_mutex \in {t, None},
           pc[t] # "idle" => loc[t].f = f, p2 # "idle" => l2.f = f,
           pc[t] # "add_alloc", p2 # "add_alloc",
           \A x \in Owners : x # t /\ x # f => ch2[x] = ch[x],
           fat' \in Tables(fat_bits), mirror' \in Tables(fat_bits), fat_lock' \in Threads \cup {None},
           prev_free' \in Clusters, free_clusters' \in Int, free_clus_valid' \in BOOLEAN,
           fs_error' \in BOOLEAN, Undamaged' => ~fs_error',
           ChainInv(ch2)', CountInv', MirrorInv(ch2)', FileOK(ch2[f], m2),
           Undamaged' /\ p2 \notin LinkedPcs \cup {"cut_mirror"} => m2.i_blocks = Len(ch2[f]),
           ThreadOK(t, p2, l2, ch2[t], ch2[f], m2.i_size, m2.mmu_private, m2.i_blocks, m2.i_mutex,
                    Undamaged', p2 = "unmap"),
           CidOK(p2, l2, ch2[f], m2.cache_valid_id, Goal(p2, l2) = "cut", m2.i_size),
           Kept(m, m2, cache[f], c2) \/ Flushed(m, m2, cache[f], c2),
           ReadersKept(ch[f], ch2[f], t, f, m.i_size, m2.i_size, pc[t] = "unmap", p2 = "unmap"),
           RunsKept(ch[f], ch2[f], m.i_size, m2.i_size, Flushed(m, m2, cache[f], c2), pc[t] = "unmap",
                    Goal(pc[t], loc[t]) = "cut", Goal(p2, l2) = "cut")
    PROVE  InvOf(ch2)'
<1>1. ThreadInv(ch) /\ SysOK  BY DEF InvOf
<1>2. /\ pc'[t] = p2 /\ loc'[t] = l2 /\ msdos_i'[f] = m2 /\ cache'[f] = c2  BY DEF Changed
<1>3. StepBy(ch, ch2, t, f)
  <2>1. \A u \in Threads : u # t => ch2[u] = ch[u]  BY ThreadAssumption DEF Owners
  <2>2. \A g \in Files : g # f => ch2[g] = ch[g]  BY ThreadAssumption DEF Owners
  <2> QED BY <2>1, <2>2, Stepped
<1>4. /\ Unmapping(f) <=> pc[t] = "unmap"
      /\ Cutting(f) <=> Goal(pc[t], loc[t]) = "cut"
  <2>1. /\ Unmapping(f) <=> pc[t] = "unmap" /\ loc[t].f = f
        /\ Cutting(f) <=> Goal(pc[t], loc[t]) = "cut" /\ loc[t].f = f
      BY <1>1, HolderFlags
  <2>2. Goal(pc[t], loc[t]) = "cut" => pc[t] # "idle"  BY IdleGoal
  <2> QED BY <2>1, <2>2
<1>5. /\ Unmapping(f)' <=> p2 = "unmap"
      /\ Cutting(f)' <=> Goal(p2, l2) = "cut"
      /\ Growing(f)' <=> p2 \in LinkedPcs \cup {"cut_mirror"}
    BY <1>1, <1>2, <1>3, HolderFlagsAfter
<1>6. SysOK'  BY <1>1 DEF SysOK, Changed
<1>7. Held(ch, ch2, t, f)
  <2>1. msdos_i[f].i_mutex \in {t, None} /\ pc[t] # "add_alloc" /\ pc'[t] # "add_alloc"
      BY <1>2
  <2>2. Kept(msdos_i[f], msdos_i'[f], cache[f], cache'[f])
        \/ Flushed(msdos_i[f], msdos_i'[f], cache[f], cache'[f])
      BY <1>2
  <2>3. ASSUME NEW u \in Threads, u # t, pc[u] # "idle", loc[u].f = f, loc[u] \in LocType,
               loc[u].op \in {"read", "bmap"}, loc[u].tgt < Len(ch[f]),
               ReaderOK(loc[u], msdos_i[f].i_size, Unmapping(f))
        PROVE  /\ loc[u].tgt < Len(ch2[f])
               /\ \A i \in 0 .. loc[u].tgt : ch2[f][i + 1] = ch[f][i + 1]
               /\ ReaderOK(loc[u], msdos_i'[f].i_size, Unmapping(f)')
    <3>1. ReaderOK(loc[u], m.i_size, pc[t] = "unmap")  BY <1>4, <2>3 DEF ReaderOK
    <3>2. /\ loc[u].tgt < Len(ch2[f])
          /\ \A i \in 0 .. loc[u].tgt : ch2[f][i + 1] = ch[f][i + 1]
          /\ ReaderOK(loc[u], m2.i_size, p2 = "unmap")
        BY <2>3, <3>1 DEF ReadersKept
    <3> QED BY <1>2, <1>5, <3>2 DEF ReaderOK
  <2>4. ASSUME NEW e, RunOK(ch[f], e), Within(e, Cutting(f), msdos_i[f].i_size),
               Flushed(msdos_i[f], msdos_i'[f], cache[f], cache'[f])
                    => Unmapping(f) \/ e.f + e.n < msdos_i[f].i_size
        PROVE  RunOK(ch2[f], e) /\ Within(e, Cutting(f)', msdos_i'[f].i_size)
    <3>1. Within(e, Goal(pc[t], loc[t]) = "cut", m.i_size)  BY <1>4, <2>4 DEF Within
    <3>2. Flushed(m, m2, cache[f], c2) => pc[t] = "unmap" \/ e.f + e.n < m.i_size
        BY <1>2, <1>4, <2>4
    <3>3. RunOK(ch2[f], e) /\ Within(e, Goal(p2, l2) = "cut", m2.i_size)  BY <2>4, <3>1, <3>2 DEF RunsKept
    <3> QED BY <1>2, <1>5, <3>3 DEF Within
  <2> QED BY <2>1, <2>2, <2>3, <2>4 DEF Held
<1>8. ThreadAt(ch2, t, msdos_i[loc[t].f])'
  <2>1. CASE p2 = "idle"  BY <1>2, <2>1 DEF ThreadAt, ThreadOK
  <2>2. CASE p2 # "idle"
    <3>1. ThreadOK(t, p2, l2, ch2[t], ch2[f], m2.i_size, m2.mmu_private, m2.i_blocks, m2.i_mutex,
                   Undamaged', Unmapping(f)')
        BY <1>5 DEF ThreadOK, ReaderOK
    <3> QED BY <1>2, <2>2, <3>1 DEF ThreadAt
  <2> QED BY <2>1, <2>2
<1>9. CidAt(ch2, t, msdos_i[loc[t].f])'
  <2>1. CASE p2 = "idle"  BY <1>2, <2>1 DEF CidAt, CidOK
  <2>2. CASE p2 # "idle"
    <3>1. CidOK(p2, l2, ch2[f], m2.cache_valid_id, Cutting(f)', m2.i_size)
        BY <1>5 DEF CidOK, Within
    <3> QED BY <1>2, <2>2, <3>1 DEF CidAt
  <2> QED BY <2>1, <2>2
<1>10. Undamaged' /\ ~Growing(f)' => msdos_i'[f].i_blocks = Len(ch2[f])  BY <1>2, <1>5
<1>11. ErrorInv' /\ FileOK(ch2[f], msdos_i'[f])  BY <1>2 DEF ErrorInv
<1> QED BY <1>3, <1>6, <1>7, <1>8, <1>9, <1>10, <1>11, HeldInv

LEMMA CountSame ==
    ASSUME CountInv, FreeSet(Entries(fat_bits, fat))' = FreeSet(Entries(fat_bits, fat)),
           UNCHANGED <<free_clusters, free_clus_valid>>
    PROVE  CountInv'
BY DEF CountInv

(* The copies of the blocks bhs are written.                               *)
Copied(bhs) ==
    /\ mirror' \in Tables(fat_bits)
    /\ \A o \in Offsets : mirror'[o] = IF o \div s_blocksize \in bhs THEN fat[o] ELSE mirror[o]

(* A step that leaves the FAT and the chains as they are.                  *)
LEMMA QuietStep ==
    ASSUME NEW ch, InvOf(ch), NEW t \in Threads, NEW f \in Files, NEW m, m = msdos_i[f],
           NEW p2, NEW l2, NEW m2, NEW c2, Changed(t, f, p2, l2, m2, c2),
           UNCHANGED <<fat_bits, fat, free_clusters, free_clus_valid, prev_free>>,
           fat_lock' \in Threads \cup {None},
           failed \subseteq failed', m.i_mutex \in {t, None},
           pc[t] # "idle" => loc[t].f = f, p2 # "idle" => l2.f = f,
           pc[t] # "add_alloc", p2 # "add_alloc",
           fs_error' \in BOOLEAN, Undamaged' => ~fs_error',
           FileOK(ch[f], m2),
           Undamaged' /\ p2 \notin LinkedPcs \cup {"cut_mirror"} => m2.i_blocks = Len(ch[f]),
           ThreadOK(t, p2, l2, ch[t], ch[f], m2.i_size, m2.mmu_private, m2.i_blocks, m2.i_mutex,
                    Undamaged', p2 = "unmap"),
           CidOK(p2, l2, ch[f], m2.cache_valid_id, Goal(p2, l2) = "cut", m2.i_size),
           Kept(m, m2, cache[f], c2) \/ Flushed(m, m2, cache[f], c2),
           pc[t] # "unmap", p2 # "unmap", m.i_size <= m2.i_size,
           Goal(p2, l2) = "cut" => Flushed(m, m2, cache[f], c2) /\ m2.i_size = m.i_size,
           NEW bhs, Copied(bhs),
           failed' \cap {"free_read", "free_mirror", "cut_mirror"} = {} =>
             Pending(fat_bits, pc[t], loc[t], ch[t]) \subseteq bhs \cup Pending(fat_bits, p2, l2, ch[t])
    PROVE  InvOf(ch)'
<1>0. /\ mirror' \in Tables(fat_bits)
      /\ \A o \in Offsets : mirror'[o] = IF o \div s_blocksize \in bhs THEN fat[o] ELSE mirror[o]
    BY DEF Copied
<1>1. /\ SysOK /\ ChainInv(ch) /\ FileInv(ch) /\ CountInv /\ MirrorInv(ch)  BY DEF InvOf
<1>2. Undamaged' => Undamaged  BY Damage
<1>3. ChainInv(ch)'  BY <1>1, <1>2 DEF ChainInv
<1>4. CountInv'  BY <1>1 DEF CountInv
<1>5. MirrorInv(ch)'
  <2>1. StepBy(ch, ch, t, f)  BY Stepped
  <2>2. pc'[t] = p2 /\ loc'[t] = l2  BY DEF Changed
  <2>3. ASSUME failed' \cap {"free_read", "free_mirror", "cut_mirror"} = {}, NEW o \in Offsets
        PROVE  \/ fat'[o] = mirror'[o]
               \/ o \div s_blocksize \in Pending(fat_bits, pc'[t], loc'[t], ch[t])
               \/ fat[o] # mirror[o] /\ o \div s_blocksize \notin Pending(fat_bits, pc[t], loc[t], ch[t])
    <3>1. CASE o \div s_blocksize \in bhs  BY <1>0, <2>3, <3>1
    <3>2. CASE o \div s_blocksize \notin bhs /\ fat[o] = mirror[o]  BY <1>0, <2>3, <3>2
    <3>3. CASE o \div s_blocksize \notin bhs /\ fat[o] # mirror[o]  BY <1>0, <2>2, <2>3, <3>3
    <3> QED BY <3>1, <3>2, <3>3
  <2> QED BY <1>1, <2>1, <2>3, MirrorStep
<1>6. m \in InodeType /\ m2 \in InodeType  BY <1>1 DEF FileInv, FileOK
<1>7. m.i_size \in Nat /\ m2.i_size \in Nat  BY <1>6 DEF InodeType
<1>8. ASSUME NEW u \in Threads, u # t, pc[u] # "idle", loc[u].f = f,
             loc[u] \in LocType, loc[u].op \in {"read", "bmap"},
             loc[u].tgt < Len(ch[f]), ReaderOK(loc[u], m.i_size, pc[t] = "unmap")
      PROVE  ReaderOK(loc[u], m2.i_size, p2 = "unmap")
  <2>1. loc[u].tgt \in Nat  BY <1>8 DEF LocType
  <2>2. loc[u].tgt < m.i_size  BY <1>8 DEF ReaderOK
  <2>3. loc[u].tgt < m2.i_size  BY <1>7, <2>1, <2>2
  <2> QED BY <2>3 DEF ReaderOK
<1>9. ASSUME NEW e, RunOK(ch[f], e), Within(e, Goal(pc[t], loc[t]) = "cut", m.i_size),
             Flushed(m, m2, cache[f], c2) => pc[t] = "unmap" \/ e.f + e.n < m.i_size
      PROVE  RunOK(ch[f], e) /\ Within(e, Goal(p2, l2) = "cut", m2.i_size)
    BY <1>9 DEF Within
<1>10. /\ fat' \in Tables(fat_bits) /\ fat_bits' = fat_bits
       /\ prev_free' \in Clusters /\ free_clusters' \in Int /\ free_clus_valid' \in BOOLEAN
    BY <1>1 DEF SysOK
<1>11. ReadersKept(ch[f], ch[f], t, f, m.i_size, m2.i_size, pc[t] = "unmap", p2 = "unmap")
    BY <1>8 DEF ReadersKept
<1>12. RunsKept(ch[f], ch[f], m.i_size, m2.i_size, Flushed(m, m2, cache[f], c2), pc[t] = "unmap",
                Goal(pc[t], loc[t]) = "cut", Goal(p2, l2) = "cut")
    BY <1>9 DEF RunsKept
<1> QED BY <1>0, <1>3, <1>4, <1>5, <1>10, <1>11, <1>12, HeldStep
LEMMA SysFacts ==
    ASSUME NEW ch, InvOf(ch)
    PROVE  /\ fat_bits \in Widths /\ fat \in Tables(fat_bits) /\ mirror \in Tables(fat_bits)
           /\ fat_lock \in Threads \cup {None} /\ prev_free \in Clusters
           /\ free_clusters \in Int /\ free_clus_valid \in BOOLEAN /\ fs_error \in BOOLEAN
           /\ DOMAIN pc = Threads /\ DOMAIN loc = Threads /\ DOMAIN msdos_i = Files
           /\ cache \in [Files -> Seq(EntryType)]
           /\ Undamaged => ~fs_error
BY DEF InvOf, SysOK, ErrorInv

LEMMA PlainStep ==
    ASSUME NEW ch, InvOf(ch), NEW t \in Threads, NEW f \in Files, NEW m, m = msdos_i[f],
           NEW p2, NEW l2, NEW m2, NEW c2, Changed(t, f, p2, l2, m2, c2),
           UNCHANGED <<fat_bits, fat, mirror, sbi_vars>>, failed \subseteq failed',
           m.i_mutex \in {t, None},
           pc[t] # "idle" => loc[t].f = f, p2 # "idle" => l2.f = f,
           pc[t] \notin {"add_alloc", "unmap"} \cup MirrorPcs, p2 \notin {"add_alloc", "unmap"},
           fs_error' \in BOOLEAN, Undamaged' => ~fs_error',
           FileOK(ch[f], m2),
           Undamaged' /\ p2 \notin LinkedPcs \cup {"cut_mirror"} => m2.i_blocks = Len(ch[f]),
           ThreadOK(t, p2, l2, ch[t], ch[f], m2.i_size, m2.mmu_private, m2.i_blocks, m2.i_mutex,
                    Undamaged', FALSE),
           CidOK(p2, l2, ch[f], m2.cache_valid_id, Goal(p2, l2) = "cut", m2.i_size),
           Kept(m, m2, cache[f], c2) \/ Flushed(m, m2, cache[f], c2), m.i_size <= m2.i_size,
           Goal(p2, l2) = "cut" => Flushed(m, m2, cache[f], c2) /\ m2.i_size = m.i_size
    PROVE  InvOf(ch)'
<1>1. mirror' \in Tables(fat_bits) /\ fat_lock' \in Threads \cup {None}  BY SysFacts DEF sbi_vars
<1>2. UNCHANGED <<fat_bits, fat, free_clusters, free_clus_valid, prev_free>>  BY DEF sbi_vars
<1>0. PICK bhs : bhs = {}  OBVIOUS
<1>3. Copied(bhs)  BY <1>0, <1>1 DEF Copied
<1>4. Pending(fat_bits, pc[t], loc[t], ch[t]) = {}  BY DEF Pending, MirrorPcs
<1>5. (p2 = "unmap") = FALSE  OBVIOUS
<1>6. ThreadOK(t, p2, l2, ch[t], ch[f], m2.i_size, m2.mmu_private, m2.i_blocks, m2.i_mutex,
                    Undamaged', p2 = "unmap")
    BY <1>5
<1>7. Pending(fat_bits, pc[t], loc[t], ch[t]) \subseteq bhs \cup Pending(fat_bits, p2, l2, ch[t])
    BY <1>4
<1>8. /\ pc[t] # "add_alloc" /\ pc[t] # "unmap" /\ p2 # "add_alloc" /\ p2 # "unmap"  OBVIOUS
<1> QED BY <1>1, <1>2, <1>3, <1>6, <1>7, <1>8, QuietStep

(* A call under the mutex returns.                                         *)
CacheSet(f, c2) ==
    cache' = [cache EXCEPT ![f] = c2] \/ (cache' = cache /\ c2 = cache[f])
LEMMA ReturnStep ==
    ASSUME NEW ch, InvOf(ch), NEW t \in Threads, NEW l, l = loc[t], NEW f, f = l.f, NEW m, m = msdos_i[f],
           pc[t] # "idle", pc[t] \notin {"add_alloc", "unmap"} \cup MirrorPcs,
           l.op \in {"write", "truncate"}, ch[t] = <<>>,
           NEW ms, DOMAIN ms = Files, \A g \in Files : g # f => ms[g] = msdos_i[g],
           NEW m2, m2 = ms[f], FileOK(ch[f], m2), m.i_size <= m2.i_size,
           Undamaged' => m2.i_blocks = Len(ch[f]), Return(t, ms),
           NEW c2, Kept(m, m2, cache[f], c2) \/ Flushed(m, m2, cache[f], c2),
           CacheSet(f, c2),
           UNCHANGED <<fat_bits, fat, mirror, sbi_vars>>, failed \subseteq failed',
           fs_error' \in BOOLEAN, Undamaged' => ~fs_error'
    PROVE  InvOf(ch)'
<1>1. f \in Files /\ m.i_mutex = t  BY ThreadFacts DEF OpOK
<1>2. PICK m3 : m3 = [m2 EXCEPT !.i_mutex = None]  OBVIOUS
<1>3. m2 \in InodeType  BY DEF FileOK
<1>4. /\ m3 \in InodeType /\ m3.i_start = m2.i_start /\ m3.i_size = m2.i_size
      /\ m3.mmu_private = m2.mmu_private /\ m3.i_blocks = m2.i_blocks
      /\ m3.cache_valid_id = m2.cache_valid_id /\ m3.nr_caches = m2.nr_caches
    BY <1>2, <1>3 DEF InodeType
<1>5. /\ pc' = [pc EXCEPT ![t] = "idle"] /\ loc' = [loc EXCEPT ![t] = NoLoc]
      /\ msdos_i' = [ms EXCEPT ![f].i_mutex = None]
    BY DEF Return, Goto, NoLoc
<1>6. DOMAIN pc = Threads /\ DOMAIN loc = Threads /\ cache \in [Files -> Seq(EntryType)]
    BY SysFacts
<1>7. c2 \in Seq(EntryType)
  <2>1. <<>> \in Seq(EntryType) /\ cache[f] \in Seq(EntryType)  BY <1>1, <1>6
  <2> QED BY <2>1 DEF Kept, Flushed
<1>8. Changed(t, f, "idle", NoLoc, m3, c2)
  <2>1. pc'[t] = "idle" /\ loc'[t] = NoLoc /\ DOMAIN pc' = Threads /\ DOMAIN loc' = Threads
        /\ \A u \in Threads : u # t => pc'[u] = pc[u] /\ loc'[u] = loc[u]
      BY <1>5, <1>6
  <2>2. DOMAIN msdos_i' = Files /\ msdos_i'[f] = m3 /\ \A g \in Files : g # f => msdos_i'[g] = msdos_i[g]
      BY <1>1, <1>2, <1>5
  <2>3. cache' \in [Files -> Seq(EntryType)] /\ cache'[f] = c2 /\ \A g \in Files : g # f => cache'[g] = cache[g]
      BY <1>1, <1>6, <1>7 DEF CacheSet
  <2> QED BY <2>1, <2>2, <2>3 DEF Changed
<1>9. FileOK(ch[f], m3)  BY <1>4 DEF FileOK
<1>10. ThreadOK(t, "idle", NoLoc, ch[t], ch[f], m3.i_size, m3.mmu_private, m3.i_blocks, m3.i_mutex,
                    Undamaged', FALSE)
    BY DEF ThreadOK
<1>11. Kept(m, m3, cache[f], c2) \/ Flushed(m, m3, cache[f], c2)  BY <1>4 DEF Kept, Flushed
<1>12. Goal("idle", NoLoc) # "cut"  BY IdleGoal
<1>13. CidOK("idle", NoLoc, ch[f], m3.cache_valid_id, Goal("idle", NoLoc) = "cut", m3.i_size)
    BY DEF CidOK
<1>14. m.i_mutex \in {t, None} /\ m.i_size <= m3.i_size /\ (Undamaged' => m3.i_blocks = Len(ch[f]))  BY <1>1, <1>4
<1>15. loc[t].f = f /\ "idle" \notin {"add_alloc", "unmap"}  OBVIOUS
<1> QED BY <1>1, <1>8, <1>9, <1>10, <1>11, <1>12, <1>13, <1>14, <1>15, PlainStep

(* A call of fat_get_cluster begins.                                       *)
Entered(l, l2, n, r, st) ==
    /\ l2 \in LocType /\ l2.op = l.op /\ l2.f = l.f /\ l2.nr = l.nr /\ l2.cl = l.cl /\ l2.bhs = l.bhs
    /\ l2.skip = l.skip /\ l2.ret = r /\ l2.tgt = n /\ l2.res = NoRes /\ l2.fclus = 0 /\ l2.dclus = st
LEMMA EnterLoc ==
    ASSUME NEW l \in LocType, NEW n \in Nat, NEW r \in RetPcs, NEW st \in Int, NEW l2,
           l2 = [l EXCEPT !.tgt = n, !.ret = r, !.res = NoRes, !.fclus = 0, !.dclus = st]
    PROVE  Entered(l, l2, n, r, st)
<1>1. PICK x \in {NoRes, AtEof, Failed}, a \in Int : x = NoRes /\ a = 0  OBVIOUS
<1>2. r \in Rets  BY DEF Rets
<1>3. l2 = [l EXCEPT !.tgt = n, !.ret = r, !.res = x, !.fclus = a, !.dclus = st]  BY <1>1
<1>4. /\ l2 \in LocType /\ l2.op = l.op /\ l2.f = l.f /\ l2.nr = l.nr /\ l2.cl = l.cl /\ l2.bhs = l.bhs
      /\ l2.skip = l.skip /\ l2.ret = r /\ l2.tgt = n /\ l2.res = x /\ l2.fclus = a /\ l2.dclus = st
    BY ONLY <1>2, <1>3, x \in {NoRes, AtEof, Failed}, a \in Int, st \in Int, l \in LocType, n \in Nat
       DEF LocType
<1> QED BY <1>1, <1>4 DEF Entered
LEMMA Enter ==
    ASSUME NEW s \in Seq(Clusters), s # <<>>, NEW l \in LocType, NEW n \in Nat, NEW r \in RetPcs,
           NEW st, st = s[1],
           r = "chain_put" => n = FAT_ENT_EOF, r # "chain_put" => n < Len(s),
           r = "cut" => n = l.skip - 1,
           NEW l2, Entered(l, l2, n, r, st), NEW p2, p2 = IF n = 0 THEN r ELSE "lookup"
    PROVE  /\ l2 \in LocType /\ l2.op = l.op /\ l2.f = l.f /\ l2.nr = l.nr /\ l2.cl = l.cl
           /\ l2.skip = l.skip /\ l2.ret = r /\ l2.tgt = n /\ l2.bhs = l.bhs
           /\ PosOK(p2, l2, s) /\ Goal(p2, l2) = r /\ p2 \in RetPcs \cup {"lookup"}
           /\ p2 \notin {"idle", "walk", "add", "add_alloc", "unmap", "truncate_blocks", "cut_mirror",
                         "down_write", "free", "free_mirror"} \cup LinkedPcs
           /\ \A id, lim, size : CidOK(p2, l2, s, id, lim, size)
<1>1. Len(s) \in Nat /\ Len(s) > 0  OBVIOUS
<1>3. /\ l2 \in LocType /\ l2.op = l.op /\ l2.f = l.f /\ l2.nr = l.nr /\ l2.cl = l.cl /\ l2.bhs = l.bhs
      /\ l2.skip = l.skip /\ l2.ret = r /\ l2.tgt = n /\ l2.res = NoRes /\ l2.fclus = 0 /\ l2.dclus = st
    BY DEF Entered
<1>4. /\ p2 \in RetPcs \cup {"lookup"} /\ Goal(p2, l2) = r
      /\ p2 \notin {"idle", "walk", "add", "add_alloc", "unmap", "truncate_blocks", "cut_mirror",
                         "down_write", "free", "free_mirror"} \cup LinkedPcs
      /\ p2 = "lookup" => n > 0
      /\ p2 # "lookup" => p2 \notin GetPcs /\ n = 0
    BY <1>3 DEF Goal, GetPcs, RetPcs, LinkedPcs
<1>5. 0 \in 0 .. Len(s) - 1 /\ st = s[0 + 1] /\ 0 <= n  BY <1>1
<1>6. PosOK(p2, l2, s)
    BY <1>3, <1>4, <1>5, ResDiffer DEF PosOK
<1>7. \A id, lim, size : CidOK(p2, l2, s, id, lim, size)  BY <1>4 DEF CidOK
<1> QED BY <1>3, <1>4, <1>6, <1>7

(* What holds of a thread that writes or truncates.                        *)
LEMMA WriterFacts ==
    ASSUME NEW ch, InvOf(ch), NEW t \in Threads, pc[t] # "idle", NEW l, l = loc[t],
           NEW f, f = l.f, NEW m, m = msdos_i[f], NEW s, s = ch[f],
           Goal(pc[t], l) # "bmap_cluster"
    PROVE  /\ l \in LocType /\ f \in Files /\ m \in InodeType /\ FileOK(s, m)
           /\ l.op \in {"write", "truncate"} /\ m.i_mutex = t
           /\ l.op = "write" => Goal(pc[t], l) \in WritePcs
           /\ l.op = "truncate" => Goal(pc[t], l) \in TruncatePcs
           /\ HoldOK(pc[t], l, ch[t])
           /\ SizeOK(pc[t], l, s, m.i_size, m.mmu_private, m.i_blocks, Undamaged)
           /\ Undamaged /\ pc[t] \notin LinkedPcs \cup {"cut_mirror"} => m.i_blocks = Len(s)
           /\ s \in Seq(Clusters) /\ Len(s) \in Nat /\ t # f
<1>1. /\ l \in LocType /\ f \in Files /\ m \in InodeType /\ FileOK(s, m)
      /\ OpOK(t, pc[t], l, m.i_mutex) /\ HoldOK(pc[t], l, ch[t])
      /\ SizeOK(pc[t], l, s, m.i_size, m.mmu_private, m.i_blocks, Undamaged)
    BY ThreadFacts
<1>2. l.op \in {"write", "truncate"} /\ m.i_mutex = t  BY <1>1 DEF OpOK, LocType
<1>3. /\ l.op = "write" => Goal(pc[t], l) \in WritePcs
      /\ l.op = "truncate" => Goal(pc[t], l) \in TruncatePcs
    BY <1>1 DEF OpOK
<1>4. Undamaged /\ pc[t] \notin LinkedPcs \cup {"cut_mirror"} => m.i_blocks = Len(s)
  <2>1. ThreadInv(ch) /\ FileInv(ch)  BY DEF InvOf
  <2>2. Growing(f) <=> pc[t] \in LinkedPcs \cup {"cut_mirror"} /\ loc[t].f = f
      BY <1>1, <1>2, <2>1, HolderFlags
  <2> QED BY <1>1, <2>1, <2>2 DEF FileInv
<1>5. s \in Seq(Clusters) /\ Len(s) \in Nat /\ t # f  BY <1>1, ChainFacts, ThreadAssumption DEF Owners
<1> QED BY <1>1, <1>2, <1>3, <1>4, <1>5

LEMMA ReturnSame ==
    ASSUME NEW ch, InvOf(ch), NEW t \in Threads, pc[t] # "idle", Goal(pc[t], loc[t]) # "bmap_cluster",
           pc[t] \notin {"add_alloc", "unmap"} \cup MirrorPcs \cup LinkedPcs, ch[t] = <<>>,
           Return(t, msdos_i), cache' = cache,
           UNCHANGED <<fat_bits, fat, mirror, sbi_vars>>, failed \subseteq failed',
           fs_error' \in BOOLEAN, Undamaged' => ~fs_error'
    PROVE  InvOf(ch)'
<1>1. PICK l, f, m, s, c : l = loc[t] /\ f = l.f /\ m = msdos_i[f] /\ s = ch[f] /\ c = cache[f]
    OBVIOUS
<1>2. /\ f \in Files /\ m \in InodeType /\ FileOK(s, m) /\ l.op \in {"write", "truncate"}
      /\ Undamaged /\ pc[t] \notin LinkedPcs \cup {"cut_mirror"} => m.i_blocks = Len(s)
    BY <1>1, WriterFacts
<1>3. Kept(m, m, c, c) /\ m.i_size <= m.i_size  BY <1>2 DEF Kept, InodeType
<1>4. Undamaged' => m.i_blocks = Len(s)
  <2>1. pc[t] # "cut_mirror"  BY DEF MirrorPcs
  <2> QED BY <1>2, <2>1, Damage
<1>5. DOMAIN msdos_i = Files /\ \A g \in Files : g # f => msdos_i[g] = msdos_i[g]  BY SysFacts
<1>6. pc[t] \notin {"add_alloc", "unmap"} \cup MirrorPcs  OBVIOUS
<1>7. PICK ms : ms = msdos_i  OBVIOUS
<1>8. CacheSet(f, c)  BY <1>1 DEF CacheSet
<1> QED BY <1>1, <1>2, <1>3, <1>4, <1>5, <1>6, <1>7, <1>8, ReturnStep

LEMMA DoneStep ==
    ASSUME NEW ch, InvOf(ch), NEW t \in Threads, Done(t)
    PROVE  InvOf(ch)'
<1>1. pc[t] = "done" /\ Goal(pc[t], loc[t]) = "done"  BY DEF Done, Goal, GetPcs
<1>2. HoldOK(pc[t], loc[t], ch[t])  BY <1>1, WriterFacts
<1>3. ch[t] = <<>>  BY <1>1, <1>2 DEF HoldOK, HoldPcs
<1>4. /\ Return(t, msdos_i) /\ cache' = cache /\ UNCHANGED <<fat_bits, fat, mirror, sbi_vars>>
      /\ fs_error' = fs_error /\ failed' = failed
    BY DEF Done, Works, env_vars
<1>5. fs_error' \in BOOLEAN /\ (Undamaged' => ~fs_error')  BY <1>4, SysFacts DEF Undamaged
<1>6. pc[t] \notin {"add_alloc", "unmap"} \cup MirrorPcs \cup LinkedPcs  BY <1>1 DEF MirrorPcs, LinkedPcs
<1>7. pc[t] # "idle" /\ Goal(pc[t], loc[t]) # "bmap_cluster" /\ failed \subseteq failed'  BY <1>1, <1>4
<1> QED BY <1>3, <1>4, <1>5, <1>6, <1>7, ReturnSame

(* A step that only moves the thread on.                                   *)
LEMMA MoveStep ==
    ASSUME NEW ch, InvOf(ch), NEW t \in Threads, pc[t] # "idle", NEW l, l = loc[t],
           NEW f, f = l.f, NEW m, m = msdos_i[f], NEW s, s = ch[f],
           Goal(pc[t], l) # "bmap_cluster",
           pc[t] \notin {"add_alloc", "unmap"} \cup MirrorPcs \cup LinkedPcs,
           NEW p2, NEW l2 \in LocType, l2.f = f, l2.op = l.op,
           p2 \notin {"idle", "walk", "add", "add_alloc", "unmap"}, Goal(p2, l2) # "cut",
           pc' = [pc EXCEPT ![t] = p2], DOMAIN loc' = Threads, loc'[t] = l2,
           \A u \in Threads : u # t => loc'[u] = loc[u],
           msdos_i' = msdos_i, cache' = cache,
           UNCHANGED <<fat_bits, fat, mirror, sbi_vars>>, failed \subseteq failed',
           fs_error' \in BOOLEAN, Undamaged' => ~fs_error',
           OpOK(t, p2, l2, t), HoldOK(p2, l2, ch[t]),
           SizeOK(p2, l2, s, m.i_size, m.mmu_private, m.i_blocks, Undamaged'), PosOK(p2, l2, s)
    PROVE  InvOf(ch)'
<1>1. /\ f \in Files /\ m \in InodeType /\ FileOK(s, m) /\ l.op \in {"write", "truncate"}
      /\ m.i_mutex = t
      /\ Undamaged /\ pc[t] \notin LinkedPcs \cup {"cut_mirror"} => m.i_blocks = Len(s)
    BY WriterFacts
<1>2. Undamaged' => m.i_blocks = Len(s)
  <2>1. pc[t] # "cut_mirror" /\ pc[t] \notin LinkedPcs  BY DEF MirrorPcs
  <2> QED BY <1>1, <2>1, Damage
<1>3. PICK c : c = cache[f]  OBVIOUS
<1>4. Changed(t, f, p2, l2, m, c)  BY <1>1, <1>3, SysFacts DEF Changed
<1>5. ReaderOK(l2, m.i_size, FALSE)  BY <1>1 DEF ReaderOK
<1>6. ThreadOK(t, p2, l2, ch[t], ch[f], m.i_size, m.mmu_private, m.i_blocks, m.i_mutex,
                    Undamaged', FALSE)
    BY <1>1, <1>5 DEF ThreadOK
<1>7. CidOK(p2, l2, ch[f], m.cache_valid_id, Goal(p2, l2) = "cut", m.i_size)  BY DEF CidOK
<1>8. Kept(m, m, cache[f], c) /\ m.i_size <= m.i_size  BY <1>1, <1>3 DEF Kept, InodeType
<1>9. /\ m.i_mutex \in {t, None} /\ loc[t].f = f
      /\ pc[t] \notin {"add_alloc", "unmap"} \cup MirrorPcs /\ p2 \notin {"add_alloc", "unmap"}
    BY <1>1
<1> QED BY <1>1, <1>2, <1>4, <1>6, <1>7, <1>8, <1>9, PlainStep

LEMMA WriteFailedStep ==
    ASSUME NEW ch, InvOf(ch), NEW t \in Threads, fat_write_failed(t)
    PROVE  InvOf(ch)'
<1>1. PICK l, f, m, s : l = loc[t] /\ f = l.f /\ m = msdos_i[f] /\ s = ch[f]
    OBVIOUS
<1>2. pc[t] = "write_failed" /\ Goal(pc[t], l) = "write_failed"  BY DEF fat_write_failed, Goal, GetPcs
<1>3. /\ l \in LocType /\ f \in Files /\ m \in InodeType /\ l.op \in {"write", "truncate"}
      /\ l.op = "truncate" => Goal(pc[t], l) \in TruncatePcs
      /\ HoldOK(pc[t], l, ch[t])
    BY <1>1, <1>2, WriterFacts
<1>4. ch[t] = <<>> /\ l.op = "write"  BY <1>2, <1>3 DEF HoldOK, HoldPcs, TruncatePcs
<1>5. /\ cache' = cache /\ UNCHANGED <<fat_bits, fat, mirror, sbi_vars>>
      /\ fs_error' = fs_error /\ failed' = failed
    BY DEF fat_write_failed, Works, env_vars
<1>6. fs_error' \in BOOLEAN /\ (Undamaged' => ~fs_error') /\ failed \subseteq failed'  BY <1>5, SysFacts DEF Undamaged
<1>7. pc[t] \notin {"add_alloc", "unmap"} \cup MirrorPcs \cup LinkedPcs /\ pc[t] # "idle"
      /\ Goal(pc[t], l) # "bmap_cluster"
    BY <1>2 DEF MirrorPcs, LinkedPcs
<1>8. CASE f \in Dirs
  <2>1. Return(t, msdos_i)  BY <1>1, <1>8 DEF fat_write_failed
  <2> QED BY <1>1, <1>4, <1>5, <1>6, <1>7, <2>1, ReturnSame
<1>9. CASE f \notin Dirs
  <2>1. loc' = [loc EXCEPT ![t].skip = m.i_size] /\ pc' = [pc EXCEPT ![t] = "truncate_blocks"]
        /\ msdos_i' = msdos_i
      BY <1>1, <1>9 DEF fat_write_failed, Set, Goto
  <2>2. PICK l2 : l2 = [l EXCEPT !.skip = m.i_size]  OBVIOUS
  <2>3. m.i_size \in Nat  BY <1>3 DEF InodeType
  <2>4. l2 \in LocType /\ l2.f = f /\ l2.op = l.op /\ l2.skip = m.i_size
      BY <1>1, <1>3, <2>2, <2>3 DEF LocType
  <2>5. DOMAIN loc' = Threads /\ loc'[t] = l2 /\ \A u \in Threads : u # t => loc'[u] = loc[u]
      BY <1>1, <2>1, <2>2, SysFacts
  <2>6. Goal("truncate_blocks", l2) = "truncate_blocks"  BY DEF Goal, GetPcs
  <2>7. OpOK(t, "truncate_blocks", l2, t)
      BY <1>4, <2>4, <2>6 DEF OpOK, GetPcs, WritePcs
  <2>8. HoldOK("truncate_blocks", l2, ch[t])  BY <1>4, <2>6 DEF HoldOK, HoldPcs
  <2>9. SizeOK("truncate_blocks", l2, s, m.i_size, m.mmu_private, m.i_blocks, Undamaged')
      BY <2>4, <2>6 DEF SizeOK, LinkedPcs
  <2>10. PosOK("truncate_blocks", l2, s)  BY DEF PosOK, GetPcs, RetPcs
  <2>11. Goal("truncate_blocks", l2) # "cut"
         /\ "truncate_blocks" \notin {"idle", "walk", "add", "add_alloc", "unmap"}
      BY <2>6
  <2>12. /\ pc[t] # "idle" /\ Goal(pc[t], l) # "bmap_cluster"
         /\ pc[t] \notin {"add_alloc", "unmap"} \cup MirrorPcs \cup LinkedPcs
      BY <1>7
  <2>13. /\ cache' = cache /\ UNCHANGED <<fat_bits, fat, mirror, sbi_vars>> /\ msdos_i' = msdos_i
         /\ pc' = [pc EXCEPT ![t] = "truncate_blocks"]
      BY <1>5, <2>1
  <2>14. l2 \in LocType /\ l2.f = f /\ l2.op = l.op  BY <2>4
  <2> QED BY <1>1, <1>6, <2>5, <2>7, <2>8, <2>9, <2>10, <2>11, <2>12, <2>13, <2>14, MoveStep
<1> QED BY <1>8, <1>9

LEMMA ChainUndoStep ==
    ASSUME NEW ch, InvOf(ch), NEW t \in Threads, ChainUndo(t)
    PROVE  InvOf(ch)'
<1>1. PICK l, f, m, s : l = loc[t] /\ f = l.f /\ m = msdos_i[f] /\ s = ch[f]
    OBVIOUS
<1>2. pc[t] = "chain_undo" /\ Goal(pc[t], l) = "chain_undo"  BY DEF ChainUndo, Goal, GetPcs
<1>3. /\ l \in LocType /\ f \in Files /\ m \in InodeType /\ l.op \in {"write", "truncate"}
      /\ l.op = "truncate" => Goal(pc[t], l) \in TruncatePcs
      /\ HoldOK(pc[t], l, ch[t])
    BY <1>1, <1>2, WriterFacts
<1>4. ch[t] # <<>> /\ l.cl = ch[t][1] /\ l.op = "write"  BY <1>2, <1>3 DEF HoldOK, HoldPcs, TruncatePcs
<1>5. /\ cache' = cache /\ UNCHANGED <<fat_bits, fat, mirror, sbi_vars>> /\ msdos_i' = msdos_i
      /\ fs_error' = fs_error /\ failed' = failed
      /\ loc' = [loc EXCEPT ![t].ret = "write_failed", ![t].bhs = {}] /\ pc' = [pc EXCEPT ![t] = "free"]
    BY DEF ChainUndo, Works, env_vars, Goto
<1>6. fs_error' \in BOOLEAN /\ (Undamaged' => ~fs_error') /\ failed \subseteq failed'  BY <1>5, SysFacts DEF Undamaged
<1>7. pc[t] \notin {"add_alloc", "unmap"} \cup MirrorPcs \cup LinkedPcs /\ pc[t] # "idle"
      /\ Goal(pc[t], l) # "bmap_cluster"
    BY <1>2 DEF MirrorPcs, LinkedPcs
<1>8. PICK l2 : l2 = [l EXCEPT !.ret = "write_failed", !.bhs = {}]  OBVIOUS
<1>9. "write_failed" \in Rets /\ {} \in SUBSET Int  BY DEF Rets
<1>10. l2 \in LocType /\ l2.f = f /\ l2.op = l.op /\ l2.ret = "write_failed" /\ l2.cl = l.cl
    BY <1>1, <1>3, <1>8, <1>9 DEF LocType
<1>11. DOMAIN loc' = Threads /\ loc'[t] = l2 /\ \A u \in Threads : u # t => loc'[u] = loc[u]
    BY <1>1, <1>5, <1>8, SysFacts
<1>12. Goal("free", l2) = "free"  BY DEF Goal, GetPcs
<1>13. OpOK(t, "free", l2, t)
    BY <1>4, <1>10, <1>12 DEF OpOK, GetPcs, WritePcs
<1>14. HoldOK("free", l2, ch[t])  BY <1>4, <1>10, <1>12 DEF HoldOK, HoldPcs
<1>15. SizeOK("free", l2, s, m.i_size, m.mmu_private, m.i_blocks, Undamaged')
    BY <1>12 DEF SizeOK, LinkedPcs
<1>16. PosOK("free", l2, s)  BY DEF PosOK, GetPcs, RetPcs
<1>17. Goal("free", l2) # "cut" /\ "free" \notin {"idle", "walk", "add", "add_alloc", "unmap"}
    BY <1>12
<1>18. /\ cache' = cache /\ UNCHANGED <<fat_bits, fat, mirror, sbi_vars>> /\ msdos_i' = msdos_i
       /\ pc' = [pc EXCEPT ![t] = "free"]
    BY <1>5
<1> QED BY <1>1, <1>6, <1>7, <1>10, <1>11, <1>13, <1>14, <1>15, <1>16, <1>17, <1>18, MoveStep, ZenonT(60)

LEMMA MappedStep ==
    ASSUME NEW ch, InvOf(ch), NEW t \in Threads, Mapped(t)
    PROVE  InvOf(ch)'
<1>1. PICK l, f, m, s : l = loc[t] /\ f = l.f /\ m = msdos_i[f] /\ s = ch[f]
    OBVIOUS
<1>2. pc[t] = "mapped" /\ Goal(pc[t], l) = "mapped"  BY DEF Mapped, Goal, GetPcs
<1>3. /\ l \in LocType /\ f \in Files /\ m \in InodeType /\ FileOK(s, m) /\ l.op \in {"write", "truncate"}
      /\ l.op = "truncate" => Goal(pc[t], l) \in TruncatePcs
      /\ Undamaged /\ pc[t] \notin LinkedPcs \cup {"cut_mirror"} => m.i_blocks = Len(s)
      /\ HoldOK(pc[t], l, ch[t])
    BY <1>1, <1>2, WriterFacts
<1>4. ch[t] = <<>> /\ l.op = "write"  BY <1>2, <1>3 DEF HoldOK, HoldPcs, TruncatePcs
<1>5. PosOK(pc[t], l, s)  BY <1>1, <1>2, ThreadFacts
<1>6. l.res # AtEof  BY <1>2, <1>5 DEF PosOK, RetPcs
<1>7. ~(l.res.ok /\ l.res.eof)
  <2>1. l.res \in {NoRes, Failed}  BY <1>3, <1>6 DEF LocType
  <2> QED BY <2>1 DEF NoRes, Failed
<1>8. /\ cache' = cache /\ UNCHANGED <<fat_bits, fat, mirror, sbi_vars>> /\ failed \subseteq failed'
    BY DEF Mapped, Works, Fails, env_vars
<1>9. fs_error' = fs_error
  <2>1. fs_error' = (fs_error \/ (l.res.ok /\ l.res.eof)) /\ fs_error \in BOOLEAN  BY <1>1, SysFacts DEF Mapped
  <2> QED BY <1>7, <2>1
<1>10. fs_error' \in BOOLEAN /\ (Undamaged' => ~fs_error')  BY <1>8, <1>9, SysFacts, Damage
<1>11. pc[t] \notin {"add_alloc", "unmap"} \cup MirrorPcs \cup LinkedPcs /\ pc[t] # "idle"
      /\ Goal(pc[t], l) # "bmap_cluster" /\ pc[t] # "cut_mirror"
    BY <1>2 DEF MirrorPcs, LinkedPcs
<1>12. CASE pc' = [pc EXCEPT ![t] = "write_failed"] /\ UNCHANGED <<msdos_i, loc>>
  <2>1. Goal("write_failed", l) = "write_failed"  BY DEF Goal, GetPcs
  <2>2. OpOK(t, "write_failed", l, t)  BY <1>4, <2>1 DEF OpOK, GetPcs, WritePcs
  <2>3. HoldOK("write_failed", l, ch[t])  BY <1>4, <2>1 DEF HoldOK, HoldPcs
  <2>4. SizeOK("write_failed", l, s, m.i_size, m.mmu_private, m.i_blocks, Undamaged')
      BY <2>1 DEF SizeOK, LinkedPcs
  <2>5. PosOK("write_failed", l, s)  BY DEF PosOK, GetPcs, RetPcs
  <2>6. DOMAIN loc' = Threads /\ loc'[t] = l /\ \A u \in Threads : u # t => loc'[u] = loc[u]
      BY <1>1, <1>12, SysFacts
  <2> QED BY <1>1, <1>3, <1>8, <1>10, <1>11, <1>12, <2>1, <2>2, <2>3, <2>4, <2>5, <2>6, MoveStep
<1>13. CASE Return(t, [msdos_i EXCEPT ![f].i_size = m.mmu_private])
  <2>1. PICK ms : ms = [msdos_i EXCEPT ![f].i_size = m.mmu_private]  OBVIOUS
  <2>2. PICK m2 : m2 = [m EXCEPT !.i_size = m.mmu_private]  OBVIOUS
  <2>3. DOMAIN ms = Files /\ ms[f] = m2 /\ \A g \in Files : g # f => ms[g] = msdos_i[g]
      BY <1>1, <1>3, <2>1, <2>2, SysFacts
  <2>4. /\ m2 \in InodeType /\ m2.i_size = m.mmu_private /\ m2.mmu_private = m.mmu_private
        /\ m2.i_start = m.i_start /\ m2.i_blocks = m.i_blocks /\ m2.cache_valid_id = m.cache_valid_id
        /\ m2.nr_caches = m.nr_caches /\ m.mmu_private \in Nat /\ m.i_size \in Nat
      BY <1>3, <2>2 DEF InodeType
  <2>5. FileOK(s, m2) /\ m.i_size <= m2.i_size  BY <1>3, <2>4 DEF FileOK
  <2>6. Undamaged' => m2.i_blocks = Len(s)  BY <1>3, <1>8, <1>11, <2>4, Damage
  <2>7. PICK c2 : c2 = cache[f]  OBVIOUS
  <2>8. Kept(m, m2, cache[f], c2)  BY <2>4, <2>7 DEF Kept
  <2>9. Return(t, ms)  BY <1>13, <2>1
  <2>10. pc[t] \notin {"add_alloc", "unmap"} \cup MirrorPcs  BY <1>11
  <2>11. CacheSet(f, c2)  BY <1>8, <2>7 DEF CacheSet
  <2> QED BY <1>1, <1>3, <1>4, <1>8, <1>10, <1>11, <2>3, <2>5, <2>6, <2>7, <2>8, <2>9, <2>10, <2>11, ReturnStep
<1> QED BY <1>1, <1>12, <1>13 DEF Mapped, Goto

LEMMA ChainAddStep ==
    ASSUME NEW ch, InvOf(ch), NEW t \in Threads, fat_chain_add(t)
    PROVE  \E ch2 : InvOf(ch2)'
<1>1. PICK l, f, m, s, own : l = loc[t] /\ f = l.f /\ m = msdos_i[f] /\ s = ch[f] /\ own = ch[t]
    OBVIOUS
<1>2. pc[t] = "chain_add" /\ Goal(pc[t], l) = "chain_add"  BY DEF fat_chain_add, Goal, GetPcs
<1>3. /\ l \in LocType /\ f \in Files /\ m \in InodeType /\ FileOK(s, m) /\ l.op \in {"write", "truncate"}
      /\ l.op = "truncate" => Goal(pc[t], l) \in TruncatePcs
      /\ Undamaged /\ pc[t] \notin LinkedPcs \cup {"cut_mirror"} => m.i_blocks = Len(s)
      /\ HoldOK(pc[t], l, own) /\ s \in Seq(Clusters) /\ Len(s) \in Nat /\ t # f /\ m.i_mutex = t
    BY <1>1, <1>2, WriterFacts
<1>4. own # <<>> /\ l.cl = own[1] /\ Len(own) = l.nr /\ l.op = "write"
    BY <1>2, <1>3 DEF HoldOK, HoldPcs, TruncatePcs
<1>5. own \in Seq(Clusters) /\ Len(own) \in Nat /\ Len(own) > 0 /\ own[1] \in Clusters
  <2>1. own \in Seq(Clusters)  BY <1>1, ChainFacts DEF Owners
  <2> QED BY <1>4, <2>1
<1>6. /\ cache' = cache /\ UNCHANGED <<fat_bits, fat, mirror, sbi_vars>> /\ failed' = failed
      /\ fs_error' = fs_error
    BY DEF fat_chain_add, Works, env_vars
<1>7. fs_error' \in BOOLEAN /\ (Undamaged' => ~fs_error') /\ failed \subseteq failed' /\ (Undamaged' => Undamaged)
    BY <1>6, SysFacts DEF Undamaged
<1>8. pc[t] \notin {"add_alloc", "unmap"} \cup MirrorPcs \cup LinkedPcs /\ pc[t] # "idle"
      /\ Goal(pc[t], l) # "bmap_cluster" /\ pc[t] # "cut_mirror"
    BY <1>2 DEF MirrorPcs, LinkedPcs
<1>9. m.i_start = (IF s = <<>> THEN 0 ELSE s[1]) /\ (s # <<>> => s[1] \in Clusters)
    BY <1>3 DEF FileOK
<1>10. (m.i_start = 0) <=> (s = <<>>)  BY <1>9, ClusterFacts
<1>11. CASE s = <<>>
  <2>1. /\ msdos_i' = [msdos_i EXCEPT ![f].i_start = l.cl]
        /\ loc' = [loc EXCEPT ![t].fclus = -1] /\ pc' = [pc EXCEPT ![t] = "chain_done"]
      BY <1>1, <1>10, <1>11 DEF fat_chain_add, Set, Goto
  <2>2. PICK m2 : m2 = [m EXCEPT !.i_start = l.cl]  OBVIOUS
  <2>3. l.cl \in Int  BY <1>3 DEF LocType
  <2>4. /\ m2 \in InodeType /\ m2.i_start = l.cl /\ m2.i_size = m.i_size /\ m2.mmu_private = m.mmu_private
        /\ m2.i_blocks = m.i_blocks /\ m2.i_mutex = m.i_mutex /\ m2.cache_valid_id = m.cache_valid_id
        /\ m2.nr_caches = m.nr_caches /\ m.mmu_private \in Nat /\ m.i_size \in Nat
      BY <1>3, <2>2, <2>3 DEF InodeType
  <2>5. PICK a \in Int : a = -1  OBVIOUS
  <2>6. PICK l2 : l2 = [l EXCEPT !.fclus = a]  OBVIOUS
  <2>7. l2 \in LocType /\ l2.f = l.f /\ l2.op = l.op /\ l2.nr = l.nr /\ l2.fclus = a /\ l2.bhs = l.bhs
      BY <1>3, <2>5, <2>6 DEF LocType
  <2>8. PICK c2 : c2 = cache[f]  OBVIOUS
  <2>9. Changed(t, f, "chain_done", l2, m2, c2)
      BY <1>1, <1>3, <1>6, <2>1, <2>2, <2>5, <2>6, <2>8, SysFacts DEF Changed
  <2>10. PICK ch2 : ch2 = [ch EXCEPT ![f] = own, ![t] = <<>>]  OBVIOUS
  <2>11. /\ ch2[f] = own /\ ch2[t] = <<>> /\ \A x \in Owners : x # t /\ x # f => ch2[x] = ch[x]
         /\ ChainInv(ch2)
    <3>1. ChainInv(ch)  BY DEF InvOf
    <3>2. f \in Owners /\ t \in Owners  BY <1>3 DEF Owners
    <3>3. ch[f] = <<>>  BY <1>1, <1>11
    <3>4. DOMAIN ch = Owners  BY <3>1 DEF ChainInv, ChainOK
    <3>5. ChainInv(ch2)  BY <1>1, <1>3, <2>10, <3>1, <3>2, <3>3, ChainMove DEF ChainInv
    <3> QED BY <1>3, <2>10, <3>2, <3>4, <3>5
  <2>12. ChainInv(ch2)'  BY <1>6, <1>7, <2>11 DEF ChainInv
  <2>13. CountInv'  BY <1>6 DEF InvOf, CountInv, sbi_vars
  <2>14. MirrorInv(ch2)'
    <3>1. StepBy(ch, ch2, t, f)
      <4>1. \A u \in Threads : u # t => ch2[u] = ch[u]  BY <1>3, <2>11, ThreadAssumption DEF Owners
      <4>2. \A g \in Files : g # f => ch2[g] = ch[g]  BY <2>11, ThreadAssumption DEF Owners
      <4> QED BY <1>1, <1>3, <1>6, <1>7, <2>7, <2>9, <4>1, <4>2, Stepped
    <3>2. Pending(fat_bits, pc[t], loc[t], ch[t]) = {}  BY <1>8 DEF Pending, MirrorPcs
    <3>3. \A o \in Offsets : fat'[o] = mirror'[o]
              \/ (fat[o] # mirror[o] /\ o \div s_blocksize \notin Pending(fat_bits, pc[t], loc[t], ch[t]))
        BY <1>6, <3>2
    <3> QED BY <3>1, <3>3, MirrorStep DEF InvOf
  <2>15. Len(s) = 0  BY <1>11
  <2>16. FileOK(own, m2)
    <3>1. m2.i_size <= m2.mmu_private /\ m2.mmu_private <= Len(own) /\ m2.cache_valid_id # 0
        BY <1>3, <1>5, <2>4, <2>15 DEF FileOK
    <3> QED BY <1>4, <2>4, <3>1 DEF FileOK
  <2>17. Goal("chain_done", l2) = "chain_done"  BY DEF Goal, GetPcs
  <2>18. ThreadOK(t, "chain_done", l2, ch2[t], ch2[f], m2.i_size, m2.mmu_private, m2.i_blocks, m2.i_mutex,
                    Undamaged', FALSE)
    <3>1. OpOK(t, "chain_done", l2, m2.i_mutex)  BY <1>3, <1>4, <2>4, <2>7, <2>17 DEF OpOK, WritePcs, GetPcs
    <3>2. HoldOK("chain_done", l2, ch2[t])  BY <2>11, <2>17 DEF HoldOK, HoldPcs
    <3>3. SizeOK("chain_done", l2, ch2[f], m2.i_size, m2.mmu_private, m2.i_blocks, Undamaged')
      <4>1. m.mmu_private = 0  BY <1>3, <2>4, <2>15 DEF FileOK
      <4>2. l.nr \in Nat  BY <1>3 DEF LocType
      <4>3. m2.mmu_private + l2.nr <= Len(own) /\ l2.fclus = (Len(own) - l2.nr) - 1
          BY <1>4, <1>5, <2>4, <2>5, <2>7, <4>1, <4>2
      <4>4. Undamaged' => m2.i_blocks + l2.nr = Len(own)
          BY <1>3, <1>4, <1>7, <1>8, <2>4, <2>7, <2>15, <4>2
      <4> QED BY <2>11, <2>17, <4>3, <4>4 DEF SizeOK
    <3>4. PosOK("chain_done", l2, ch2[f])  BY DEF PosOK, GetPcs, RetPcs
    <3>5. ReaderOK(l2, m2.i_size, FALSE)  BY <1>4, <2>7 DEF ReaderOK
    <3> QED BY <2>7, <3>1, <3>2, <3>3, <3>4, <3>5 DEF ThreadOK
  <2>19. CidOK("chain_done", l2, ch2[f], m2.cache_valid_id, Goal("chain_done", l2) = "cut", m2.i_size)
      BY DEF CidOK
  <2>20. Kept(m, m2, cache[f], c2)  BY <2>4, <2>8 DEF Kept
  <2>21. ReadersKept(ch[f], ch2[f], t, f, m.i_size, m2.i_size, pc[t] = "unmap", "chain_done" = "unmap")
    <3>1. ASSUME NEW u \in Threads, loc[u] \in LocType, loc[u].tgt < Len(ch[f])
          PROVE  FALSE
        BY <1>1, <2>15, <3>1 DEF LocType
    <3> QED BY <3>1 DEF ReadersKept
  <2>22. RunsKept(ch[f], ch2[f], m.i_size, m2.i_size, Flushed(m, m2, cache[f], c2), pc[t] = "unmap",
                  Goal(pc[t], loc[t]) = "cut", Goal("chain_done", l2) = "cut")
    <3>1. ASSUME NEW e, RunOK(ch[f], e)  PROVE FALSE
        BY <1>1, <2>15, <3>1 DEF RunOK
    <3> QED BY <3>1 DEF RunsKept
  <2>23. "chain_done" \notin {"idle", "add_alloc", "unmap"} /\ "chain_done" \in LinkedPcs  BY DEF LinkedPcs
  <2>24. ThreadOK(t, "chain_done", l2, ch2[t], ch2[f], m2.i_size, m2.mmu_private, m2.i_blocks, m2.i_mutex,
                    Undamaged', "chain_done" = "unmap")
    <3>1. ("chain_done" = "unmap") = FALSE  OBVIOUS
    <3> QED BY <2>18, <3>1
  <2>25. /\ fat' \in Tables(fat_bits) /\ mirror' \in Tables(fat_bits) /\ fat_lock' \in Threads \cup {None}
         /\ prev_free' \in Clusters /\ free_clusters' \in Int /\ free_clus_valid' \in BOOLEAN
         /\ fat_bits' = fat_bits
      BY <1>6, SysFacts DEF sbi_vars
  <2>26. /\ m.i_mutex \in {t, None} /\ loc[t].f = f /\ l2.f = f /\ pc[t] # "add_alloc"
         /\ FileOK(ch2[f], m2)
      BY <1>1, <1>3, <1>8, <2>7, <2>11, <2>16
  <2>27. InvOf(ch2)'
      BY <1>1, <1>3, <1>7, <2>9, <2>11, <2>12, <2>13, <2>14, <2>19, <2>20,
         <2>21, <2>22, <2>23, <2>24, <2>25, <2>26, HeldStep
  <2> QED BY <2>27
<1>12. CASE s # <<>>
  <2>1. PICK n \in Nat : n = FAT_ENT_EOF /\ n # 0  BY SMT DEF FAT_ENT_EOF
  <2>2. PICK l2 : l2 = [l EXCEPT !.tgt = n, !.ret = "chain_put", !.res = NoRes, !.fclus = 0, !.dclus = m.i_start]
      OBVIOUS
  <2>3. loc' = [loc EXCEPT ![t] = l2] /\ pc' = [pc EXCEPT ![t] = "lookup"] /\ msdos_i' = msdos_i
      BY <1>1, <1>10, <1>12, <2>1, <2>2 DEF fat_chain_add, fat_get_cluster, Goto
  <2>4. PICK r \in RetPcs : r = "chain_put"  BY DEF RetPcs
  <2>5. PICK p2 : p2 = IF n = 0 THEN r ELSE "lookup"  OBVIOUS
  <2>6. m.i_start = s[1]  BY <1>9, <1>12
  <2>7. Entered(l, l2, n, r, m.i_start)
    <3>1. m.i_start \in Int /\ l \in LocType  BY <1>3 DEF InodeType
    <3>2. l2 = [l EXCEPT !.tgt = n, !.ret = r, !.res = NoRes, !.fclus = 0, !.dclus = m.i_start]
        BY <2>2, <2>4
    <3> QED BY <3>1, <3>2, EnterLoc
  <2>8. /\ l2 \in LocType /\ l2.op = l.op /\ l2.f = l.f /\ l2.nr = l.nr /\ l2.cl = l.cl
        /\ l2.ret = r /\ PosOK(p2, l2, s) /\ Goal(p2, l2) = r
        /\ p2 \notin {"idle", "walk", "add", "add_alloc", "unmap", "truncate_blocks", "cut_mirror",
                         "down_write", "free", "free_mirror"} \cup LinkedPcs
      BY <1>3, <1>12, <2>1, <2>4, <2>5, <2>6, <2>7, Enter
  <2>9. p2 = "lookup"  BY <2>1, <2>5
  <2>10. OpOK(t, p2, l2, t)  BY <1>4, <2>4, <2>8, <2>9 DEF OpOK, WritePcs
  <2>11. HoldOK(p2, l2, ch[t])  BY <1>1, <1>4, <2>4, <2>8 DEF HoldOK, HoldPcs
  <2>12. SizeOK(p2, l2, s, m.i_size, m.mmu_private, m.i_blocks, Undamaged')
      BY <2>4, <2>8 DEF SizeOK
  <2>13. DOMAIN loc' = Threads /\ loc'[t] = l2 /\ \A u \in Threads : u # t => loc'[u] = loc[u]
      BY <1>1, <2>3, SysFacts
  <2>14. /\ cache' = cache /\ UNCHANGED <<fat_bits, fat, mirror, sbi_vars>> /\ msdos_i' = msdos_i
         /\ pc' = [pc EXCEPT ![t] = p2]
      BY <1>6, <2>3, <2>9
  <2>15. l2 \in LocType /\ l2.f = f /\ l2.op = l.op /\ PosOK(p2, l2, s)  BY <1>1, <2>8
  <2>16. p2 \notin {"idle", "walk", "add", "add_alloc", "unmap"} /\ Goal(p2, l2) # "cut"  BY <2>4, <2>8
  <2>17. fs_error' \in BOOLEAN /\ (Undamaged' => ~fs_error') /\ failed \subseteq failed'  BY <1>7
  <2>18. /\ pc[t] # "idle" /\ Goal(pc[t], l) # "bmap_cluster"
         /\ pc[t] \notin {"add_alloc", "unmap"} \cup MirrorPcs \cup LinkedPcs
      BY <1>8
  <2>19. InvOf(ch)'
      BY <1>1, <2>10, <2>11, <2>12, <2>13, <2>14, <2>15, <2>16, <2>17, <2>18, MoveStep
  <2> QED BY <2>19
<1> QED BY <1>11, <1>12

(* A step that changes the clusters the thread holds, and the FAT.         *)
SysNext ==
    /\ fat_bits' = fat_bits /\ fat' \in Tables(fat_bits) /\ mirror' \in Tables(fat_bits)
    /\ fat_lock' \in Threads \cup {None} /\ prev_free' \in Clusters
    /\ free_clusters' \in Int /\ free_clus_valid' \in BOOLEAN
    /\ failed \subseteq failed' /\ fs_error' \in BOOLEAN /\ (Undamaged' => ~fs_error')
Moves(t, p2, l2) ==
    /\ pc' = [pc EXCEPT ![t] = p2] /\ DOMAIN loc' = Threads /\ loc'[t] = l2
    /\ \A u \in Threads : u # t => loc'[u] = loc[u]
(* What thread t changes in the FAT or its copy, it still has to copy.     *)
MirrorNext(t, own, p2, l2, own2) ==
    failed' \cap {"free_read", "free_mirror", "cut_mirror"} = {} =>
        \A o \in Offsets :
            \/ fat'[o] = mirror'[o]
            \/ o \div s_blocksize \in Pending(fat_bits, p2, l2, own2)
            \/ fat[o] # mirror[o] /\ o \div s_blocksize \notin Pending(fat_bits, pc[t], loc[t], own)
LEMMA OwnStep ==
    ASSUME NEW ch, InvOf(ch), NEW t \in Threads, pc[t] # "idle", NEW l, l = loc[t],
           NEW f, f = l.f, NEW m, m = msdos_i[f], NEW s, s = ch[f],
           Goal(pc[t], l) # "bmap_cluster",
           pc[t] \notin {"add_alloc", "unmap", "cut_mirror"} \cup LinkedPcs,
           NEW ch2, \A x \in Owners : x # t => ch2[x] = ch[x],
           NEW p2, NEW l2 \in LocType, l2.f = f, l2.op = l.op,
           p2 \notin {"idle", "walk", "add", "add_alloc", "unmap"}, Goal(p2, l2) # "cut",
           Moves(t, p2, l2), msdos_i' = msdos_i, cache' = cache, SysNext,
           ChainInv(ch2)', CountInv', MirrorNext(t, ch[t], p2, l2, ch2[t]),
           OpOK(t, p2, l2, t), HoldOK(p2, l2, ch2[t]),
           SizeOK(p2, l2, s, m.i_size, m.mmu_private, m.i_blocks, Undamaged'), PosOK(p2, l2, s)
    PROVE  InvOf(ch2)'
<1>0. fat_bits' = fat_bits /\ failed \subseteq failed'  BY DEF SysNext
<1>1. /\ f \in Files /\ m \in InodeType /\ FileOK(s, m) /\ l.op \in {"write", "truncate"}
      /\ m.i_mutex = t /\ t # f
      /\ Undamaged /\ pc[t] \notin LinkedPcs \cup {"cut_mirror"} => m.i_blocks = Len(s)
    BY WriterFacts
<1>2. Undamaged' => m.i_blocks = Len(s)  BY <1>0, <1>1, Damage
<1>3. PICK c : c = cache[f]  OBVIOUS
<1>4. Changed(t, f, p2, l2, m, c)  BY <1>1, <1>3, SysFacts DEF Changed, Moves
<1>5. ch2[f] = s /\ ch2[f] = ch[f]  BY <1>1 DEF Owners
<1>6. (p2 = "unmap") = FALSE /\ (pc[t] = "unmap") = FALSE  OBVIOUS
<1>7. ThreadOK(t, p2, l2, ch2[t], ch2[f], m.i_size, m.mmu_private, m.i_blocks, m.i_mutex,
                    Undamaged', p2 = "unmap")
  <2>1. ReaderOK(l2, m.i_size, p2 = "unmap")  BY <1>1 DEF ReaderOK
  <2> QED BY <1>1, <1>5, <2>1 DEF ThreadOK
<1>8. CidOK(p2, l2, ch2[f], m.cache_valid_id, Goal(p2, l2) = "cut", m.i_size)  BY DEF CidOK
<1>9. Kept(m, m, cache[f], c)  BY <1>1, <1>3 DEF Kept
<1>10. MirrorInv(ch2)'
  <2>1. StepBy(ch, ch2, t, f)
    <3>1. \A u \in Threads : u # t => ch2[u] = ch[u]  BY DEF Owners
    <3>2. \A g \in Files : g # f => ch2[g] = ch[g]  BY ThreadAssumption DEF Owners
    <3> QED BY <1>0, <1>1, <1>4, <3>1, <3>2, Stepped
  <2>2. pc'[t] = p2 /\ loc'[t] = l2  BY <1>4 DEF Changed
  <2>3. failed' \cap {"free_read", "free_mirror", "cut_mirror"} = {} =>
             \A o \in Offsets :
                \/ fat'[o] = mirror'[o]
                \/ o \div s_blocksize \in Pending(fat_bits, pc'[t], loc'[t], ch2[t])
                \/ fat[o] # mirror[o] /\ o \div s_blocksize \notin Pending(fat_bits, pc[t], loc[t], ch[t])
      BY <2>2 DEF MirrorNext
  <2> QED BY <2>1, <2>3, MirrorStep DEF InvOf
<1>11. ReadersKept(ch[f], ch2[f], t, f, m.i_size, m.i_size, pc[t] = "unmap", p2 = "unmap")
    BY <1>5, <1>6 DEF ReadersKept
<1>12. RunsKept(ch[f], ch2[f], m.i_size, m.i_size, Flushed(m, m, cache[f], c), pc[t] = "unmap",
                Goal(pc[t], loc[t]) = "cut", Goal(p2, l2) = "cut")
    BY <1>5 DEF RunsKept, Within
<1>13. m.i_mutex \in {t, None} /\ f \in Files /\ loc[t].f = f  BY <1>1
<1>14. FileOK(ch2[f], m)  BY <1>1, <1>5
<1>15. Undamaged' /\ p2 \notin LinkedPcs \cup {"cut_mirror"} => m.i_blocks = Len(ch2[f])  BY <1>2, <1>5
<1>16. \A x \in Owners : x # t /\ x # f => ch2[x] = ch[x]  OBVIOUS
<1>17. Kept(m, m, cache[f], c) \/ Flushed(m, m, cache[f], c)  BY <1>9
<1>18. pc[t] # "add_alloc" /\ p2 # "add_alloc" /\ (p2 # "idle" => l2.f = f)  OBVIOUS
<1>19. /\ InvOf(ch) /\ m = msdos_i[f] /\ ChainInv(ch2)' /\ CountInv'
       /\ fat_bits' = fat_bits /\ failed \subseteq failed' /\ fs_error' \in BOOLEAN /\ (Undamaged' => ~fs_error')
       /\ fat' \in Tables(fat_bits) /\ mirror' \in Tables(fat_bits) /\ fat_lock' \in Threads \cup {None}
       /\ prev_free' \in Clusters /\ free_clusters' \in Int /\ free_clus_valid' \in BOOLEAN
    BY DEF SysNext
<1> QED BY ONLY t \in Threads, <1>4, <1>7, <1>8, <1>10, <1>11, <1>12, <1>13, <1>14, <1>15, <1>16, <1>17, <1>18, <1>19, HeldStep

-----------------------------------------------------------------------------
(* fat_alloc_clusters.                                                     *)
LEMMA BlocksInt ==
    ASSUME NEW bits \in Widths, NEW c \in Clusters
    PROVE  BhsOf(Pos(bits, c)) \subseteq Int
<1>1. PICK p \in Posns(bits) : p = Pos(bits, c)  BY PosPosn
<1>2. PICK b \in Nat \ {0} : b = s_blocksize  BY BlockAssumption
<1>3. p.off \in Nat /\ p.nr_bhs \in {1, 2}  BY DEF Posns
<1>4. (p.off \div b) \in Int  BY <1>3
<1>5. \A n \in 0 .. p.nr_bhs - 1 : (p.off \div b) + n \in Int  BY <1>3, <1>4
<1> QED BY <1>1, <1>2, <1>5 DEF BhsOf

Taking(tab, new, s) ==
    /\ s \in Seq(Clusters) /\ Distinct(s) /\ new \in Tables(fat_bits)
    /\ \A k \in 1 .. Len(s) : Entries(fat_bits, tab)[s[k]] = FAT_ENT_FREE
                              /\ Entries(fat_bits, new)[s[k]] = Link(s, k)
    /\ \A c \in Clusters : c \notin Elems(s) =>
            Entries(fat_bits, new)[c] = Entries(fat_bits, tab)[c]
    /\ \A o \in Offsets : o \div s_blocksize \notin Blocks(fat_bits, s) => new[o] = tab[o]

LEMMA FoundFacts ==
    ASSUME fat_bits \in Widths, NEW tab \in Tables(fat_bits), NEW all, NEW nr, NEW k,
           NEW found, FoundOK(tab, all, nr, k, found), NEW new, new = LinkAll(tab, found),
           NEW s, s = [i \in 1 .. Len(found) |-> found[i].entry]
    PROVE  Len(s) = Len(found) /\ Len(s) \in Nat /\ Taking(tab, new, s)
<1>1. /\ found \in Seq(Posns(fat_bits)) /\ Len(found) \in Nat
      /\ \A i \in 1 .. Len(found) : ent_get(fat_bits, tab, found[i]) = FAT_ENT_FREE
      /\ \A i, j \in 1 .. Len(found) : found[i].entry = found[j].entry => i = j
    BY DEF FoundOK
<1>2. \A i \in 1 .. Len(found) : found[i] \in Posns(fat_bits)  BY <1>1
<1>3. \A i \in 1 .. Len(found) : found[i].entry \in Clusters  BY <1>2 DEF Posns
<1>4. s \in Seq(Clusters) /\ Len(s) = Len(found) /\ \A i \in 1 .. Len(s) : s[i] = found[i].entry
    BY <1>1, <1>3
<1>5. LinkedOK(tab, found, Len(found), new)  BY <1>1, LinkAllFacts
<1>6. Distinct(s)  BY <1>1, <1>4 DEF Distinct
<1>7. ASSUME NEW i \in 1 .. Len(s)
      PROVE  Entries(fat_bits, tab)[s[i]] = FAT_ENT_FREE /\ Entries(fat_bits, new)[s[i]] = Link(s, i)
  <2>1. PICK p \in Posns(fat_bits) : p = found[i]  BY <1>2, <1>4
  <2>2. ent_get(fat_bits, tab, p) = FAT_ENT_FREE /\ p.entry = s[i] /\ s[i] \in Clusters  BY <1>1, <1>3, <1>4, <2>1
  <2>3. ent_get(fat_bits, tab, p) = ent_get(fat_bits, tab, Pos(fat_bits, p.entry))  BY SamePosn
  <2>4. Entries(fat_bits, tab)[s[i]] = FAT_ENT_FREE  BY <2>2, <2>3 DEF Entries
  <2>5. Entries(fat_bits, new)[s[i]] = IF i = Len(found) THEN FAT_ENT_EOF ELSE found[i + 1].entry
      BY <1>4, <1>5 DEF LinkedOK
  <2>6. i # Len(found) => i + 1 \in 1 .. Len(s)
    <3>1. PICK n \in Nat : n = Len(found) /\ n = Len(s)  BY <1>1, <1>4
    <3>2. i \in 1 .. n  BY <3>1
    <3>3. i # n => i + 1 \in 1 .. n  BY ONLY n \in Nat, <3>2
    <3> QED BY <3>1, <3>3
  <2>7. Link(s, i) = IF i = Len(found) THEN FAT_ENT_EOF ELSE found[i + 1].entry
      BY <1>4, <2>6 DEF Link
  <2> QED BY <2>4, <2>5, <2>7
<1>8. ASSUME NEW c \in Clusters, c \notin Elems(s)
      PROVE  Entries(fat_bits, new)[c] = Entries(fat_bits, tab)[c]
  <2>1. \A i \in 1 .. Len(found) : found[i].entry # c  BY <1>4, <1>8 DEF Elems
  <2> QED BY <1>5, <2>1 DEF LinkedOK
<1>9. ASSUME NEW o \in Offsets, o \div s_blocksize \notin Blocks(fat_bits, s)
      PROVE  new[o] = tab[o]
  <2>1. \A i \in 1 .. Len(found) : o \div s_blocksize \notin BhsOf(Pos(fat_bits, found[i].entry))
    <3> TAKE i \in 1 .. Len(found)
    <3>1. o \div s_blocksize \notin BhsOf(Pos(fat_bits, s[i]))  BY <1>4, <1>9 DEF Blocks
    <3> QED BY <1>4, <3>1
  <2> QED BY <1>5, <1>9, <2>1 DEF LinkedOK, Offsets
<1>10. new \in Tables(fat_bits)  BY <1>5 DEF LinkedOK
<1> QED BY <1>1, <1>4, <1>6, <1>7, <1>8, <1>9, <1>10 DEF Taking

LEMMA TakenCount ==
    ASSUME NEW E, NEW F, NEW s \in Seq(Clusters), Distinct(s),
           \A k \in 1 .. Len(s) : E[s[k]] = FAT_ENT_FREE,
           FreeSet(F) = FreeSet(E) \ Elems(s)
    PROVE  /\ Cardinality(FreeSet(E)) \in Nat /\ Cardinality(FreeSet(F)) \in Nat
           /\ Cardinality(FreeSet(F)) = Cardinality(FreeSet(E)) - Len(s)
<1>1. PICK A, B, S : A = FreeSet(E) /\ B = FreeSet(F) /\ S = Elems(s)  OBVIOUS
<1>2. IsFiniteSet(A) /\ IsFiniteSet(S) /\ Cardinality(S) = Len(s)
  <2>1. IsFiniteSet(Clusters) /\ A \subseteq Clusters  BY <1>1, ClusterFacts DEF FreeSet
  <2> QED BY <1>1, <2>1, FS_Subset, DistinctLen
<1>3. S \subseteq A
  <2>1. \A k \in 1 .. Len(s) : s[k] \in Clusters  OBVIOUS
  <2> QED BY <1>1, <2>1 DEF FreeSet, Elems
<1>4. B = A \ S  BY <1>1
<1>5. IsFiniteSet(B) /\ Cardinality(B) = Cardinality(A) - Cardinality(A \cap S)
    BY <1>2, <1>4, FS_Difference
<1>6. A \cap S = S  BY <1>3
<1> QED BY <1>1, <1>2, <1>5, <1>6, FS_CardinalityType

AllocDone(t, found, n, enospc, cl, bhs, p2) ==
    /\ fat' = LinkAll(fat, found)
    /\ prev_free' = IF n = 0 THEN prev_free ELSE found[n].entry
    /\ free_clusters' = IF enospc THEN 0
                         ELSE IF free_clusters \in 0 .. n - 1 THEN Unknown
                         ELSE IF free_clusters = Unknown THEN Unknown ELSE free_clusters - n
    /\ free_clus_valid' = (free_clus_valid \/ enospc)
    /\ loc' = [loc EXCEPT ![t].cl = cl, ![t].bhs = bhs, ![t].ret = "write_failed"]
    /\ pc' = [pc EXCEPT ![t] = p2]
Chosen(l, found, n, cl, bhs, p2) ==
    /\ cl = IF n = 0 THEN 0 ELSE found[1].entry
    /\ bhs = IF n < l.nr THEN {} ELSE Bhs({found[i].entry : i \in 1 .. n})
    /\ p2 = IF n = l.nr THEN "alloc_mirror" ELSE IF n = 0 THEN "write_failed" ELSE "free"
Exhausted(found, n) ==
    \A c \in FreeSet(Entries(fat_bits, fat)) : \E i \in 1 .. n : found[i].entry = c
LEMMA AllocApply ==
    ASSUME NEW ch, InvOf(ch), NEW t \in Threads, pc[t] = "alloc", NEW l, l = loc[t],
           NEW all, NEW k, NEW found, FoundOK(fat, all, l.nr, k, found), NEW n, n = Len(found),
           NEW enospc \in BOOLEAN,
           enospc => Exhausted(found, n),
           NEW cl, NEW bhs, NEW p2, Chosen(l, found, n, cl, bhs, p2), AllocDone(t, found, n, enospc, cl, bhs, p2),
           UNCHANGED <<fat_bits, mirror, fat_lock, msdos_i, cache, fs_error>>, failed \subseteq failed'
    PROVE  \E ch2 : InvOf(ch2)'
<1>0. /\ cl = IF n = 0 THEN 0 ELSE found[1].entry
      /\ bhs = IF n < l.nr THEN {} ELSE Bhs({found[i].entry : i \in 1 .. n})
      /\ p2 = IF n = l.nr THEN "alloc_mirror" ELSE IF n = 0 THEN "write_failed" ELSE "free"
    BY DEF Chosen
<1> USE <1>0
<1>1. PICK f, m, s, own : f = l.f /\ m = msdos_i[f] /\ s = ch[f]
                          /\ own = [i \in 1 .. Len(found) |-> found[i].entry]
    OBVIOUS
<1>2. Goal(pc[t], l) = "alloc" /\ pc[t] # "idle"  BY DEF Goal, GetPcs
<1>3. /\ l \in LocType /\ f \in Files /\ m \in InodeType /\ l.op \in {"write", "truncate"}
      /\ l.op = "truncate" => Goal(pc[t], l) \in TruncatePcs
      /\ HoldOK(pc[t], l, ch[t])
    BY <1>1, <1>2, WriterFacts
<1>4. ch[t] = <<>> /\ l.op = "write"  BY <1>2, <1>3 DEF HoldOK, HoldPcs, TruncatePcs
<1>5. l.nr \in {1, 2}  BY <1>3 DEF LocType
<1>6. Len(own) = n /\ n \in Nat /\ Taking(fat, fat', own)
  <2>0. fat' = LinkAll(fat, found)  BY DEF AllocDone
  <2>1. fat_bits \in Widths /\ fat \in Tables(fat_bits)  BY SysFacts
  <2> QED BY <1>1, <2>0, <2>1, FoundFacts
<1>7. n <= l.nr  BY DEF FoundOK
<1>8. own \in Seq(Clusters) /\ (\A i \in 1 .. n : own[i] \in Clusters /\ own[i] = found[i].entry)
  <2>1. own \in Seq(Clusters)  BY <1>6 DEF Taking
  <2>2. \A i \in 1 .. Len(own) : own[i] \in Clusters  BY <2>1
  <2>3. \A i \in 1 .. n : own[i] = found[i].entry  BY <1>1
  <2> QED BY <1>6, <2>1, <2>2, <2>3
<1>9. PICK ch2 : ch2 = [ch EXCEPT ![t] = own]  OBVIOUS
<1>10. PICK E, F : E = Entries(fat_bits, fat) /\ F = Entries(fat_bits, fat')  OBVIOUS
<1>11. /\ ChainOK(Owners, F, ch2) /\ (NoneLost(Owners, E, ch) => NoneLost(Owners, F, ch2))
       /\ FreeSet(F) = FreeSet(E) \ Elems(own)
  <2>1. ChainOK(Owners, E, ch) /\ t \in Owners  BY <1>10 DEF InvOf, ChainInv, Owners
  <2>2. Allocated(E, F, own)  BY <1>6, <1>10 DEF Taking, Allocated
  <2>3. ChainOK(Owners, E, ch) /\ t \in Owners /\ ch[t] = <<>>  BY <1>4, <2>1
  <2>4. ChainOK(Owners, F, [ch EXCEPT ![t] = own])  BY ONLY <2>2, <2>3, ChainAlloc
  <2>5. NoneLost(Owners, E, ch) => NoneLost(Owners, F, [ch EXCEPT ![t] = own])  BY ONLY <2>2, <2>3, ChainAlloc
  <2>6. FreeSet(F) = FreeSet(E) \ Elems(own)  BY <2>2, FreeAfter
  <2> QED BY <1>9, <2>4, <2>5, <2>6
<1>12. ch2[t] = own /\ \A x \in Owners : x # t => ch2[x] = ch[x]
  <2>1. DOMAIN ch = Owners /\ t \in Owners  BY DEF InvOf, ChainInv, ChainOK, Owners
  <2> QED BY <1>9, <2>1
<1>13. Undamaged' => Undamaged  BY Damage
<1>14. ChainInv(ch2)'
  <2>1. Entries(fat_bits, fat)' = F  BY <1>10
  <2>2. Undamaged => NoneLost(Owners, E, ch)  BY <1>10 DEF InvOf, ChainInv
  <2> QED BY <1>11, <1>13, <2>1, <2>2 DEF ChainInv
<1>15. /\ Cardinality(FreeSet(E)) \in Nat /\ Cardinality(FreeSet(F)) \in Nat
       /\ Cardinality(FreeSet(F)) = Cardinality(FreeSet(E)) - n
  <2>1. Distinct(own) /\ \A i \in 1 .. Len(own) : E[own[i]] = FAT_ENT_FREE
      BY <1>6, <1>10 DEF Taking
  <2>2. own \in Seq(Clusters) /\ FreeSet(F) = FreeSet(E) \ Elems(own)  BY <1>8, <1>11
  <2>3. /\ Cardinality(FreeSet(E)) \in Nat /\ Cardinality(FreeSet(F)) \in Nat
        /\ Cardinality(FreeSet(F)) = Cardinality(FreeSet(E)) - Len(own)
      BY ONLY <2>1, <2>2, TakenCount
  <2> QED BY <1>6, <2>3
<1>16. enospc => Cardinality(FreeSet(F)) = 0
  <2> HAVE enospc
  <2>1. \A c \in FreeSet(E) : c \in Elems(own)  BY <1>6, <1>8, <1>10 DEF Elems, Exhausted
  <2>2. FreeSet(F) = {}  BY <1>11, <2>1
  <2> QED BY <2>2, FS_EmptySet
<1>17. CountInv'
  <2>1. Entries(fat_bits, fat)' = F  BY <1>10
  <2>2. Cardinality(Clusters) \in Nat  BY ClusterFacts, FS_CardinalityType
  <2>3. free_clusters \in Int /\ free_clus_valid \in BOOLEAN  BY SysFacts
  <2>4. free_clusters # Unknown =>
        /\ free_clus_valid => free_clusters = Cardinality(FreeSet(E))
        /\ 0 <= free_clusters
        /\ free_clusters <= Cardinality(FreeSet(E)) + Cardinality(Clusters)
      BY <1>10 DEF InvOf, CountInv
  <2>6. /\ free_clusters' = IF enospc THEN 0
                            ELSE IF free_clusters \in 0 .. n - 1 THEN Unknown
                            ELSE IF free_clusters = Unknown THEN Unknown ELSE free_clusters - n
        /\ free_clus_valid' = (free_clus_valid \/ enospc)
      BY DEF AllocDone
  <2>5. free_clusters' # Unknown =>
        /\ free_clus_valid' => free_clusters' = Cardinality(FreeSet(F))
        /\ 0 <= free_clusters'
        /\ free_clusters' <= Cardinality(FreeSet(F)) + Cardinality(Clusters)
    <3>1. PICK A \in Nat, B \in Nat, C \in Nat, x \in Int : A = Cardinality(FreeSet(E))
              /\ B = Cardinality(FreeSet(F)) /\ C = Cardinality(Clusters) /\ x = free_clusters
        BY <1>15, <2>2, <2>3
    <3>2. CASE enospc  BY ONLY <1>16, <2>2, <2>6, <3>1, <3>2
    <3>3. CASE ~enospc /\ x # Unknown /\ x \notin 0 .. n - 1
      <4>1. free_clusters' = x - n /\ free_clus_valid' = free_clus_valid  BY <2>3, <2>6, <3>1, <3>3
      <4>2. x >= n /\ B = A - n  BY <1>6, <1>15, <2>4, <3>1, <3>3
      <4>3. 0 <= x - n /\ x - n <= B + C /\ (x = A => x - n = B)  
        <5>1. n \in Nat /\ x <= A + C  BY <1>6, <2>4, <3>1, <3>3
        <5> QED BY ONLY <5>1, <4>2, A \in Nat, B \in Nat, C \in Nat, x \in Int
      <4> QED BY <2>4, <3>1, <3>3, <4>1, <4>3
    <3>4. CASE ~enospc /\ (x = Unknown \/ x \in 0 .. n - 1)  BY <2>6, <3>1, <3>4
    <3> QED BY <3>2, <3>3, <3>4
  <2> QED BY <2>1, <2>5 DEF CountInv
<1>18. cl \in Int /\ bhs \in SUBSET Int /\ "write_failed" \in Rets
  <2>1. n # 0 => found[1].entry \in Int
    <3>1. n # 0 => 1 \in 1 .. n  BY <1>6
    <3>2. n # 0 => found[1].entry \in Clusters  BY <1>8, <3>1
    <3> QED BY <3>2, ClusterFacts
  <2>2. Bhs({found[i].entry : i \in 1 .. n}) \subseteq Int
    <3>1. \A i \in 1 .. n : BhsOf(Pos(fat_bits, found[i].entry)) \subseteq Int
        BY <1>8, BlocksInt, SysFacts
    <3> QED BY <3>1 DEF Bhs
  <2>3. "write_failed" \in Rets /\ {} \in SUBSET Int  BY DEF Rets
  <2>4. cl \in Int  BY <2>1
  <2>5. bhs \in SUBSET Int  BY <2>2, <2>3
  <2> QED BY <2>3, <2>4, <2>5
<1>19. PICK l2 : l2 = [l EXCEPT !.cl = cl, !.bhs = bhs, !.ret = "write_failed"]  OBVIOUS
<1>20. loc' = [loc EXCEPT ![t].cl = cl, ![t].bhs = bhs, ![t].ret = "write_failed"]
       /\ pc' = [pc EXCEPT ![t] = p2]
    BY DEF AllocDone
<1>21. DOMAIN loc' = Threads /\ loc'[t] = l2 /\ (\A u \in Threads : u # t => loc'[u] = loc[u])
    BY <1>19, <1>20, SysFacts
<1>22. /\ l2 \in LocType /\ l2.f = f /\ l2.op = l.op /\ l2.cl = cl /\ l2.bhs = bhs /\ l2.ret = "write_failed"
       /\ l2.nr = l.nr
    BY <1>1, <1>3, <1>18, <1>19 DEF LocType
<1>23. Goal(p2, l2) = p2 /\ p2 \in {"alloc_mirror", "write_failed", "free"}  BY DEF Goal, GetPcs
<1>24. OpOK(t, p2, l2, t)
    BY <1>4, <1>22, <1>23 DEF OpOK, WritePcs, GetPcs
<1>25. HoldOK(p2, l2, own)
  <2>1. n # 0 => own # <<>> /\ cl = own[1]
    <3>1. n # 0 => 1 \in 1 .. n  BY <1>6
    <3> QED BY <1>6, <1>8, <3>1
  <2>2. n = 0 => own = <<>>  BY <1>6, <1>8
  <2>3. p2 # "write_failed" => n # 0  BY <1>5
  <2>4. p2 = "write_failed" => n = 0  OBVIOUS
  <2>5. p2 = "alloc_mirror" => n = l.nr  OBVIOUS
  <2> QED BY <1>6, <1>22, <1>23, <2>1, <2>2, <2>3, <2>4, <2>5 DEF HoldOK, HoldPcs
<1>26. SizeOK(p2, l2, s, m.i_size, m.mmu_private, m.i_blocks, Undamaged')
    BY <1>23 DEF SizeOK, LinkedPcs
<1>27. PosOK(p2, l2, s)  BY <1>23 DEF PosOK, GetPcs, RetPcs
<1>28. \A o \in Offsets : fat'[o] # fat[o] => o \div s_blocksize \in Pending(fat_bits, p2, l2, own)
  <2> SUFFICES ASSUME NEW o \in Offsets, fat'[o] # fat[o]
               PROVE  o \div s_blocksize \in Pending(fat_bits, p2, l2, own)
      OBVIOUS
  <2>1. o \div s_blocksize \in Blocks(fat_bits, own)  BY <1>6 DEF Taking
  <2>2. PICK i \in 1 .. n : o \div s_blocksize \in BhsOf(Pos(fat_bits, own[i]))
      BY <1>6, <2>1 DEF Blocks
  <2>3. CASE p2 = "alloc_mirror"
    <3>1. n = l.nr  BY <2>3
    <3>2. ~(n < l.nr)  BY <1>6, <3>1
    <3>3. bhs = Bhs({found[j].entry : j \in 1 .. n})  BY <3>2
    <3>4. o \div s_blocksize \in bhs  BY <1>8, <2>2, <3>3 DEF Bhs
    <3> QED BY <1>22, <2>1, <2>3, <3>4 DEF Pending
  <2>4. CASE p2 = "free"  BY <2>1, <2>4 DEF Pending
  <2>5. p2 # "write_failed"
    <3>1. n # 0  BY <1>6, <2>2
    <3> QED BY <3>1
  <2> QED BY <1>23, <2>3, <2>4, <2>5
<1>29. MirrorNext(t, ch[t], p2, l2, ch2[t])
  <2>1. Pending(fat_bits, pc[t], loc[t], ch[t]) = {}  BY DEF Pending, MirrorPcs
  <2> QED BY <1>12, <1>28, <2>1 DEF MirrorNext
<1>30. SysNext
  <2>1. fat' \in Tables(fat_bits)  BY <1>6 DEF Taking
  <2>2. prev_free' \in Clusters
    <3>1. n # 0 => n \in 1 .. n  BY <1>6
    <3>2. n # 0 => found[n].entry \in Clusters  BY <1>8, <3>1
    <3>3. prev_free' = IF n = 0 THEN prev_free ELSE found[n].entry  BY DEF AllocDone
    <3>4. prev_free \in Clusters  BY SysFacts
    <3> QED BY <3>2, <3>3, <3>4
  <2>3. free_clusters' \in Int
    <3>1. free_clusters' = IF enospc THEN 0
                           ELSE IF free_clusters \in 0 .. n - 1 THEN Unknown
                           ELSE IF free_clusters = Unknown THEN Unknown ELSE free_clusters - n
        BY DEF AllocDone
    <3>2. free_clusters \in Int  BY SysFacts
    <3> QED BY <1>6, <3>1, <3>2 DEF Unknown
  <2>4. free_clus_valid' \in BOOLEAN
    <3>1. free_clus_valid' = (free_clus_valid \/ enospc) /\ free_clus_valid \in BOOLEAN  BY SysFacts DEF AllocDone
    <3> QED BY <3>1
  <2>5. /\ mirror' \in Tables(fat_bits) /\ fat_lock' \in Threads \cup {None} /\ fs_error' \in BOOLEAN
        /\ (Undamaged' => ~fs_error')
      BY <1>13, SysFacts
  <2> QED BY <2>1, <2>2, <2>3, <2>4, <2>5 DEF SysNext
<1>31. InvOf(ch2)'
  <2>1. /\ InvOf(ch) /\ pc[t] # "idle" /\ l = loc[t] /\ f = l.f /\ m = msdos_i[f] /\ s = ch[f]
        /\ Goal(pc[t], l) # "bmap_cluster"
      BY <1>1, <1>2
  <2>2. pc[t] \notin {"add_alloc", "unmap", "cut_mirror"} \cup LinkedPcs  BY DEF LinkedPcs
  <2>3. /\ l2 \in LocType /\ l2.f = f /\ l2.op = l.op /\ p2 \notin {"idle", "walk", "add", "add_alloc", "unmap"}
        /\ Goal(p2, l2) # "cut"
      BY <1>22, <1>23
  <2>4. Moves(t, p2, l2) /\ msdos_i' = msdos_i /\ cache' = cache  BY <1>20, <1>21 DEF Moves
  <2>6. HoldOK(p2, l2, ch2[t])  BY <1>12, <1>25
  <2>7. \A x \in Owners : x # t => ch2[x] = ch[x]  BY <1>12
  <2> QED BY ONLY t \in Threads, <1>14, <1>17, <1>24, <1>26, <1>27, <1>29, <1>30,
                  <2>1, <2>2, <2>3, <2>4, <2>6, <2>7, OwnStep
<1> QED BY <1>31

Applied(t, found, enospc) ==
    LET n == Len(found)
        nr == loc[t].nr
    IN AllocDone(t, found, n, enospc, IF n = 0 THEN 0 ELSE found[1].entry,
                 IF n < nr THEN {} ELSE Bhs({found[k].entry : k \in 1 .. n}),
                 IF n = nr THEN "alloc_mirror" ELSE IF n = 0 THEN "write_failed" ELSE "free")
LEMMA AllocStep ==
    ASSUME NEW ch, InvOf(ch), NEW t \in Threads, fat_alloc_clusters(t)
    PROVE  \E ch2 : InvOf(ch2)'
<1>1. PICK l, f, m, s, all : l = loc[t] /\ f = l.f /\ m = msdos_i[f] /\ s = ch[f]
                             /\ all = Visit(fat_bits, prev_free + 1)
    OBVIOUS
<1>2. pc[t] = "alloc" /\ Goal(pc[t], l) = "alloc" /\ pc[t] # "idle"  BY DEF fat_alloc_clusters, Goal, GetPcs
<1>3. /\ l \in LocType /\ f \in Files /\ l.op \in {"write", "truncate"}
      /\ l.op = "truncate" => Goal(pc[t], l) \in TruncatePcs
      /\ HoldOK(pc[t], l, ch[t])
    BY <1>1, <1>2, WriterFacts
<1>4. ch[t] = <<>> /\ l.op = "write"  BY <1>2, <1>3 DEF HoldOK, HoldPcs, TruncatePcs
<1>5. UNCHANGED <<fat_bits, mirror, fat_lock, msdos_i, cache, fs_error>> /\ failed \subseteq failed'
  <2>1. UNCHANGED <<fat_bits, mirror, msdos_i, cache, fs_error>>  BY DEF fat_alloc_clusters, env_vars
  <2>2. UNCHANGED fat_lock  BY DEF fat_alloc_clusters, sbi_vars
  <2>3. failed \subseteq failed'  BY DEF fat_alloc_clusters, Works, Fails
  <2> QED BY <2>1, <2>2, <2>3
<1>6. /\ all \in Seq(Posns(fat_bits)) /\ Len(all) \in Nat /\ DOMAIN all = 1 .. Len(all)
      /\ \A c \in Clusters : \E k \in 1 .. Len(all) : all[k].entry = c
      /\ \A j, k \in 1 .. Len(all) : all[j].entry = all[k].entry => j = k
  <2>1. prev_free \in Clusters /\ fat_bits \in Widths  BY SysFacts
  <2>2. PICK q \in Nat : q = prev_free + 1 /\ q >= FAT_START_ENT /\ q <= max_cluster
    <3>1. PICK m1 \in Nat, a \in Nat : m1 = max_cluster /\ a = prev_free /\ a >= 2 /\ a <= m1 - 1
        BY <2>1, BlockAssumption DEF Clusters, FAT_START_ENT
    <3>2. a + 1 \in Nat /\ a + 1 >= 2 /\ a + 1 <= m1  BY ONLY m1 \in Nat, a \in Nat, <3>1
    <3> QED BY <3>1, <3>2 DEF FAT_START_ENT
  <2>3. PICK N \in Nat : N = max_cluster - FAT_START_ENT /\ all \in [1 .. N -> Posns(fat_bits)]
          /\ (\A c \in Clusters : \E k \in 1 .. N : all[k].entry = c)
          /\ (\A j, k \in 1 .. N : all[j].entry = all[k].entry => j = k)
      BY <1>1, <2>1, <2>2, VisitAll
  <2>4. all \in Seq(Posns(fat_bits)) /\ Len(all) = N  BY <2>3
  <2> QED BY <2>3, <2>4
<1>7. PICK taken : taken = FreeAmong(fat, all, l.nr)  OBVIOUS
<1>8. \A k \in 0 .. Len(all) : FoundOK(fat, all, l.nr, k, taken[k])
  <2>1. fat_bits \in Widths /\ l.nr \in Nat  BY <1>3, SysFacts DEF LocType
  <2> QED BY <1>6, <1>7, <2>1, FreeAmongFacts
<1>9. ASSUME NEW k \in 0 .. Len(all), NEW found, found = taken[k], NEW enospc \in BOOLEAN,
             enospc => k = Len(all) /\ Len(found) < l.nr, Applied(t, found, enospc)
      PROVE  \E ch2 : InvOf(ch2)'
  <2>0. PICK n : n = Len(found)  OBVIOUS
  <2>1. PICK cl, bhs, p2 :
          /\ cl = IF n = 0 THEN 0 ELSE found[1].entry
          /\ bhs = IF n < l.nr THEN {} ELSE Bhs({found[i].entry : i \in 1 .. n})
          /\ p2 = IF n = l.nr THEN "alloc_mirror" ELSE IF n = 0 THEN "write_failed" ELSE "free"
          /\ AllocDone(t, found, n, enospc, cl, bhs, p2)
      BY <1>1, <1>9, <2>0, Zenon DEF Applied
  <2>4. Chosen(l, found, n, cl, bhs, p2) /\ AllocDone(t, found, n, enospc, cl, bhs, p2)  BY <2>1 DEF Chosen
  <2>2. FoundOK(fat, all, l.nr, k, found)  BY <1>8, <1>9
  <2>3. enospc => Exhausted(found, n)
    <3> SUFFICES ASSUME enospc, NEW c \in FreeSet(Entries(fat_bits, fat))
                 PROVE  \E i \in 1 .. n : found[i].entry = c
        BY DEF Exhausted
    <3>1. c \in Clusters /\ ent_get(fat_bits, fat, Pos(fat_bits, c)) = FAT_ENT_FREE  BY DEF FreeSet, Entries
    <3>2. PICK j \in 1 .. Len(all) : all[j].entry = c  BY <1>6, <3>1
    <3>3. all[j] \in Posns(fat_bits)  BY <1>6
    <3>4. ent_get(fat_bits, fat, all[j]) = FAT_ENT_FREE  BY <3>1, <3>2, <3>3, SamePosn, SysFacts
    <3>5. j \in 1 .. k /\ Len(found) < l.nr  BY <1>9
    <3>6. \E i \in 1 .. Len(found) : found[i] = all[j]  BY <2>2, <3>4, <3>5 DEF FoundOK
    <3> QED BY <1>9, <2>0, <3>2, <3>6
  <2> QED BY ONLY t \in Threads, InvOf(ch), <1>1, <1>2, <1>5, <1>9, <2>0, <2>2, <2>3, <2>4, AllocApply
<1>10. LET al == Visit(fat_bits, prev_free + 1)
           tk == FreeAmong(fat, al, loc[t].nr)
       IN \/ /\ pc' = [pc EXCEPT ![t] = "write_failed"] /\ UNCHANGED <<fat, sbi_vars, loc>>
          \/ Applied(t, tk[Len(al)], Len(tk[Len(al)]) < loc[t].nr)
          \/ \E k \in DOMAIN al : Applied(t, tk[k - 1], FALSE)
    BY DEF fat_alloc_clusters, Applied, AllocDone, Goto
<1>11. CASE pc' = [pc EXCEPT ![t] = "write_failed"] /\ UNCHANGED <<fat, sbi_vars, loc>>
  <2>1. DOMAIN loc' = Threads /\ loc'[t] = l /\ \A u \in Threads : u # t => loc'[u] = loc[u]
      BY <1>1, <1>11, SysFacts
  <2>2. Goal("write_failed", l) = "write_failed"  BY DEF Goal, GetPcs
  <2>3. OpOK(t, "write_failed", l, t)  BY <1>4, <2>2 DEF OpOK, GetPcs, WritePcs
  <2>4. HoldOK("write_failed", l, ch[t])  BY <1>4, <2>2 DEF HoldOK, HoldPcs
  <2>5. SizeOK("write_failed", l, s, m.i_size, m.mmu_private, m.i_blocks, Undamaged')
      BY <2>2 DEF SizeOK, LinkedPcs
  <2>6. PosOK("write_failed", l, s)  BY DEF PosOK, GetPcs, RetPcs
  <2>7. Goal("write_failed", l) # "cut" /\ "write_failed" \notin {"idle", "walk", "add", "add_alloc", "unmap"}
      BY <2>2
  <2>8. /\ pc[t] # "idle" /\ Goal(pc[t], l) # "bmap_cluster"
        /\ pc[t] \notin {"add_alloc", "unmap"} \cup MirrorPcs \cup LinkedPcs
      BY <1>2 DEF MirrorPcs, LinkedPcs
  <2>9. /\ cache' = cache /\ UNCHANGED <<fat_bits, fat, mirror, sbi_vars>> /\ msdos_i' = msdos_i
        /\ pc' = [pc EXCEPT ![t] = "write_failed"] /\ l \in LocType /\ l.f = f /\ l.op = l.op
        /\ failed \subseteq failed'
      BY <1>1, <1>3, <1>5, <1>11
  <2>10. fs_error' \in BOOLEAN /\ (Undamaged' => ~fs_error')  BY <1>5, Damage, SysFacts
  <2>11. InvOf(ch)'
      BY <1>1, <2>1, <2>3, <2>4, <2>5, <2>6, <2>7, <2>8, <2>9, <2>10, MoveStep
  <2> QED BY <2>11
<1>12. CASE Applied(t, taken[Len(all)], Len(taken[Len(all)]) < l.nr)
  <2>1. Len(all) \in 0 .. Len(all) /\ (Len(taken[Len(all)]) < l.nr) \in BOOLEAN  BY <1>6
  <2> QED BY <1>9, <1>12, <2>1
<1>13. ASSUME NEW k \in DOMAIN all, Applied(t, taken[k - 1], FALSE)
       PROVE  \E ch2 : InvOf(ch2)'
  <2>1. k - 1 \in 0 .. Len(all) /\ FALSE \in BOOLEAN  BY <1>6
  <2> QED BY <1>9, <1>13, <2>1
<1>14. \/ /\ pc' = [pc EXCEPT ![t] = "write_failed"] /\ UNCHANGED <<fat, sbi_vars, loc>>
       \/ Applied(t, taken[Len(all)], Len(taken[Len(all)]) < l.nr)
       \/ \E k \in DOMAIN all : Applied(t, taken[k - 1], FALSE)
    BY <1>1, <1>7, <1>10, Zenon
<1> QED BY <1>11, <1>12, <1>13, <1>14
=============================================================================
