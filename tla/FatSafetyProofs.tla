--------------------------- MODULE FatSafetyProofs --------------------------
(***************************************************************************)
(* The steps of Fat that write the FAT keep the invariant of FatProofs,    *)
(* and what follows from it: the safety invariants of Fat, for every       *)
(* volume, any files and any bounds.                                       *)
(***************************************************************************)
EXTENDS FatProofs

-----------------------------------------------------------------------------
LEMMA CopyFacts ==
    ASSUME NEW ch, InvOf(ch), NEW bhs
    PROVE  /\ fat_mirror_bhs(fat, bhs) => Copied(bhs)
           /\ mirror' = mirror => Copied({})
<1>1. fat \in [Offsets -> Byte] /\ mirror \in [Offsets -> Byte]  BY SysFacts DEF Tables, Offsets
<1>2. ASSUME fat_mirror_bhs(fat, bhs) PROVE Copied(bhs)
  <2>1. mirror' = [o \in Offsets |-> IF o \div s_blocksize \in bhs THEN fat[o] ELSE mirror[o]]
      BY <1>2 DEF fat_mirror_bhs
  <2>2. mirror' \in [Offsets -> Byte]  BY <1>1, <2>1
  <2>3. \A o \in Offsets : mirror'[o] = IF o \div s_blocksize \in bhs THEN fat[o] ELSE mirror[o]
      BY <2>1
  <2> QED BY <2>2, <2>3 DEF Copied, Tables, Offsets
<1>3. mirror' = mirror => Copied({})  BY <1>1 DEF Copied, Tables, Offsets
<1> QED BY <1>2, <1>3

(* A step of the holder of the mutex that writes copies.                   *)
LEMMA CopyStep ==
    ASSUME NEW ch, InvOf(ch), NEW t \in Threads, pc[t] # "idle", NEW l, l = loc[t],
           NEW f, f = l.f, NEW m, m = msdos_i[f], NEW s, s = ch[f],
           Goal(pc[t], l) # "bmap_cluster", pc[t] \notin {"add_alloc", "unmap", "cut_mirror"},
           NEW p2, NEW l2 \in LocType, l2.f = f, l2.op = l.op,
           p2 \notin {"idle", "walk", "add", "add_alloc", "unmap"}, Goal(p2, l2) # "cut",
           pc[t] \in LinkedPcs => p2 \in LinkedPcs,
           Moves(t, p2, l2), msdos_i' = msdos_i, cache' = cache,
           UNCHANGED <<fat_bits, fat, free_clusters, free_clus_valid, prev_free, fs_error>>,
           fat_lock' \in Threads \cup {None}, failed \subseteq failed',
           NEW bhs, Copied(bhs),
           Pending(fat_bits, pc[t], l, ch[t]) \subseteq bhs \cup Pending(fat_bits, p2, l2, ch[t])
             \/ failed' \cap {"free_read", "free_mirror", "cut_mirror"} # {},
           OpOK(t, p2, l2, t), HoldOK(p2, l2, ch[t]),
           SizeOK(p2, l2, s, m.i_size, m.mmu_private, m.i_blocks, Undamaged'), PosOK(p2, l2, s)
    PROVE  InvOf(ch)'
<1>1. /\ f \in Files /\ m \in InodeType /\ FileOK(s, m) /\ l.op \in {"write", "truncate"}
      /\ m.i_mutex = t
      /\ Undamaged /\ pc[t] \notin LinkedPcs \cup {"cut_mirror"} => m.i_blocks = Len(s)
    BY WriterFacts
<1>2. Undamaged' /\ p2 \notin LinkedPcs \cup {"cut_mirror"} => m.i_blocks = Len(ch[f])  BY <1>1, Damage
<1>3. PICK c : c = cache[f]  OBVIOUS
<1>4. Changed(t, f, p2, l2, m, c)  BY <1>1, <1>3, SysFacts DEF Changed, Moves
<1>5. ThreadOK(t, p2, l2, ch[t], ch[f], m.i_size, m.mmu_private, m.i_blocks, m.i_mutex,
                    Undamaged', p2 = "unmap")
  <2>1. ReaderOK(l2, m.i_size, p2 = "unmap")  BY <1>1 DEF ReaderOK
  <2> QED BY <1>1, <2>1 DEF ThreadOK
<1>6. CidOK(p2, l2, ch[f], m.cache_valid_id, Goal(p2, l2) = "cut", m.i_size)  BY DEF CidOK
<1>7. Kept(m, m, cache[f], c) \/ Flushed(m, m, cache[f], c)  BY <1>1, <1>3 DEF Kept
<1>8. m.i_size <= m.i_size /\ m.i_mutex \in {t, None} /\ FileOK(ch[f], m)
      /\ (Goal(p2, l2) = "cut" => Flushed(m, m, cache[f], c) /\ m.i_size = m.i_size)
    BY <1>1 DEF InodeType
<1>9. Copied(bhs)  OBVIOUS
<1>10. fs_error' \in BOOLEAN /\ (Undamaged' => ~fs_error')  BY Damage, SysFacts
<1>11. failed' \cap {"free_read", "free_mirror", "cut_mirror"} = {} =>
             Pending(fat_bits, pc[t], loc[t], ch[t]) \subseteq bhs \cup Pending(fat_bits, p2, l2, ch[t])
    OBVIOUS
<1>12. /\ m = msdos_i[f] /\ UNCHANGED <<fat_bits, fat, free_clusters, free_clus_valid, prev_free>>
       /\ fat_lock' \in Threads \cup {None} /\ failed \subseteq failed'
       /\ (pc[t] # "idle" => loc[t].f = f) /\ (p2 # "idle" => l2.f = f)
       /\ pc[t] # "add_alloc" /\ p2 # "add_alloc" /\ pc[t] # "unmap" /\ p2 # "unmap"
    OBVIOUS
<1> QED BY ONLY InvOf(ch), t \in Threads, <1>1, <1>2, <1>4, <1>5, <1>6, <1>7, <1>8, <1>9, <1>10, <1>11, <1>12, QuietStep

LEMMA AllocMirrorStep ==
    ASSUME NEW ch, InvOf(ch), NEW t \in Threads, AllocMirror(t)
    PROVE  InvOf(ch)'
<1>1. PICK l, f, m, s : l = loc[t] /\ f = l.f /\ m = msdos_i[f] /\ s = ch[f]
    OBVIOUS
<1>2. pc[t] = "alloc_mirror" /\ Goal(pc[t], l) = "alloc_mirror"  BY DEF AllocMirror, Goal, GetPcs
<1>3. /\ l \in LocType /\ f \in Files /\ m \in InodeType /\ l.op \in {"write", "truncate"}
      /\ l.op = "truncate" => Goal(pc[t], l) \in TruncatePcs
      /\ HoldOK(pc[t], l, ch[t])
    BY <1>1, <1>2, WriterFacts
<1>4. ch[t] # <<>> /\ l.cl = ch[t][1] /\ l.op = "write" /\ Len(ch[t]) = l.nr
    BY <1>2, <1>3 DEF HoldOK, HoldPcs, TruncatePcs
<1>5. PICK p2, bhs :
        /\ p2 \in {"chain_add", "free"} /\ pc' = [pc EXCEPT ![t] = p2]
        /\ p2 = "chain_add" => bhs = l.bhs
        /\ Copied(bhs) /\ failed \subseteq failed'
  <2>1. CASE fat_mirror_bhs(fat, loc[t].bhs) /\ Goto(t, "chain_add") /\ Works
      BY <1>1, <2>1, CopyFacts DEF Goto, Works
  <2>2. CASE Fails("alloc_mirror") /\ UNCHANGED mirror /\ Goto(t, "free")
      BY <2>2, CopyFacts DEF Goto, Fails
  <2> QED BY <2>1, <2>2 DEF AllocMirror
<1>6. /\ UNCHANGED <<fat_bits, fat, free_clusters, free_clus_valid, prev_free, fs_error>>
      /\ fat_lock' = fat_lock /\ msdos_i' = msdos_i /\ cache' = cache
      /\ loc' = [loc EXCEPT ![t].bhs = {}, ![t].ret = "write_failed"]
    BY DEF AllocMirror, env_vars, sbi_vars
<1>7. PICK l2 : l2 = [l EXCEPT !.bhs = {}, !.ret = "write_failed"]  OBVIOUS
<1>8. "write_failed" \in Rets /\ {} \in SUBSET Int  BY DEF Rets
<1>9. /\ l2 \in LocType /\ l2.f = f /\ l2.op = l.op /\ l2.ret = "write_failed" /\ l2.cl = l.cl
      /\ l2.nr = l.nr
    BY <1>1, <1>3, <1>7, <1>8 DEF LocType
<1>10. Moves(t, p2, l2)
  <2>1. DOMAIN loc' = Threads /\ loc'[t] = l2 /\ \A u \in Threads : u # t => loc'[u] = loc[u]
      BY <1>1, <1>6, <1>7, SysFacts
  <2> QED BY <1>5, <2>1 DEF Moves
<1>11. Goal(p2, l2) = p2  BY <1>5 DEF Goal, GetPcs
<1>12. OpOK(t, p2, l2, t)  BY <1>4, <1>5, <1>9, <1>11 DEF OpOK, GetPcs, WritePcs
<1>13. HoldOK(p2, l2, ch[t])  BY <1>4, <1>5, <1>9, <1>11 DEF HoldOK, HoldPcs
<1>14. SizeOK(p2, l2, s, m.i_size, m.mmu_private, m.i_blocks, Undamaged')
    BY <1>5, <1>11 DEF SizeOK, LinkedPcs
<1>15. PosOK(p2, l2, s)  BY <1>5 DEF PosOK, GetPcs, RetPcs
<1>16. Pending(fat_bits, pc[t], l, ch[t]) \subseteq bhs \cup Pending(fat_bits, p2, l2, ch[t])
    BY <1>2, <1>5 DEF Pending
<1>17. /\ pc[t] # "idle" /\ Goal(pc[t], l) # "bmap_cluster" /\ pc[t] \notin {"add_alloc", "unmap", "cut_mirror"}
       /\ pc[t] \notin LinkedPcs
       /\ p2 \notin {"idle", "walk", "add", "add_alloc", "unmap"} /\ Goal(p2, l2) # "cut"
    BY <1>2, <1>5, <1>11 DEF LinkedPcs
<1>18. fat_lock' \in Threads \cup {None}  BY <1>6, SysFacts
<1> QED BY ONLY InvOf(ch), t \in Threads, <1>1, <1>5, <1>6, <1>9, <1>10, <1>12, <1>13, <1>14, <1>15, <1>16, <1>17,
                <1>18, CopyStep

-----------------------------------------------------------------------------
(* fat_free_clusters: the first cluster of a chain is freed.               *)
LEMMA FreePut ==
    ASSUME NEW E, NEW F, NEW c \in Clusters, E[c] # FAT_ENT_FREE,
           SameBut(E, F, c)
    PROVE  /\ F[c] # FAT_ENT_FREE => FreeSet(F) = FreeSet(E)
           /\ Cardinality(FreeSet(E)) \in Nat
           /\ F[c] = FAT_ENT_FREE => Cardinality(FreeSet(F)) = Cardinality(FreeSet(E)) + 1
<1>1. PICK A, B : A = FreeSet(E) /\ B = FreeSet(F)  OBVIOUS
<1>2. IsFiniteSet(A) /\ Cardinality(A) \in Nat
  <2>1. A \subseteq Clusters  BY <1>1 DEF FreeSet
  <2> QED BY <2>1, FS_Subset, FS_CardinalityType, ClusterFacts
<1>3. F[c] # FAT_ENT_FREE => B = A  BY <1>1 DEF FreeSet, SameBut
<1>4. F[c] = FAT_ENT_FREE => B = A \cup {c} /\ c \notin A  BY <1>1 DEF FreeSet, SameBut
<1>5. F[c] = FAT_ENT_FREE => Cardinality(B) = Cardinality(A) + 1  BY <1>2, <1>4, FS_AddElement
<1> QED BY <1>1, <1>2, <1>3, <1>5

LEMMA EmptySeq ==
    ASSUME NEW s \in Seq(Clusters)
    PROVE  s = <<>> <=> Len(s) = 0
OBVIOUS
LEMMA TailFacts ==
    ASSUME NEW s \in Seq(Clusters), s # <<>>
    PROVE  /\ Tail(s) \in Seq(Clusters) /\ s[1] \in Clusters
           /\ Len(s) = 1 => Tail(s) = <<>> /\ Link(s, 1) = FAT_ENT_EOF
           /\ Len(s) # 1 => Tail(s) # <<>> /\ Tail(s)[1] = s[2] /\ s[2] \in Clusters /\ Link(s, 1) = s[2]
           /\ \A bits : Blocks(bits, s) \subseteq BhsOf(Pos(bits, s[1])) \cup Blocks(bits, Tail(s))
<1>1. PICK n \in Nat : n = Len(s) /\ n >= 1  OBVIOUS
<1>2. /\ Tail(s) \in Seq(Clusters) /\ Len(Tail(s)) = n - 1 /\ s[1] \in Clusters
      /\ \A k \in 1 .. n - 1 : Tail(s)[k] = s[k + 1]
    BY <1>1
<1>3. Len(s) = 1 => Tail(s) = <<>> /\ Link(s, 1) = FAT_ENT_EOF
  <2>1. Len(s) = 1 => Link(s, 1) = FAT_ENT_EOF  BY DEF Link
  <2>2. PICK r \in Seq(Clusters) : r = Tail(s)  BY <1>2
  <2>3. Len(s) = 1 => Len(r) = 0  BY <1>1, <1>2, <2>2
  <2>4. Len(s) = 1 => r = <<>>  BY <2>3, EmptySeq
  <2> QED BY <2>1, <2>2, <2>4
<1>4. Len(s) # 1 => Tail(s) # <<>> /\ Tail(s)[1] = s[2] /\ s[2] \in Clusters /\ Link(s, 1) = s[2]
  <2> HAVE Len(s) # 1
  <2>1. 2 \in 1 .. n /\ 1 \in 1 .. n - 1 /\ 1 # Len(s) /\ 1 + 1 = 2  BY <1>1
  <2>2. Link(s, 1) = s[2]  BY <2>1 DEF Link
  <2>3. Tail(s)[1] = s[2]
    <3>1. Tail(s)[1] = s[1 + 1]  BY <1>2, <2>1
    <3> QED BY <2>1, <3>1
  <2>4. Tail(s) # <<>>
    <3>1. PICK r \in Seq(Clusters) : r = Tail(s)  BY <1>2
    <3>2. Len(r) # 0  BY <1>1, <1>2, <2>1, <3>1
    <3> QED BY <3>1, <3>2, EmptySeq
  <2> QED BY <1>1, <2>1, <2>2, <2>3, <2>4
<1>5. ASSUME NEW bits, NEW b \in Blocks(bits, s)
      PROVE  b \in BhsOf(Pos(bits, s[1])) \cup Blocks(bits, Tail(s))
  <2>1. PICK k \in 1 .. n : b \in BhsOf(Pos(bits, s[k]))  BY <1>1 DEF Blocks
  <2>2. CASE k = 1  BY <2>1, <2>2
  <2>3. CASE k # 1
    <3>1. k - 1 \in 1 .. n - 1  BY <2>3
    <3>2. Tail(s)[k - 1] = s[k]
      <4>1. Tail(s)[k - 1] = s[(k - 1) + 1] /\ (k - 1) + 1 = k  BY <1>2, <3>1
      <4> QED BY <4>1
    <3>3. k - 1 \in 1 .. Len(Tail(s))  BY <1>2, <3>1
    <3>4. b \in BhsOf(Pos(bits, Tail(s)[k - 1]))  BY <2>1, <3>2
    <3> QED BY <3>3, <3>4 DEF Blocks
  <2> QED BY <2>2, <2>3
<1> QED BY <1>2, <1>3, <1>4, <1>5

LEMMA CountFreed ==
    ASSUME NEW E, NEW F, NEW x \in Int, NEW v \in BOOLEAN,
           Cardinality(FreeSet(E)) \in Nat, Cardinality(FreeSet(F)) = Cardinality(FreeSet(E)) + 1,
           x # Unknown => /\ v => x = Cardinality(FreeSet(E))
                          /\ 0 <= x /\ x <= Cardinality(FreeSet(E)) + Cardinality(Clusters)
    PROVE  /\ Inc(x) \in Int
           /\ Inc(x) # Unknown => /\ v => Inc(x) = Cardinality(FreeSet(F))
                                  /\ 0 <= Inc(x) /\ Inc(x) <= Cardinality(FreeSet(F)) + Cardinality(Clusters)
<1>1. PICK a \in Nat, c \in Nat : a = Cardinality(FreeSet(E)) /\ c = Cardinality(Clusters)
    BY FS_CardinalityType, ClusterFacts
<1>2. CASE x = Unknown  BY <1>2 DEF Inc
<1>3. CASE x # Unknown
  <2>1. Inc(x) = x + 1  BY <1>3 DEF Inc
  <2>2. 0 <= x + 1 /\ x + 1 <= (a + 1) + c /\ (x = a => x + 1 = a + 1)
    <3>1. 0 <= x /\ x <= a + c  BY <1>1, <1>3
    <3> QED BY ONLY x \in Int, a \in Nat, c \in Nat, <3>1
  <2> QED BY <1>1, <1>3, <2>1, <2>2
<1> QED BY <1>2, <1>3

(* The first cluster of the chain that t has taken off is free.            *)
LEMMA FreeFirst ==
    ASSUME NEW ch, InvOf(ch), NEW t \in Threads, NEW own, own = ch[t], own # <<>>,
           Entry(fat, own[1]) # FAT_ENT_FREE, fat' = Put(fat, own[1], FAT_ENT_FREE),
           free_clusters' = Inc(free_clusters), UNCHANGED <<fat_bits, free_clus_valid>>,
           NEW E, E = Entries(fat_bits, fat), NEW F, F = Entries(fat_bits, fat')
    PROVE  /\ fat' \in Tables(fat_bits) /\ free_clusters' \in Int /\ CountInv'
           /\ \A o \in Offsets : o \div s_blocksize \notin BhsOf(Pos(fat_bits, own[1])) => fat'[o] = fat[o]
           /\ ChainOK(Owners, F, [ch EXCEPT ![t] = Tail(own)])
           /\ NoneLost(Owners, E, ch) => NoneLost(Owners, F, [ch EXCEPT ![t] = Tail(own)])
<1>1. t \in Owners /\ own \in Seq(Clusters)  BY ChainFacts DEF Owners
<1>2. own[1] \in Clusters  BY <1>1, TailFacts
<1>3. /\ fat' \in Tables(fat_bits) /\ F[own[1]] = FAT_ENT_FREE
      /\ \A d \in Clusters : d # own[1] => F[d] = E[d]
      /\ \A o \in Offsets : o \div s_blocksize \notin BhsOf(Pos(fat_bits, own[1])) => fat'[o] = fat[o]
  <2>1. fat_bits \in Widths /\ fat \in Tables(fat_bits) /\ FAT_ENT_FREE \in Values
      BY SysFacts DEF Values
  <2>2. fat' = ent_put(fat_bits, fat, Pos(fat_bits, own[1]), FAT_ENT_FREE)  BY DEF Put
  <2> QED BY <1>2, <2>1, <2>2, PutEntries DEF Offsets
<1>4. E[own[1]] # FAT_ENT_FREE  BY <1>2 DEF Entries, Entry
<1>5. /\ ChainOK(Owners, F, [ch EXCEPT ![t] = Tail(own)])
      /\ NoneLost(Owners, E, ch) => NoneLost(Owners, F, [ch EXCEPT ![t] = Tail(own)])
  <2>1. ChainOK(Owners, E, ch)  BY DEF InvOf, ChainInv
  <2>2. ch[t] # <<>> /\ F[ch[t][1]] = FAT_ENT_FREE /\ SameBut(E, F, ch[t][1])
      BY <1>3 DEF SameBut
  <2>3. PICK c2 : c2 = [ch EXCEPT ![t] = Tail(ch[t])]  OBVIOUS
  <2>4. ChainOK(Owners, F, c2) /\ (NoneLost(Owners, E, ch) => NoneLost(Owners, F, c2))
    BY ONLY <1>1, <2>1, <2>2, <2>3, ChainFree
  <2> QED BY <2>3, <2>4
<1>6. CountInv' /\ free_clusters' \in Int
  <2>1. Entries(fat_bits, fat)' = F  OBVIOUS
  <2>2. free_clusters \in Int /\ free_clus_valid \in BOOLEAN  BY SysFacts
  <2>3. Cardinality(FreeSet(E)) \in Nat /\ Cardinality(FreeSet(F)) = Cardinality(FreeSet(E)) + 1
      BY <1>2, <1>3, <1>4, FreePut DEF SameBut
  <2>4. free_clusters # Unknown =>
        /\ free_clus_valid => free_clusters = Cardinality(FreeSet(E))
        /\ 0 <= free_clusters /\ free_clusters <= Cardinality(FreeSet(E)) + Cardinality(Clusters)
      BY DEF InvOf, CountInv
  <2>5. PICK x \in Int, v \in BOOLEAN : x = free_clusters /\ v = free_clus_valid  BY <2>2
  <2>6. /\ Inc(x) \in Int
        /\ Inc(x) # Unknown => /\ v => Inc(x) = Cardinality(FreeSet(F))
                               /\ 0 <= Inc(x) /\ Inc(x) <= Cardinality(FreeSet(F)) + Cardinality(Clusters)
      BY <2>3, <2>4, <2>5, CountFreed
  <2>7. free_clusters' = Inc(x) /\ free_clus_valid' = v  BY <2>5
  <2> QED BY <2>1, <2>6, <2>7 DEF CountInv
<1> QED BY <1>3, <1>5, <1>6

LEMMA FreeOneStep ==
    ASSUME NEW ch, InvOf(ch), NEW t \in Threads, pc[t] = "free", NEW l, l = loc[t],
           NEW next, next = Entry(fat, l.cl), NEW p2,
           p2 = IF next = FAT_ENT_EOF THEN "free_mirror" ELSE "free",
           fat' = Put(fat, l.cl, FAT_ENT_FREE), free_clusters' = Inc(free_clusters), fat_lock' = t,
           NEW bhs, \/ bhs = l.bhs \cup Bhs({l.cl}) /\ mirror' = mirror
                    \/ bhs = Bhs({l.cl}) /\ fat_mirror_bhs(fat', l.bhs),
           loc' = [loc EXCEPT ![t].cl = next, ![t].bhs = bhs], pc' = [pc EXCEPT ![t] = p2],
           UNCHANGED <<fat_bits, free_clus_valid, prev_free, msdos_i, cache, fs_error, failed>>
    PROVE  \E ch2 : InvOf(ch2)'
<1>1. PICK f, m, s, own : f = l.f /\ m = msdos_i[f] /\ s = ch[f] /\ own = ch[t]
    OBVIOUS
<1>2. Goal(pc[t], l) = "free" /\ pc[t] # "idle"  BY DEF Goal, GetPcs
<1>3. /\ l \in LocType /\ f \in Files /\ m \in InodeType /\ l.op \in {"write", "truncate"}
      /\ l.op = "truncate" => Goal(pc[t], l) \in TruncatePcs
      /\ HoldOK(pc[t], l, ch[t])
    BY <1>1, <1>2, WriterFacts
<1>4. own # <<>> /\ l.cl = own[1]  BY <1>1, <1>2, <1>3 DEF HoldOK, HoldPcs
<1>5. l.ret \in {"write_failed", "done"} /\ (l.ret = "write_failed" => l.op = "write")
    BY <1>1, <1>2, ThreadFacts DEF OpOK
<1>6. t \in Owners /\ own \in Seq(Clusters) /\ (\A k \in 1 .. Len(own) : Entry(fat, own[k]) = Link(own, k))
    BY <1>1, ChainFacts DEF Owners
<1>7. /\ Tail(own) \in Seq(Clusters) /\ own[1] \in Clusters
      /\ Len(own) = 1 => Tail(own) = <<>> /\ Link(own, 1) = FAT_ENT_EOF
      /\ Len(own) # 1 => Tail(own) # <<>> /\ Tail(own)[1] = own[2] /\ own[2] \in Clusters /\ Link(own, 1) = own[2]
      /\ Blocks(fat_bits, own) \subseteq BhsOf(Pos(fat_bits, own[1])) \cup Blocks(fat_bits, Tail(own))
    BY <1>4, <1>6, TailFacts
<1>8. next = Link(own, 1) /\ Entry(fat, own[1]) # FAT_ENT_FREE
  <2>1. 1 \in 1 .. Len(own)  BY <1>4, <1>6
  <2>2. Entry(fat, own[1]) = Link(own, 1)  BY <1>6, <2>1
  <2> QED BY <1>4, <1>6, <2>1, <2>2, LinkType
<1>9. /\ next \in Int
      /\ \/ p2 = "free_mirror" /\ Tail(own) = <<>>
         \/ p2 = "free" /\ Tail(own) # <<>> /\ next = Tail(own)[1]
  <2>1. FAT_ENT_EOF \in Int /\ Clusters \subseteq Int  BY ClusterFacts DEF FAT_ENT_EOF
  <2>2. FAT_ENT_EOF \notin Clusters  BY SysFacts, NotEof
  <2>3. CASE Len(own) = 1  BY <1>7, <1>8, <2>1, <2>3
  <2>4. CASE Len(own) # 1  BY <1>7, <1>8, <2>1, <2>2, <2>4
  <2> QED BY <2>3, <2>4
<1>10. PICK E, F : E = Entries(fat_bits, fat) /\ F = Entries(fat_bits, fat')  OBVIOUS
<1>11. /\ fat' \in Tables(fat_bits) /\ free_clusters' \in Int /\ CountInv'
       /\ \A o \in Offsets : o \div s_blocksize \notin BhsOf(Pos(fat_bits, own[1])) => fat'[o] = fat[o]
       /\ ChainOK(Owners, F, [ch EXCEPT ![t] = Tail(own)])
       /\ NoneLost(Owners, E, ch) => NoneLost(Owners, F, [ch EXCEPT ![t] = Tail(own)])
    BY <1>1, <1>4, <1>8, <1>10, FreeFirst
<1>12. mirror' \in Tables(fat_bits)
  <2>1. fat' \in [Offsets -> Byte] /\ mirror \in [Offsets -> Byte]  BY <1>11, SysFacts DEF Tables, Offsets
  <2>2. CASE mirror' = mirror  BY <2>1, <2>2 DEF Tables, Offsets
  <2>3. CASE fat_mirror_bhs(fat', l.bhs)
    <3>1. mirror' = [o \in Offsets |-> IF o \div s_blocksize \in l.bhs THEN fat'[o] ELSE mirror[o]]
        BY <2>3 DEF fat_mirror_bhs
    <3> QED BY <2>1, <3>1 DEF Tables, Offsets
  <2> QED BY <2>2, <2>3
<1>13. PICK ch2 : ch2 = [ch EXCEPT ![t] = Tail(own)]  OBVIOUS
<1>14. ChainOK(Owners, F, ch2) /\ (NoneLost(Owners, E, ch) => NoneLost(Owners, F, ch2))
    BY <1>11, <1>13
<1>15. ch2[t] = Tail(own) /\ \A x \in Owners : x # t => ch2[x] = ch[x]
  <2>1. DOMAIN ch = Owners  BY DEF InvOf, ChainInv, ChainOK
  <2> QED BY <1>6, <1>13, <2>1
<1>16. Undamaged' <=> Undamaged  BY DEF Undamaged
<1>17. ChainInv(ch2)'
  <2>1. Entries(fat_bits, fat)' = F  BY <1>10
  <2>2. Undamaged => NoneLost(Owners, E, ch)  BY <1>10 DEF InvOf, ChainInv
  <2> QED BY <1>14, <1>16, <2>1, <2>2 DEF ChainInv
<1>18. CountInv' /\ free_clusters' \in Int  BY <1>11
<1>20. bhs \in SUBSET Int
       /\ \/ bhs = l.bhs \cup BhsOf(Pos(fat_bits, own[1])) /\ mirror' = mirror
          \/ bhs = BhsOf(Pos(fat_bits, own[1])) /\ fat_mirror_bhs(fat', l.bhs)
  <2>1. Bhs({l.cl}) = BhsOf(Pos(fat_bits, own[1]))  BY <1>4 DEF Bhs
  <2>2. l.bhs \in SUBSET Int  BY <1>3 DEF LocType
  <2>3. BhsOf(Pos(fat_bits, own[1])) \subseteq Int  BY <1>7, BlocksInt, SysFacts
  <2> QED BY <2>1, <2>2, <2>3
<1>21. PICK l2 : l2 = [l EXCEPT !.cl = next, !.bhs = bhs]  OBVIOUS
<1>22. /\ l2 \in LocType /\ l2.f = f /\ l2.op = l.op /\ l2.cl = next /\ l2.bhs = bhs /\ l2.ret = l.ret
       /\ l2.nr = l.nr
    BY <1>1, <1>3, <1>9, <1>20, <1>21, ZenonT(60) DEF LocType
<1>23. Moves(t, p2, l2)
  <2>1. DOMAIN loc' = Threads /\ loc'[t] = l2 /\ \A u \in Threads : u # t => loc'[u] = loc[u]
      BY <1>21, SysFacts
  <2> QED BY <2>1 DEF Moves
<1>24. Goal(p2, l2) = p2  BY <1>9 DEF Goal, GetPcs
<1>25. OpOK(t, p2, l2, t)  BY <1>3, <1>5, <1>9, <1>22, <1>24 DEF OpOK, GetPcs, WritePcs, TruncatePcs
<1>26. HoldOK(p2, l2, ch2[t])  BY <1>9, <1>15, <1>22, <1>24 DEF HoldOK, HoldPcs
<1>27. SizeOK(p2, l2, s, m.i_size, m.mmu_private, m.i_blocks, Undamaged')
    BY <1>9, <1>24 DEF SizeOK, LinkedPcs
<1>28. PosOK(p2, l2, s)  BY <1>9 DEF PosOK, GetPcs, RetPcs
<1>29. MirrorNext(t, ch[t], p2, l2, ch2[t])
  <2>1. bhs \cup Blocks(fat_bits, Tail(own)) \subseteq Pending(fat_bits, p2, l2, ch2[t])
    <3>1. CASE p2 = "free"  BY <1>15, <1>22, <3>1 DEF Pending, MirrorPcs
    <3>2. CASE p2 = "free_mirror" /\ Tail(own) = <<>>
      <4>1. Blocks(fat_bits, Tail(own)) = {}  BY <3>2, NoLinks DEF Blocks
      <4> QED BY <1>22, <3>2, <4>1 DEF Pending, MirrorPcs
    <3> QED BY <1>9, <3>1, <3>2
  <2>2. Pending(fat_bits, pc[t], loc[t], ch[t]) = l.bhs \cup Blocks(fat_bits, own)
      BY <1>1 DEF Pending, MirrorPcs
  <2>3. ASSUME NEW o \in Offsets, o \div s_blocksize \notin Pending(fat_bits, p2, l2, ch2[t])
        PROVE  \/ fat'[o] = mirror'[o]
               \/ /\ fat'[o] = fat[o] /\ mirror'[o] = mirror[o]
                  /\ o \div s_blocksize \notin Pending(fat_bits, pc[t], loc[t], ch[t])
    <3>1. /\ o \div s_blocksize \notin bhs /\ o \div s_blocksize \notin Blocks(fat_bits, own)
          /\ fat'[o] = fat[o]
        BY <1>7, <1>11, <1>20, <2>1, <2>3
    <3>2. CASE bhs = l.bhs \cup BhsOf(Pos(fat_bits, own[1])) /\ mirror' = mirror
        BY <2>2, <3>1, <3>2
    <3>3. CASE bhs = BhsOf(Pos(fat_bits, own[1])) /\ fat_mirror_bhs(fat', l.bhs)
      <4>1. mirror'[o] = IF o \div s_blocksize \in l.bhs THEN fat'[o] ELSE mirror[o]
          BY <3>3 DEF fat_mirror_bhs
      <4> QED BY <2>2, <3>1, <4>1
    <3> QED BY <1>20, <3>2, <3>3
  <2> QED BY <2>3 DEF MirrorNext
<1>30. SysNext
    BY <1>11, <1>12, <1>16, <1>18, SysFacts DEF SysNext
<1>31. InvOf(ch2)'
  <2>1. /\ InvOf(ch) /\ pc[t] # "idle" /\ l = loc[t] /\ f = l.f /\ m = msdos_i[f] /\ s = ch[f]
        /\ Goal(pc[t], l) # "bmap_cluster"
      BY <1>1, <1>2
  <2>2. pc[t] \notin {"add_alloc", "unmap", "cut_mirror"} \cup LinkedPcs  BY DEF LinkedPcs
  <2>3. /\ l2 \in LocType /\ l2.f = f /\ l2.op = l.op /\ p2 \notin {"idle", "walk", "add", "add_alloc", "unmap"}
        /\ Goal(p2, l2) # "cut"
      BY <1>9, <1>22, <1>24
  <2>4. msdos_i' = msdos_i /\ cache' = cache  OBVIOUS
  <2>5. \A x \in Owners : x # t => ch2[x] = ch[x]  BY <1>15
  <2> QED BY ONLY t \in Threads, <1>17, <1>18, <1>23, <1>25, <1>26, <1>27, <1>28, <1>29, <1>30,
                  <2>1, <2>2, <2>3, <2>4, <2>5, OwnStep
<1> QED BY <1>31

(* The loop ends with a failure: the rest of the chain is lost.            *)
LEMMA FreeLostStep ==
    ASSUME NEW ch, InvOf(ch), NEW t \in Threads, pc[t] = "free", NEW l, l = loc[t],
           NEW ch1, ChainOK(Owners, Entries(fat_bits, fat'), ch1),
           \A x \in Owners : x # t => ch1[x] = ch[x],
           fat' \in Tables(fat_bits), free_clusters' \in Int, CountInv',
           fat_lock' = None, pc' = [pc EXCEPT ![t] = l.ret],
           failed \subseteq failed', "free_read" \in failed',
           UNCHANGED <<fat_bits, mirror, free_clus_valid, prev_free, msdos_i, cache, loc, fs_error>>
    PROVE  \E ch2 : InvOf(ch2)'
<1>1. PICK f, m, s, p2 : f = l.f /\ m = msdos_i[f] /\ s = ch[f] /\ p2 = l.ret
    OBVIOUS
<1>2. Goal(pc[t], l) = "free" /\ pc[t] # "idle"  BY DEF Goal, GetPcs
<1>3. /\ l \in LocType /\ f \in Files /\ m \in InodeType /\ l.op \in {"write", "truncate"}
      /\ t \in Owners
    BY <1>1, <1>2, WriterFacts DEF Owners
<1>4. p2 \in {"write_failed", "done"} /\ (p2 = "write_failed" => l.op = "write")
    BY <1>1, <1>2, ThreadFacts DEF OpOK
<1>5. ~Undamaged' /\ failed' \cap {"free_read", "free_mirror", "cut_mirror"} # {}  BY DEF Undamaged
<1>6. PICK ch2 : ch2 = [ch1 EXCEPT ![t] = <<>>]  OBVIOUS
<1>7. ChainOK(Owners, Entries(fat_bits, fat'), ch2)  BY <1>3, <1>6, ChainDrop
<1>8. ch2[t] = <<>> /\ \A x \in Owners : x # t => ch2[x] = ch[x]
  <2>1. DOMAIN ch1 = Owners  BY DEF ChainOK
  <2> QED BY <1>3, <1>6, <2>1
<1>9. ChainInv(ch2)' /\ CountInv'  BY <1>5, <1>7 DEF ChainInv
<1>10. Goal(p2, l) = p2  BY <1>4 DEF Goal, GetPcs
<1>11. OpOK(t, p2, l, t)  BY <1>3, <1>4, <1>10 DEF OpOK, GetPcs, WritePcs, TruncatePcs
<1>12. HoldOK(p2, l, ch2[t])  BY <1>4, <1>8, <1>10 DEF HoldOK, HoldPcs
<1>13. SizeOK(p2, l, s, m.i_size, m.mmu_private, m.i_blocks, Undamaged')
    BY <1>4, <1>10 DEF SizeOK, LinkedPcs
<1>14. PosOK(p2, l, s)  BY <1>4 DEF PosOK, GetPcs, RetPcs
<1>15. MirrorNext(t, ch[t], p2, l, ch2[t])  BY <1>5 DEF MirrorNext
<1>16. SysNext  BY <1>5, SysFacts DEF SysNext
<1>17. Moves(t, p2, l)  BY <1>1, SysFacts DEF Moves
<1>18. /\ Goal(pc[t], l) # "bmap_cluster" /\ pc[t] \notin {"add_alloc", "unmap", "cut_mirror"} \cup LinkedPcs
       /\ p2 \notin {"idle", "walk", "add", "add_alloc", "unmap"} /\ Goal(p2, l) # "cut"
       /\ msdos_i' = msdos_i /\ cache' = cache /\ InvOf(ch) /\ l = loc[t]
    BY <1>2, <1>4, <1>10 DEF LinkedPcs
<1>19. InvOf(ch2)'
    BY ONLY t \in Threads, <1>1, <1>2, <1>3, <1>8, <1>9, <1>11, <1>12, <1>13, <1>14, <1>15, <1>16, <1>17, <1>18, OwnStep
<1> QED BY <1>19

LEMMA FreeStep ==
    ASSUME NEW ch, InvOf(ch), NEW t \in Threads, fat_free_clusters(t)
    PROVE  \E ch2 : InvOf(ch2)'
<1>1. PICK l, own : l = loc[t] /\ own = ch[t]  OBVIOUS
<1>2. pc[t] = "free" /\ Goal(pc[t], l) = "free" /\ pc[t] # "idle"  BY DEF fat_free_clusters, Goal, GetPcs
<1>3. UNCHANGED <<fat_bits, free_clus_valid, prev_free, msdos_i, cache>>
    BY DEF fat_free_clusters, env_vars
<1>4. own # <<>> /\ l.cl = own[1] /\ t \in Owners /\ Entry(fat, l.cl) # FAT_ENT_FREE
  <2>1. own # <<>> /\ l.cl = own[1]
    <3>1. HoldOK(pc[t], l, own)  BY <1>1, <1>2, WriterFacts
    <3> QED BY <1>2, <3>1 DEF HoldOK, HoldPcs
  <2>2. own \in Seq(Clusters) /\ \A k \in 1 .. Len(own) : Entry(fat, own[k]) = Link(own, k)
      BY <1>1, ChainFacts DEF Owners
  <2>3. 1 \in 1 .. Len(own)  BY <2>1, <2>2
  <2>4. Link(own, 1) # FAT_ENT_FREE  BY <2>2, <2>3, LinkType
  <2> QED BY <2>1, <2>2, <2>3, <2>4 DEF Owners
<1>5. PICK next, full :
        /\ next = Entry(fat, l.cl)
        /\ full = (Cardinality(l.bhs) + Cardinality(Bhs({l.cl})) > MAX_BUF_PER_PAGE)
    OBVIOUS
<1>6. CASE /\ fat' = Put(fat, l.cl, FAT_ENT_FREE) /\ free_clusters' = Inc(free_clusters)
           /\ UNCHANGED fs_error
           /\ IF full THEN fat_mirror_bhs(fat', l.bhs) ELSE UNCHANGED mirror
           /\ fat_lock' = t
           /\ loc' = [loc EXCEPT ![t].cl = next, ![t].bhs = (IF full THEN {} ELSE @) \cup Bhs({l.cl})]
           /\ Goto(t, IF next = FAT_ENT_EOF THEN "free_mirror" ELSE "free") /\ Works
  <2>1. PICK p2 : p2 = IF next = FAT_ENT_EOF THEN "free_mirror" ELSE "free"  OBVIOUS
  <2>2. pc' = [pc EXCEPT ![t] = p2] /\ failed' = failed  BY <1>6, <2>1 DEF Goto, Works
  <2>3. PICK bhs : bhs = (IF full THEN {} ELSE l.bhs) \cup Bhs({l.cl})  OBVIOUS
  <2>4. loc' = [loc EXCEPT ![t].cl = next, ![t].bhs = bhs]  BY <1>1, <1>6, <2>3, SysFacts
  <2>5. \/ bhs = l.bhs \cup Bhs({l.cl}) /\ mirror' = mirror
        \/ bhs = Bhs({l.cl}) /\ fat_mirror_bhs(fat', l.bhs)
      BY <1>6, <2>3
  <2>6. /\ fat' = Put(fat, l.cl, FAT_ENT_FREE) /\ free_clusters' = Inc(free_clusters) /\ fat_lock' = t
        /\ UNCHANGED <<fat_bits, free_clus_valid, prev_free, msdos_i, cache, fs_error, failed>>
      BY <1>3, <1>6, <2>2
  <2>7. InvOf(ch) /\ pc[t] = "free" /\ l = loc[t] /\ next = Entry(fat, l.cl)  BY <1>1, <1>2, <1>5
  <2> QED BY ONLY t \in Threads, <2>1, <2>2, <2>4, <2>5, <2>6, <2>7, FreeOneStep
<1>7. CASE /\ fat' = Put(fat, l.cl, FAT_ENT_FREE) /\ free_clusters' = Inc(free_clusters)
           /\ UNCHANGED fs_error /\ Fails("free_read") /\ fat_lock' = None /\ Goto(t, l.ret)
           /\ UNCHANGED <<mirror, loc>>
  <2>1. pc' = [pc EXCEPT ![t] = l.ret] /\ failed \subseteq failed' /\ "free_read" \in failed'
      BY <1>7 DEF Goto, Fails
  <2>2. PICK E, F : E = Entries(fat_bits, fat) /\ F = Entries(fat_bits, fat')  OBVIOUS
  <2>3. PICK ch1 : ch1 = [ch EXCEPT ![t] = Tail(own)]  OBVIOUS
  <2>4. /\ ChainOK(Owners, F, ch1) /\ fat' \in Tables(fat_bits)
        /\ free_clusters' \in Int /\ CountInv'
      BY <1>1, <1>3, <1>4, <1>7, <2>2, <2>3, FreeFirst
  <2>5. \A x \in Owners : x # t => ch1[x] = ch[x]
    <3>1. DOMAIN ch = Owners  BY DEF InvOf, ChainInv, ChainOK
    <3> QED BY <2>3, <3>1
  <2> QED BY <1>1, <1>2, <1>3, <1>7, <2>1, <2>2, <2>4, <2>5, FreeLostStep
<1>8. CASE /\ Fails("free_read") /\ fat_lock' = None /\ Goto(t, l.ret)
           /\ UNCHANGED <<fat, mirror, free_clusters, loc, fs_error>>
  <2>1. pc' = [pc EXCEPT ![t] = l.ret] /\ failed \subseteq failed' /\ "free_read" \in failed'
      BY <1>8 DEF Goto, Fails
  <2>2. ChainOK(Owners, Entries(fat_bits, fat'), ch) /\ CountInv'
    <3>1. ChainOK(Owners, Entries(fat_bits, fat), ch) /\ CountInv  BY DEF InvOf, ChainInv
    <3> QED BY <1>3, <1>8, <3>1 DEF CountInv
  <2>3. fat' \in Tables(fat_bits) /\ free_clusters' \in Int  BY <1>8, SysFacts
  <2> QED BY <1>1, <1>2, <1>3, <1>8, <2>1, <2>2, <2>3, FreeLostStep
<1> QED BY <1>1, <1>4, <1>5, <1>6, <1>7, <1>8 DEF fat_free_clusters

LEMMA FreeMirrorStep ==
    ASSUME NEW ch, InvOf(ch), NEW t \in Threads, FreeMirror(t)
    PROVE  InvOf(ch)'
<1>1. PICK l, f, m, s, p2 : l = loc[t] /\ f = l.f /\ m = msdos_i[f] /\ s = ch[f] /\ p2 = l.ret
    OBVIOUS
<1>2. pc[t] = "free_mirror" /\ Goal(pc[t], l) = "free_mirror" /\ pc[t] # "idle"
    BY DEF FreeMirror, Goal, GetPcs
<1>3. /\ l \in LocType /\ f \in Files /\ m \in InodeType /\ l.op \in {"write", "truncate"}
      /\ HoldOK(pc[t], l, ch[t])
    BY <1>1, <1>2, WriterFacts
<1>4. p2 \in {"write_failed", "done"} /\ (p2 = "write_failed" => l.op = "write")
    BY <1>1, <1>2, ThreadFacts DEF OpOK
<1>5. ch[t] = <<>>  BY <1>2, <1>3 DEF HoldOK, HoldPcs
<1>6. PICK bhs :
        /\ Copied(bhs) /\ failed \subseteq failed'
        /\ bhs = l.bhs \/ failed' \cap {"free_read", "free_mirror", "cut_mirror"} # {}
  <2>1. CASE fat_mirror_bhs(fat, loc[t].bhs) /\ Works
      BY <1>1, <2>1, CopyFacts DEF Works
  <2>2. CASE Fails("free_mirror") /\ UNCHANGED mirror
    <3>1. Copied({})  BY <2>2, CopyFacts
    <3>2. "free_mirror" \in failed' /\ failed \subseteq failed'  BY <2>2 DEF Fails
    <3> QED BY <3>1, <3>2
  <2> QED BY <2>1, <2>2 DEF FreeMirror
<1>7. /\ UNCHANGED <<fat_bits, fat, free_clusters, free_clus_valid, prev_free, fs_error>>
      /\ fat_lock' = None /\ msdos_i' = msdos_i /\ cache' = cache
      /\ loc' = [loc EXCEPT ![t].bhs = {}] /\ pc' = [pc EXCEPT ![t] = p2]
    BY <1>1 DEF FreeMirror, env_vars, Set, Goto
<1>8. PICK l2 : l2 = [l EXCEPT !.bhs = {}]  OBVIOUS
<1>9. /\ l2 \in LocType /\ l2.f = f /\ l2.op = l.op /\ l2.ret = l.ret /\ l2.cl = l.cl
      /\ l2.nr = l.nr
  <2>1. {} \in SUBSET Int  OBVIOUS
  <2> QED BY <1>1, <1>3, <1>8, <2>1 DEF LocType
<1>10. Moves(t, p2, l2)
  <2>1. DOMAIN loc' = Threads /\ loc'[t] = l2 /\ \A u \in Threads : u # t => loc'[u] = loc[u]
      BY <1>1, <1>7, <1>8, SysFacts
  <2> QED BY <1>7, <2>1 DEF Moves
<1>11. Goal(p2, l2) = p2  BY <1>4 DEF Goal, GetPcs
<1>12. OpOK(t, p2, l2, t)  BY <1>3, <1>4, <1>9, <1>11 DEF OpOK, GetPcs, WritePcs, TruncatePcs
<1>13. HoldOK(p2, l2, ch[t])  BY <1>4, <1>5, <1>9, <1>11 DEF HoldOK, HoldPcs
<1>14. SizeOK(p2, l2, s, m.i_size, m.mmu_private, m.i_blocks, Undamaged')
    BY <1>4, <1>11 DEF SizeOK, LinkedPcs
<1>15. PosOK(p2, l2, s)  BY <1>4 DEF PosOK, GetPcs, RetPcs
<1>16. Pending(fat_bits, pc[t], l, ch[t]) \subseteq bhs \cup Pending(fat_bits, p2, l2, ch[t])
       \/ failed' \cap {"free_read", "free_mirror", "cut_mirror"} # {}
  <2>1. Pending(fat_bits, pc[t], l, ch[t]) = l.bhs  BY <1>2 DEF Pending, MirrorPcs
  <2> QED BY <1>6, <2>1
<1>17. /\ pc[t] # "idle" /\ Goal(pc[t], l) # "bmap_cluster" /\ pc[t] \notin {"add_alloc", "unmap", "cut_mirror"}
       /\ pc[t] \notin LinkedPcs
       /\ p2 \notin {"idle", "walk", "add", "add_alloc", "unmap"} /\ Goal(p2, l2) # "cut"
    BY <1>2, <1>4, <1>11 DEF LinkedPcs
<1>18. fat_lock' \in Threads \cup {None}  BY <1>7
<1> QED BY ONLY InvOf(ch), t \in Threads, <1>1, <1>6, <1>7, <1>9, <1>10, <1>12, <1>13, <1>14, <1>15, <1>16, <1>17,
                <1>18, CopyStep

-----------------------------------------------------------------------------
(* fat_chain_add: the new clusters are linked behind the chain.            *)
LEMMA PutFacts ==
    ASSUME NEW ch, InvOf(ch), NEW c \in Clusters, NEW v \in Values, fat' = Put(fat, c, v),
           NEW E, E = Entries(fat_bits, fat), NEW F, F = Entries(fat_bits, fat')
    PROVE  /\ fat' \in Tables(fat_bits) /\ F[c] = v /\ SameBut(E, F, c)
           /\ \A o \in Offsets : o \div s_blocksize \notin BhsOf(Pos(fat_bits, c)) => fat'[o] = fat[o]
<1>1. fat_bits \in Widths /\ fat \in Tables(fat_bits)  BY SysFacts
<1>2. fat' = ent_put(fat_bits, fat, Pos(fat_bits, c), v)  BY DEF Put
<1> QED BY <1>1, <1>2, PutEntries DEF Offsets, SameBut

(* The entries that are not free stay as many.                             *)
LEMMA CountPut ==
    ASSUME NEW ch, InvOf(ch), NEW c \in Clusters, NEW E, E = Entries(fat_bits, fat),
           NEW F, F = Entries(fat_bits, fat'), E[c] # FAT_ENT_FREE, F[c] # FAT_ENT_FREE, SameBut(E, F, c),
           UNCHANGED <<fat_bits, free_clusters, free_clus_valid>>
    PROVE  CountInv'
<1>1. FreeSet(F) = FreeSet(E)  BY FreePut
<1>2. CountInv  BY DEF InvOf
<1> QED BY <1>1, <1>2 DEF CountInv

(* A chain that grows keeps the clusters it had.                           *)
Prefix(s, s2) == Len(s) <= Len(s2) /\ \A k \in 1 .. Len(s) : s2[k] = s[k]
LEMMA GrownKept ==
    ASSUME NEW s \in Seq(Clusters), NEW s2 \in Seq(Clusters), Prefix(s, s2),
           NEW t \in Threads, NEW f, NEW size \in Nat, NEW um, NEW um2, um => um2, NEW fl, NEW cut, NEW cut2,
           cut2 => cut
    PROVE  /\ ReadersKept(s, s2, t, f, size, size, um, um2)
           /\ RunsKept(s, s2, size, size, fl, um, cut, cut2)
<1>1. PICK n \in Nat, n2 \in Nat : n = Len(s) /\ n2 = Len(s2) /\ n <= n2  BY DEF Prefix
<1>2. ASSUME NEW u \in Threads, loc[u] \in LocType, loc[u].tgt < Len(s), ReaderOK(loc[u], size, um)
      PROVE  /\ loc[u].tgt < Len(s2)
             /\ \A i \in 0 .. loc[u].tgt : s2[i + 1] = s[i + 1]
             /\ ReaderOK(loc[u], size, um2)
  <2>1. PICK x \in Nat : x = loc[u].tgt /\ x < n  BY <1>1, <1>2 DEF LocType
  <2>2. x < n2 /\ \A i \in 0 .. x : i + 1 \in 1 .. n  BY <1>1, <2>1
  <2>3. ReaderOK(loc[u], size, um2)  BY <1>2 DEF ReaderOK
  <2> QED BY <1>1, <2>1, <2>2, <2>3 DEF Prefix
<1>3. ASSUME NEW e, RunOK(s, e)
      PROVE  RunOK(s2, e)
  <2>1. PICK a \in Nat, b \in Nat : a = e.f /\ b = e.n /\ a + b < n /\ a > 0  BY <1>1, <1>3 DEF RunOK
  <2>2. \A i \in 0 .. b : (a + i) + 1 \in 1 .. n  BY <1>1, <2>1
  <2>3. a + b < n2  BY <1>1, <2>1
  <2> QED BY <1>1, <1>3, <2>1, <2>2, <2>3 DEF RunOK, Prefix
<1>4. ReadersKept(s, s2, t, f, size, size, um, um2)  BY <1>2 DEF ReadersKept
<1>5. RunsKept(s, s2, size, size, fl, um, cut, cut2)  BY <1>3 DEF RunsKept, Within
<1> QED BY <1>4, <1>5

LEMMA ChainLinkStep ==
    ASSUME NEW ch, InvOf(ch), NEW t \in Threads, pc[t] = "chain_put", loc[t].res.ok,
           fat' = Put(fat, loc[t].dclus, loc[t].cl),
           Set(t, "bhs", Bhs({loc[t].dclus})), Goto(t, "chain_mirror"),
           UNCHANGED <<fat_bits, mirror, sbi_vars, msdos_i, cache, fs_error, failed>>
    PROVE  \E ch2 : InvOf(ch2)'
<1>1. PICK l, f, m, s, own : l = loc[t] /\ f = l.f /\ m = msdos_i[f] /\ s = ch[f] /\ own = ch[t]
    OBVIOUS
<1>2. Goal(pc[t], l) = "chain_put" /\ pc[t] # "idle"  BY DEF Goal, GetPcs
<1>3. /\ l \in LocType /\ f \in Files /\ m \in InodeType /\ FileOK(s, m) /\ l.op \in {"write", "truncate"}
      /\ l.op = "truncate" => Goal(pc[t], l) \in TruncatePcs
      /\ Undamaged /\ pc[t] \notin LinkedPcs \cup {"cut_mirror"} => m.i_blocks = Len(s)
      /\ HoldOK(pc[t], l, own) /\ s \in Seq(Clusters) /\ Len(s) \in Nat /\ t # f /\ m.i_mutex = t
      /\ t \in Owners /\ f \in Owners
    BY <1>1, <1>2, WriterFacts DEF Owners
<1>4. own # <<>> /\ l.cl = own[1] /\ Len(own) = l.nr /\ l.op = "write"
    BY <1>2, <1>3 DEF HoldOK, HoldPcs, TruncatePcs
<1>5. own \in Seq(Clusters) /\ Len(own) \in Nat /\ Len(own) > 0 /\ own[1] \in Clusters
  <2>1. own \in Seq(Clusters)  BY <1>1, <1>3, ChainFacts
  <2> QED BY <1>4, <2>1
<1>6. s # <<>> /\ l.fclus = Len(s) - 1 /\ l.dclus = s[Len(s)] /\ Len(s) > 0 /\ s[Len(s)] \in Clusters
  <2>1. PosOK(pc[t], l, s)  BY <1>1, <1>2, ThreadFacts
  <2>2. l.res # Failed
    <3>1. l.res.ok /\ Failed.ok = FALSE  BY <1>1 DEF Failed
    <3> QED BY <3>1
  <2>3. PICK a \in 0 .. Len(s) - 1 : a = l.fclus /\ l.dclus = s[a + 1]  BY <1>2, <2>1, <2>2 DEF PosOK, RetPcs
  <2>4. l.res # NoRes
    <3>1. l.res = NoRes => l.fclus = FAT_ENT_EOF  BY <1>2, <2>1 DEF PosOK, RetPcs, GetPcs
    <3>2. Len(s) <= max_cluster - FAT_START_ENT  BY <1>1, <1>3, ChainFacts, DistinctLen
    <3>3. PICK M \in Nat, e \in Nat : M = max_cluster /\ e = FAT_ENT_EOF /\ M < e
      <4>1. FAT_ENT_EOF \in Nat  BY SMT DEF FAT_ENT_EOF
      <4> QED BY <4>1, SysFacts, NotEof, BlockAssumption
    <3>4. a < e  BY <1>3, <3>2, <3>3 DEF FAT_START_ENT
    <3> QED BY <2>3, <3>1, <3>3, <3>4
  <2>5. l.res = AtEof  BY <1>3, <2>2, <2>4 DEF LocType
  <2>6. a = Len(s) - 1  BY <1>2, <2>1, <2>3, <2>5 DEF PosOK, RetPcs
  <2>7. a + 1 = Len(s) /\ Len(s) > 0  BY <1>3, <2>3, <2>6
  <2> QED BY <1>3, <2>3, <2>6, <2>7
<1>7. PICK E, F, c : E = Entries(fat_bits, fat) /\ F = Entries(fat_bits, fat') /\ c = s[Len(s)]
    OBVIOUS
<1>8. /\ fat' \in Tables(fat_bits) /\ F[c] = own[1] /\ SameBut(E, F, c)
      /\ \A o \in Offsets : o \div s_blocksize \notin BhsOf(Pos(fat_bits, c)) => fat'[o] = fat[o]
  <2>1. c \in Clusters /\ own[1] \in Values  BY <1>5, <1>6, <1>7 DEF Values
  <2>2. fat' = Put(fat, c, own[1])  BY <1>1, <1>4, <1>6, <1>7
  <2> QED BY <1>7, <2>1, <2>2, PutFacts
<1>9. PICK s2 : s2 = s \o own  OBVIOUS
<1>10. s2 \in Seq(Clusters) /\ Len(s2) = Len(s) + Len(own) /\ Prefix(s, s2) /\ s2[1] = s[1] /\ s2 # <<>>
  <2>1. s2 \in Seq(Clusters) /\ Len(s2) = Len(s) + Len(own) /\ \A k \in 1 .. Len(s) : s2[k] = s[k]
      BY <1>3, <1>5, <1>9, JoinFacts
  <2>2. 1 \in 1 .. Len(s) /\ Len(s) <= Len(s2) /\ Len(s2) # 0  BY <1>3, <1>5, <1>6, <2>1
  <2> QED BY <2>1, <2>2 DEF Prefix
<1>11. PICK ch2 : ch2 = [ch EXCEPT ![f] = s2, ![t] = <<>>]  OBVIOUS
<1>12. ChainOK(Owners, F, ch2) /\ (NoneLost(Owners, E, ch) => NoneLost(Owners, F, ch2))
  <2>1. ChainOK(Owners, E, ch)  BY <1>7 DEF InvOf, ChainInv
  <2>2. F[ch[f][Len(ch[f])]] = ch[t][1] /\ SameBut(E, F, ch[f][Len(ch[f])]) /\ ch[f] # <<>> /\ ch[t] # <<>>
      BY <1>1, <1>4, <1>6, <1>7, <1>8
  <2>3. ch2 = [ch EXCEPT ![f] = ch[f] \o ch[t], ![t] = <<>>]  BY <1>1, <1>9, <1>11
  <2>4. f \in Owners /\ t \in Owners /\ f # t  BY <1>3
  <2> QED BY ONLY <2>1, <2>2, <2>3, <2>4, ChainJoin
<1>13. ch2[f] = s2 /\ ch2[t] = <<>> /\ \A x \in Owners : x # t /\ x # f => ch2[x] = ch[x]
  <2>1. DOMAIN ch = Owners  BY DEF InvOf, ChainInv, ChainOK
  <2> QED BY <1>3, <1>11, <2>1
<1>14. Undamaged' <=> Undamaged  BY DEF Undamaged
<1>15. ChainInv(ch2)'
  <2>1. Entries(fat_bits, fat)' = F  BY <1>7
  <2>2. Undamaged => NoneLost(Owners, E, ch)  BY <1>7 DEF InvOf, ChainInv
  <2> QED BY <1>12, <1>14, <2>1, <2>2 DEF ChainInv
<1>16. CountInv'
  <2>1. E[c] # FAT_ENT_FREE
    <3>1. Len(s) \in 1 .. Len(s)  BY <1>3, <1>6
    <3>2. E[c] = Link(s, Len(s))  BY <1>1, <1>3, <1>7, <3>1, ChainFacts
    <3> QED BY <1>3, <3>1, <3>2, LinkType
  <2>2. F[c] # FAT_ENT_FREE  BY <1>5, <1>8, ClusterFacts
  <2>3. UNCHANGED <<fat_bits, free_clusters, free_clus_valid>>  BY DEF sbi_vars
  <2>4. c \in Clusters  BY <1>6, <1>7
  <2> QED BY <1>7, <1>8, <2>1, <2>2, <2>3, <2>4, CountPut
<1>17. PICK bhs : bhs = Bhs({l.dclus})  OBVIOUS
<1>18. bhs = BhsOf(Pos(fat_bits, c)) /\ bhs \in SUBSET Int
  <2>1. bhs = BhsOf(Pos(fat_bits, c))  BY <1>6, <1>7, <1>17 DEF Bhs
  <2>2. BhsOf(Pos(fat_bits, c)) \subseteq Int  BY <1>6, <1>7, BlocksInt, SysFacts
  <2> QED BY <2>1, <2>2
<1>19. PICK l2 : l2 = [l EXCEPT !.bhs = bhs]  OBVIOUS
<1>20. /\ l2 \in LocType /\ l2.f = f /\ l2.op = l.op /\ l2.bhs = bhs /\ l2.fclus = l.fclus
       /\ l2.nr = l.nr /\ l.nr \in Nat
    BY <1>1, <1>3, <1>18, <1>19 DEF LocType
<1>21. PICK c2, p2 : c2 = cache[f] /\ p2 = "chain_mirror"  OBVIOUS
<1>22. Changed(t, f, p2, l2, m, c2)
  <2>1. loc' = [loc EXCEPT ![t].bhs = bhs] /\ pc' = [pc EXCEPT ![t] = p2]
      BY <1>1, <1>17, <1>21 DEF Set, Goto
  <2> QED BY <1>1, <1>3, <1>19, <1>21, <2>1, SysFacts DEF Changed
<1>23. Goal(p2, l2) = "chain_mirror"  BY <1>21 DEF Goal, GetPcs
<1>24. MirrorInv(ch2)'
  <2>1. StepBy(ch, ch2, t, f)
    <3>1. \A u \in Threads : u # t => ch2[u] = ch[u]  BY <1>3, <1>13, ThreadAssumption DEF Owners
    <3>2. \A g \in Files : g # f => ch2[g] = ch[g]  BY <1>13, ThreadAssumption DEF Owners
    <3> QED BY <1>1, <1>3, <1>20, <1>22, <3>1, <3>2, Stepped
  <2>2. Pending(fat_bits, pc'[t], loc'[t], ch2[t]) = bhs
      BY <1>20, <1>21, <1>22 DEF Pending, MirrorPcs, Changed
  <2>3. Pending(fat_bits, pc[t], loc[t], ch[t]) = {}  BY DEF Pending, MirrorPcs
  <2>4. \A o \in Offsets :
            \/ fat'[o] = mirror'[o]
            \/ o \div s_blocksize \in Pending(fat_bits, pc'[t], loc'[t], ch2[t])
            \/ fat[o] # mirror[o] /\ o \div s_blocksize \notin Pending(fat_bits, pc[t], loc[t], ch[t])
      BY <1>8, <1>18, <2>2, <2>3
  <2> QED BY <2>1, <2>4, MirrorStep DEF InvOf
<1>25. FileOK(ch2[f], m)
  <2>1. m.mmu_private \in Nat /\ m.i_size \in Nat  BY <1>3 DEF InodeType
  <2>2. m.mmu_private <= Len(s) /\ m.i_start = s[1] /\ m.i_size <= m.mmu_private /\ m.cache_valid_id # 0
      BY <1>3, <1>6 DEF FileOK
  <2>3. m.mmu_private <= Len(s2)  BY <1>3, <1>5, <1>10, <2>1, <2>2
  <2> QED BY <1>3, <1>10, <1>13, <2>2, <2>3 DEF FileOK
<1>26. (p2 = "unmap") = FALSE /\ (pc[t] = "unmap") = FALSE  BY <1>21
<1>27. ThreadOK(t, p2, l2, ch2[t], ch2[f], m.i_size, m.mmu_private, m.i_blocks, m.i_mutex,
                    Undamaged', p2 = "unmap")
  <2>1. OpOK(t, p2, l2, m.i_mutex)  BY <1>3, <1>4, <1>20, <1>21, <1>23 DEF OpOK, WritePcs, GetPcs
  <2>2. HoldOK(p2, l2, ch2[t])  BY <1>13, <1>23 DEF HoldOK, HoldPcs
  <2>3. SizeOK(p2, l2, ch2[f], m.i_size, m.mmu_private, m.i_blocks, Undamaged')
    <3>1. m.mmu_private \in Nat /\ m.mmu_private <= Len(s)  BY <1>3 DEF InodeType, FileOK
    <3>2. m.mmu_private + l2.nr <= Len(s2) /\ l2.fclus = (Len(s2) - l2.nr) - 1
        BY <1>3, <1>4, <1>5, <1>6, <1>10, <1>20, <3>1
    <3>3. Undamaged' => m.i_blocks + l2.nr = Len(s2)
      <4>1. pc[t] \notin LinkedPcs \cup {"cut_mirror"}  BY DEF LinkedPcs
      <4> QED BY <1>3, <1>4, <1>10, <1>14, <1>20, <4>1
    <3> QED BY <1>13, <1>21, <1>23, <3>2, <3>3 DEF SizeOK
  <2>4. PosOK(p2, l2, ch2[f])  BY <1>21 DEF PosOK, GetPcs, RetPcs
  <2>5. ReaderOK(l2, m.i_size, p2 = "unmap")  BY <1>4, <1>20 DEF ReaderOK
  <2> QED BY <1>20, <1>21, <2>1, <2>2, <2>3, <2>4, <2>5 DEF ThreadOK
<1>28. CidOK(p2, l2, ch2[f], m.cache_valid_id, Goal(p2, l2) = "cut", m.i_size)
    BY <1>21 DEF CidOK
<1>29. Kept(m, m, cache[f], c2) \/ Flushed(m, m, cache[f], c2)  BY <1>21 DEF Kept
<1>30. /\ ReadersKept(ch[f], ch2[f], t, f, m.i_size, m.i_size, pc[t] = "unmap", p2 = "unmap")
       /\ RunsKept(ch[f], ch2[f], m.i_size, m.i_size, Flushed(m, m, cache[f], c2), pc[t] = "unmap",
                  Goal(pc[t], loc[t]) = "cut", Goal(p2, l2) = "cut")
  <2>1. m.i_size \in Nat /\ ch[f] \in Seq(Clusters) /\ ch2[f] \in Seq(Clusters) /\ Prefix(ch[f], ch2[f])
      BY <1>1, <1>3, <1>10, <1>13 DEF InodeType
  <2>2. (Goal(p2, l2) = "cut") => (Goal(pc[t], loc[t]) = "cut")  BY <1>23
  <2>3. (pc[t] = "unmap") => (p2 = "unmap")  OBVIOUS
  <2> QED BY <2>1, <2>2, <2>3, GrownKept
<1>31. /\ fat' \in Tables(fat_bits) /\ mirror' \in Tables(fat_bits) /\ fat_lock' \in Threads \cup {None}
       /\ prev_free' \in Clusters /\ free_clusters' \in Int /\ free_clus_valid' \in BOOLEAN
       /\ fat_bits' = fat_bits /\ fs_error' \in BOOLEAN /\ (Undamaged' => ~fs_error') /\ failed \subseteq failed'
    BY <1>8, <1>14, SysFacts DEF sbi_vars
<1>32. /\ InvOf(ch) /\ f \in Files /\ m = msdos_i[f] /\ m.i_mutex \in {t, None}
       /\ (pc[t] # "idle" => loc[t].f = f) /\ (p2 # "idle" => l2.f = f)
       /\ pc[t] # "add_alloc" /\ p2 # "add_alloc"
    BY <1>1, <1>3, <1>20, <1>21
<1>33. Undamaged' /\ p2 \notin LinkedPcs \cup {"cut_mirror"} => m.i_blocks = Len(ch2[f])
    BY <1>21 DEF LinkedPcs
<1>34. \A x \in Owners : x # t /\ x # f => ch2[x] = ch[x]  BY <1>13
<1>35. InvOf(ch2)'
    BY ONLY t \in Threads, <1>15, <1>16, <1>22, <1>24, <1>25, <1>27, <1>28, <1>29, <1>30, <1>31, <1>32, <1>33,
            <1>34, HeldStep
<1> QED BY <1>35

LEMMA ChainPutStep ==
    ASSUME NEW ch, InvOf(ch), NEW t \in Threads, ChainPut(t)
    PROVE  \E ch2 : InvOf(ch2)'
<1>1. PICK l, f, m, s : l = loc[t] /\ f = l.f /\ m = msdos_i[f] /\ s = ch[f]
    OBVIOUS
<1>2. pc[t] = "chain_put" /\ Goal(pc[t], l) = "chain_put" /\ pc[t] # "idle"  BY DEF ChainPut, Goal, GetPcs
<1>3. UNCHANGED <<fat_bits, mirror, sbi_vars, msdos_i, cache, fs_error>>  BY DEF ChainPut, env_vars
<1>4. CASE /\ loc[t].res.ok /\ fat' = Put(fat, loc[t].dclus, loc[t].cl)
           /\ Set(t, "bhs", Bhs({loc[t].dclus})) /\ Goto(t, "chain_mirror") /\ Works
  <2>1. failed' = failed  BY <1>4 DEF Works
  <2> QED BY <1>2, <1>3, <1>4, <2>1, ChainLinkStep
<1>5. CASE Goto(t, "chain_undo") /\ UNCHANGED <<fat, loc>> /\ (Works \/ Fails("walk_read"))
  <2>1. /\ l \in LocType /\ f \in Files /\ l.op \in {"write", "truncate"}
        /\ l.op = "truncate" => Goal(pc[t], l) \in TruncatePcs
        /\ HoldOK(pc[t], l, ch[t])
      BY <1>1, <1>2, WriterFacts
  <2>2. ch[t] # <<>> /\ l.cl = ch[t][1] /\ l.op = "write"
      BY <1>2, <2>1 DEF HoldOK, HoldPcs, TruncatePcs
  <2>3. PICK p2 : p2 = "chain_undo"  OBVIOUS
  <2>4. pc' = [pc EXCEPT ![t] = p2] /\ failed \subseteq failed' /\ loc' = loc /\ fat' = fat
      BY <1>5, <2>3 DEF Goto, Works, Fails
  <2>5. Goal(p2, l) = "chain_undo"  BY <2>3 DEF Goal, GetPcs
  <2>6. OpOK(t, p2, l, t)  BY <2>2, <2>3, <2>5 DEF OpOK, GetPcs, WritePcs
  <2>7. HoldOK(p2, l, ch[t])  BY <2>2, <2>5 DEF HoldOK, HoldPcs
  <2>8. SizeOK(p2, l, s, m.i_size, m.mmu_private, m.i_blocks, Undamaged')
      BY <2>3, <2>5 DEF SizeOK, LinkedPcs
  <2>9. PosOK(p2, l, s)  BY <2>3 DEF PosOK, GetPcs, RetPcs
  <2>10. fs_error' \in BOOLEAN /\ (Undamaged' => ~fs_error')  BY <1>3, <2>4, Damage, SysFacts
  <2>11. DOMAIN loc' = Threads /\ loc'[t] = l /\ \A u \in Threads : u # t => loc'[u] = loc[u]
      BY <1>1, <2>4, SysFacts
  <2>12. /\ pc[t] # "idle" /\ Goal(pc[t], l) # "bmap_cluster"
         /\ pc[t] \notin {"add_alloc", "unmap"} \cup MirrorPcs \cup LinkedPcs
         /\ p2 \notin {"idle", "walk", "add", "add_alloc", "unmap"} /\ Goal(p2, l) # "cut"
         /\ msdos_i' = msdos_i /\ cache' = cache /\ UNCHANGED <<fat_bits, fat, mirror, sbi_vars>>
         /\ l \in LocType /\ l.f = f /\ l.op = l.op /\ InvOf(ch)
      BY <1>1, <1>2, <1>3, <2>1, <2>3, <2>4, <2>5 DEF MirrorPcs, LinkedPcs
  <2>13. InvOf(ch)'
      BY ONLY t \in Threads, <1>1, <2>4, <2>6, <2>7, <2>8, <2>9, <2>10, <2>11, <2>12, MoveStep
  <2> QED BY <2>13
<1> QED BY <1>4, <1>5 DEF ChainPut

(* When the copy cannot be written the callers of fat_chain_add free       *)
(* clusters that are linked: this is left out here.                        *)
LEMMA ChainMirrorStep ==
    ASSUME NEW ch, InvOf(ch), NEW t \in Threads, ChainMirror(t), "chain_mirror" \notin FailKinds
    PROVE  InvOf(ch)'
<1>1. PICK l, f, m, s, p2 : l = loc[t] /\ f = l.f /\ m = msdos_i[f] /\ s = ch[f] /\ p2 = "chain_done"
    OBVIOUS
<1>2. pc[t] = "chain_mirror" /\ Goal(pc[t], l) = "chain_mirror"  BY DEF ChainMirror, Goal, GetPcs
<1>3. /\ l \in LocType /\ f \in Files /\ m \in InodeType /\ l.op \in {"write", "truncate"}
      /\ l.op = "truncate" => Goal(pc[t], l) \in TruncatePcs
      /\ HoldOK(pc[t], l, ch[t])
      /\ SizeOK(pc[t], l, s, m.i_size, m.mmu_private, m.i_blocks, Undamaged)
    BY <1>1, <1>2, WriterFacts
<1>4. ch[t] = <<>> /\ l.op = "write"  BY <1>2, <1>3 DEF HoldOK, HoldPcs, TruncatePcs
<1>5. ~Fails("chain_mirror")  BY DEF Fails
<1>6. /\ fat_mirror_bhs(fat, l.bhs) /\ pc' = [pc EXCEPT ![t] = p2] /\ failed' = failed
    BY <1>1, <1>5 DEF ChainMirror, Goto, Works
<1>7. /\ UNCHANGED <<fat_bits, fat, free_clusters, free_clus_valid, prev_free, fs_error>>
      /\ fat_lock' = fat_lock /\ msdos_i' = msdos_i /\ cache' = cache
      /\ loc' = [loc EXCEPT ![t].bhs = {}]
    BY DEF ChainMirror, env_vars, sbi_vars, Set
<1>8. PICK l2 : l2 = [l EXCEPT !.bhs = {}]  OBVIOUS
<1>9. l2 \in LocType /\ l2.f = f /\ l2.op = l.op /\ l2.nr = l.nr /\ l2.fclus = l.fclus
  <2>1. {} \in SUBSET Int  OBVIOUS
  <2> QED BY <1>1, <1>3, <1>8, <2>1 DEF LocType
<1>10. Moves(t, p2, l2)
  <2>1. DOMAIN loc' = Threads /\ loc'[t] = l2 /\ \A u \in Threads : u # t => loc'[u] = loc[u]
      BY <1>1, <1>7, <1>8, SysFacts
  <2> QED BY <1>6, <2>1 DEF Moves
<1>11. Goal(p2, l2) = "chain_done"  BY <1>1 DEF Goal, GetPcs
<1>12. OpOK(t, p2, l2, t)  BY <1>1, <1>4, <1>9, <1>11 DEF OpOK, GetPcs, WritePcs
<1>13. HoldOK(p2, l2, ch[t])  BY <1>4, <1>11 DEF HoldOK, HoldPcs
<1>14. SizeOK(p2, l2, s, m.i_size, m.mmu_private, m.i_blocks, Undamaged')
  <2>1. Undamaged' => Undamaged  BY <1>6 DEF Undamaged
  <2>2. /\ m.mmu_private + l.nr <= Len(s) /\ l.fclus = (Len(s) - l.nr) - 1
        /\ Undamaged => m.i_blocks + l.nr = Len(s)
      BY <1>2, <1>3 DEF SizeOK, LinkedPcs
  <2> QED BY <1>1, <1>9, <1>11, <2>1, <2>2 DEF SizeOK
<1>15. PosOK(p2, l2, s)  BY <1>1 DEF PosOK, GetPcs, RetPcs
<1>16. Copied(l.bhs)  BY <1>6, CopyFacts
<1>17. Pending(fat_bits, pc[t], l, ch[t]) \subseteq l.bhs \cup Pending(fat_bits, p2, l2, ch[t])
    BY <1>2 DEF Pending
<1>18. /\ pc[t] # "idle" /\ Goal(pc[t], l) # "bmap_cluster" /\ pc[t] \notin {"add_alloc", "unmap", "cut_mirror"}
       /\ p2 \in LinkedPcs
       /\ p2 \notin {"idle", "walk", "add", "add_alloc", "unmap"} /\ Goal(p2, l2) # "cut"
       /\ fat_lock' \in Threads \cup {None} /\ failed \subseteq failed'
    BY <1>1, <1>2, <1>6, <1>7, <1>11, SysFacts DEF LinkedPcs
<1> QED BY ONLY InvOf(ch), t \in Threads, <1>1, <1>7, <1>9, <1>10, <1>12, <1>13, <1>14, <1>15, <1>16, <1>17,
                <1>18, CopyStep

(* The cache of an inode is emptied.                                       *)
LEMMA InvalFacts ==
    ASSUME NEW f \in Files, NEW ms, DOMAIN ms = Files, NEW m \in InodeType, m = ms[f],
           cache[f] \in Seq(EntryType)
    PROVE  LET r == fat_cache_inval_inode(f, ms)
           IN /\ DOMAIN r = Files /\ \A g \in Files : g # f => r[g] = ms[g]
              /\ r[f] \in InodeType /\ r[f].i_start = m.i_start /\ r[f].i_size = m.i_size
              /\ r[f].mmu_private = m.mmu_private /\ r[f].i_blocks = m.i_blocks
              /\ r[f].i_mutex = m.i_mutex /\ Flushed(m, r[f], cache[f], <<>>)
<1>1. PICK a \in Int, b \in Nat : a = m.nr_caches - Len(cache[f]) /\ b = m.cache_valid_id + 1
    BY DEF InodeType
<1>2. PICK r : r = fat_cache_inval_inode(f, ms)  OBVIOUS
<1>3. r = [ms EXCEPT ![f].nr_caches = a, ![f].cache_valid_id = b]
    BY <1>1, <1>2 DEF fat_cache_inval_inode
<1>4. PICK m2 : m2 = [m EXCEPT !.nr_caches = a, !.cache_valid_id = b]  OBVIOUS
<1>5. DOMAIN r = Files /\ r[f] = m2 /\ \A g \in Files : g # f => r[g] = ms[g]
    BY <1>3, <1>4
<1>6. /\ m2 \in InodeType /\ m2.i_start = m.i_start /\ m2.i_size = m.i_size
      /\ m2.mmu_private = m.mmu_private /\ m2.i_blocks = m.i_blocks /\ m2.i_mutex = m.i_mutex
      /\ m2.nr_caches = a /\ m2.cache_valid_id = b
    BY <1>4 DEF InodeType
<1>7. Flushed(m, m2, cache[f], <<>>)  BY <1>1, <1>6 DEF Flushed
<1> QED BY <1>2, <1>5, <1>6, <1>7

LEMMA ChainDoneStep ==
    ASSUME NEW ch, InvOf(ch), NEW t \in Threads, ChainDone(t)
    PROVE  InvOf(ch)'
<1>1. PICK l, f, m, s, c : l = loc[t] /\ f = l.f /\ m = msdos_i[f] /\ s = ch[f] /\ c = cache[f]
    OBVIOUS
<1>2. pc[t] = "chain_done" /\ Goal(pc[t], l) = "chain_done"  BY DEF ChainDone, Goal, GetPcs
<1>3. /\ l \in LocType /\ f \in Files /\ m \in InodeType /\ FileOK(s, m) /\ l.op \in {"write", "truncate"}
      /\ l.op = "truncate" => Goal(pc[t], l) \in TruncatePcs
      /\ HoldOK(pc[t], l, ch[t]) /\ s \in Seq(Clusters) /\ Len(s) \in Nat /\ m.i_mutex = t
      /\ SizeOK(pc[t], l, s, m.i_size, m.mmu_private, m.i_blocks, Undamaged)
    BY <1>1, <1>2, WriterFacts
<1>4. ch[t] = <<>> /\ l.op = "write"  BY <1>2, <1>3 DEF HoldOK, HoldPcs, TruncatePcs
<1>5. /\ UNCHANGED <<fat_bits, fat, mirror, sbi_vars>> /\ failed' = failed
    BY DEF ChainDone, env_vars, Works
<1>6. Undamaged' <=> Undamaged  BY <1>5 DEF Undamaged
<1>7. /\ m.mmu_private + l.nr <= Len(s) /\ l.fclus = (Len(s) - l.nr) - 1
      /\ Undamaged => m.i_blocks + l.nr = Len(s)
    BY <1>2, <1>3 DEF SizeOK, LinkedPcs
<1>8. PICK nr \in {1, 2}, mmu \in Nat, size \in Nat, blk \in Int :
        /\ nr = l.nr /\ mmu = m.mmu_private /\ size = m.i_size /\ blk = m.i_blocks /\ size <= mmu
    BY <1>3 DEF LocType, InodeType, FileOK
<1>9. PICK bad \in BOOLEAN : bad = (l.fclus + 1 # m.i_blocks)  OBVIOUS
<1>0. PICK N \in Nat, fc \in Int : N = Len(s) /\ fc = l.fclus  BY <1>3 DEF LocType
<1>10. Undamaged => ~bad
  <2>1. fc = (N - nr) - 1 /\ (Undamaged => blk + nr = N) /\ bad = (fc + 1 # blk)
      BY <1>0, <1>7, <1>8, <1>9
  <2>2. blk + nr = N /\ fc = (N - nr) - 1 => fc + 1 = blk
      BY ONLY N \in Nat, fc \in Int, nr \in {1, 2}, blk \in Int
  <2> QED BY <2>1, <2>2
<1>11. c \in Seq(EntryType) /\ DOMAIN msdos_i = Files /\ cache \in [Files -> Seq(EntryType)]
    BY <1>1, <1>3, SysFacts
<1>12. PICK kept, c2 : /\ kept = IF bad THEN fat_cache_inval_inode(f, msdos_i) ELSE msdos_i
                       /\ c2 = IF bad THEN <<>> ELSE c
    OBVIOUS
<1>13. PICK m1 \in InodeType :
         /\ m1 = kept[f] /\ DOMAIN kept = Files /\ \A g \in Files : g # f => kept[g] = msdos_i[g]
         /\ m1.i_start = m.i_start /\ m1.i_size = m.i_size
         /\ m1.mmu_private = m.mmu_private /\ m1.i_blocks = m.i_blocks /\ m1.i_mutex = m.i_mutex
         /\ Kept(m, m1, c, c2) \/ Flushed(m, m1, c, c2)
  <2>1. CASE bad
      BY <1>1, <1>3, <1>11, <1>12, <2>1, InvalFacts
  <2>2. CASE ~bad
    <3>1. kept = msdos_i /\ c2 = c  BY <1>12, <2>2
    <3>2. Kept(m, m, c, c2)  BY <3>1 DEF Kept
    <3> QED BY <1>1, <1>3, <1>11, <3>1, <3>2
  <2> QED BY <2>1, <2>2
<1>14. PICK x \in Int, y \in Nat, z \in Nat : x = blk + nr /\ y = mmu + nr /\ z = size + nr  OBVIOUS
<1>15. y <= Len(s) /\ z <= y /\ size <= y /\ size <= z /\ mmu < Len(s) /\ (Undamaged => x = Len(s))
  <2>1. mmu + nr <= N /\ (Undamaged => blk + nr = N) /\ size <= mmu /\ x = blk + nr /\ y = mmu + nr /\ z = size + nr
      BY <1>0, <1>7, <1>8, <1>14
  <2>2. y <= N /\ z <= y /\ size <= y /\ size <= z /\ mmu < N /\ (Undamaged => x = N)
      BY ONLY N \in Nat, size \in Nat, mmu \in Nat, nr \in {1, 2}, blk \in Int, x \in Int, <2>1
  <2> QED BY <1>0, <2>2
<1>16. PICK ms : ms = [kept EXCEPT ![f].i_blocks = x, ![f].mmu_private = y]  OBVIOUS
<1>17. PICK m2 : m2 = [m1 EXCEPT !.i_blocks = x, !.mmu_private = y]  OBVIOUS
<1>18. DOMAIN ms = Files /\ ms[f] = m2 /\ \A g \in Files : g # f => ms[g] = msdos_i[g]
    BY <1>3, <1>13, <1>16, <1>17
<1>19. /\ m2 \in InodeType /\ m2.i_start = m.i_start /\ m2.i_size = size
       /\ m2.mmu_private = y /\ m2.i_blocks = x /\ m2.i_mutex = m.i_mutex
       /\ m2.cache_valid_id = m1.cache_valid_id /\ m2.nr_caches = m1.nr_caches
    BY <1>8, <1>13, <1>17 DEF InodeType
<1>20. Kept(m, m2, c, c2) \/ Flushed(m, m2, c, c2)  BY <1>13, <1>19 DEF Kept, Flushed
<1>21. m2.cache_valid_id # 0
  <2>1. m.cache_valid_id \in Nat \ {0}  BY <1>3 DEF FileOK, InodeType
  <2> QED BY <1>20, <2>1 DEF Kept, Flushed
<1>22. m2.i_start = IF s = <<>> THEN 0 ELSE s[1]  BY <1>3, <1>19 DEF FileOK
<1>23. /\ fs_error' = (fs_error \/ bad)
       /\ cache' = IF bad THEN [cache EXCEPT ![f] = <<>>] ELSE cache
       /\ IF f \in Dirs
          THEN Return(t, [ms EXCEPT ![f].i_size = @ + l.nr])
          ELSE fat_get_cluster(t, l, m.mmu_private, "mapped") /\ msdos_i' = ms
  <2>1. [kept EXCEPT ![f].i_blocks = @ + l.nr, ![f].mmu_private = @ + l.nr] = ms
    <3>1. kept[f].i_blocks + l.nr = x /\ kept[f].mmu_private + l.nr = y
        BY <1>8, <1>13, <1>14
    <3>2. [kept EXCEPT ![f].i_blocks = @ + l.nr, ![f].mmu_private = @ + l.nr]
            = [kept EXCEPT ![f].i_blocks = x, ![f].mmu_private = y]
        BY <1>3, <1>13, <3>1
    <3> QED BY <1>16, <3>2
  <2>2. bad = (l.fclus + 1 # msdos_i[f].i_blocks)  BY <1>1, <1>9
  <2> QED BY <1>1, <1>12, <2>1, <2>2, Zenon DEF ChainDone
<1>24. CacheSet(f, c2)  BY <1>1, <1>12, <1>23 DEF CacheSet
<1>25. fs_error' \in BOOLEAN /\ (Undamaged' => ~fs_error') /\ failed \subseteq failed'
    BY <1>5, <1>6, <1>10, <1>23, SysFacts
<1>26. CASE f \in Dirs
  <2>1. PICK ms3 : ms3 = [ms EXCEPT ![f].i_size = z]  OBVIOUS
  <2>2. PICK m3 : m3 = [m2 EXCEPT !.i_size = z]  OBVIOUS
  <2>3. DOMAIN ms3 = Files /\ ms3[f] = m3 /\ \A g \in Files : g # f => ms3[g] = msdos_i[g]
      BY <1>3, <1>18, <2>1, <2>2
  <2>4. /\ m3 \in InodeType /\ m3.i_start = m.i_start /\ m3.i_size = z
        /\ m3.mmu_private = y /\ m3.i_blocks = x
        /\ m3.cache_valid_id = m2.cache_valid_id /\ m3.nr_caches = m2.nr_caches
      BY <1>19, <2>2 DEF InodeType
  <2>5. FileOK(s, m3) /\ m.i_size <= m3.i_size  BY <1>3, <1>8, <1>15, <1>19, <1>21, <1>22, <2>4 DEF FileOK
  <2>6. Undamaged' => m3.i_blocks = Len(s)  BY <1>6, <1>15, <2>4
  <2>7. Kept(m, m3, cache[f], c2) \/ Flushed(m, m3, cache[f], c2)  BY <1>1, <1>20, <2>4 DEF Kept, Flushed
  <2>8. Return(t, ms3)
    <3>1. [ms EXCEPT ![f].i_size = @ + l.nr] = ms3
      <4>1. ms[f].i_size + l.nr = z  BY <1>8, <1>14, <1>18, <1>19
      <4>2. [ms EXCEPT ![f].i_size = @ + l.nr] = [ms EXCEPT ![f].i_size = z]  BY <1>3, <1>18, <4>1
      <4> QED BY <2>1, <4>2
    <3> QED BY <1>23, <1>26, <3>1
  <2>9. /\ pc[t] # "idle" /\ pc[t] \notin {"add_alloc", "unmap"} \cup MirrorPcs
        /\ l.op \in {"write", "truncate"} /\ ch[t] = <<>> /\ InvOf(ch) /\ l = loc[t] /\ f = l.f /\ m = msdos_i[f]
        /\ UNCHANGED <<fat_bits, fat, mirror, sbi_vars>>
        /\ DOMAIN ms3 = Files /\ (\A g \in Files : g # f => ms3[g] = msdos_i[g]) /\ m3 = ms3[f]
        /\ FileOK(ch[f], m3) /\ (Undamaged' => m3.i_blocks = Len(ch[f]))
      BY <1>1, <1>2, <1>4, <1>5, <2>3, <2>5, <2>6 DEF MirrorPcs
  <2>10. FileOK(ch[f], m3) /\ m.i_size <= m3.i_size /\ (Undamaged' => m3.i_blocks = Len(ch[f]))
      BY <1>1, <2>5, <2>6
  <2>11. /\ pc[t] # "idle" /\ pc[t] \notin {"add_alloc", "unmap"} \cup MirrorPcs
         /\ l.op \in {"write", "truncate"} /\ ch[t] = <<>>
         /\ l = loc[t] /\ f = l.f /\ m = msdos_i[f] /\ m3 = ms3[f]
      BY <1>1, <2>9
  <2>12. DOMAIN ms3 = Files /\ \A g \in Files : g # f => ms3[g] = msdos_i[g]  BY <2>3
  <2>13. UNCHANGED <<fat_bits, fat, mirror, sbi_vars>>  BY <1>5
  <2>14. failed \subseteq failed' /\ fs_error' \in BOOLEAN /\ (Undamaged' => ~fs_error')  BY <1>25
  <2> QED BY ONLY InvOf(ch), t \in Threads, <1>24, <2>7, <2>8, <2>10, <2>11, <2>12, <2>13, <2>14, ReturnStep
<1>27. CASE f \notin Dirs
  <2>1. PICK r \in RetPcs : r = "mapped"  BY DEF RetPcs
  <2>2. PICK l2 : l2 = [l EXCEPT !.tgt = mmu, !.ret = r, !.res = NoRes, !.fclus = 0, !.dclus = m.i_start]
      OBVIOUS
  <2>3. PICK p2 : p2 = IF mmu = 0 THEN r ELSE "lookup"  OBVIOUS
  <2>4. loc' = [loc EXCEPT ![t] = l2] /\ pc' = [pc EXCEPT ![t] = p2] /\ msdos_i' = ms
      BY <1>1, <1>8, <1>23, <1>27, <2>1, <2>2, <2>3 DEF fat_get_cluster, Goto
  <2>5. s # <<>> /\ m.i_start = s[1] /\ m.i_start \in Int
    <3>1. s # <<>>  BY <1>3, <1>15
    <3> QED BY <1>3, <3>1 DEF FileOK, InodeType
  <2>6. Entered(l, l2, mmu, r, m.i_start)  BY <1>3, <2>2, <2>5, EnterLoc
  <2>7. /\ l2 \in LocType /\ l2.op = l.op /\ l2.f = l.f /\ l2.nr = l.nr
        /\ l2.ret = r /\ PosOK(p2, l2, s) /\ Goal(p2, l2) = r
        /\ p2 \notin {"idle", "walk", "add", "add_alloc", "unmap", "truncate_blocks", "cut_mirror",
                         "down_write", "free", "free_mirror"} \cup LinkedPcs
    <3>1. r # "chain_put" /\ r # "cut"  BY <2>1
    <3>2. mmu < Len(s)  BY <1>15
    <3>3. s \in Seq(Clusters) /\ s # <<>> /\ l \in LocType  BY <1>3, <2>5
    <3>4. PICK st : st = m.i_start  OBVIOUS
    <3>5. st = s[1] /\ Entered(l, l2, mmu, r, st)  BY <2>5, <2>6, <3>4
    <3>6. (r = "chain_put" => mmu = FAT_ENT_EOF) /\ (r # "chain_put" => mmu < Len(s))
          /\ (r = "cut" => mmu = l.skip - 1)
        BY <3>1, <3>2
    <3>7. /\ l2 \in LocType /\ l2.op = l.op /\ l2.f = l.f /\ l2.nr = l.nr /\ l2.cl = l.cl
          /\ l2.skip = l.skip /\ l2.ret = r /\ l2.tgt = mmu /\ l2.bhs = l.bhs
          /\ PosOK(p2, l2, s) /\ Goal(p2, l2) = r /\ p2 \in RetPcs \cup {"lookup"}
          /\ p2 \notin {"idle", "walk", "add", "add_alloc", "unmap", "truncate_blocks", "cut_mirror",
                         "down_write", "free", "free_mirror"} \cup LinkedPcs
        BY ONLY mmu \in Nat, r \in RetPcs, <2>3, <3>3, <3>5, <3>6, Enter
    <3> QED BY <3>7
  <2>8. Changed(t, f, p2, l2, m2, c2)
    <3>1. pc'[t] = p2 /\ loc'[t] = l2 /\ DOMAIN pc' = Threads /\ DOMAIN loc' = Threads
          /\ \A u \in Threads : u # t => pc'[u] = pc[u] /\ loc'[u] = loc[u]
        BY <2>4, SysFacts
    <3>2. c2 \in Seq(EntryType)
      <4>1. <<>> \in Seq(EntryType)  OBVIOUS
      <4> QED BY <1>11, <1>12, <4>1
    <3>3. cache' \in [Files -> Seq(EntryType)] /\ cache'[f] = c2 /\ \A g \in Files : g # f => cache'[g] = cache[g]
        BY <1>3, <1>11, <1>24, <3>2 DEF CacheSet
    <3> QED BY <1>18, <2>4, <3>1, <3>3 DEF Changed
  <2>9. FileOK(ch[f], m2) /\ m.i_size <= m2.i_size
      BY <1>1, <1>3, <1>8, <1>15, <1>19, <1>21, <1>22 DEF FileOK
  <2>10. Undamaged' => m2.i_blocks = Len(ch[f])  BY <1>1, <1>6, <1>15, <1>19
  <2>11. ThreadOK(t, p2, l2, ch[t], ch[f], m2.i_size, m2.mmu_private, m2.i_blocks, m2.i_mutex,
                    Undamaged', FALSE)
    <3>1. OpOK(t, p2, l2, m2.i_mutex)  BY <1>3, <1>4, <1>19, <2>1, <2>7 DEF OpOK, WritePcs
    <3>2. HoldOK(p2, l2, ch[t])  BY <1>4, <2>1, <2>7 DEF HoldOK, HoldPcs
    <3>3. SizeOK(p2, l2, ch[f], m2.i_size, m2.mmu_private, m2.i_blocks, Undamaged')
        BY <2>1, <2>7 DEF SizeOK
    <3>4. ReaderOK(l2, m2.i_size, FALSE)  BY <1>4, <2>7 DEF ReaderOK
    <3> QED BY <1>1, <2>7, <3>1, <3>2, <3>3, <3>4 DEF ThreadOK
  <2>12. CidOK(p2, l2, ch[f], m2.cache_valid_id, Goal(p2, l2) = "cut", m2.i_size)  BY <2>7 DEF CidOK
  <2>13. Kept(m, m2, cache[f], c2) \/ Flushed(m, m2, cache[f], c2)  BY <1>1, <1>20
  <2>14. Goal(p2, l2) # "cut"  BY <2>1, <2>7
  <2>15. /\ pc[t] \notin {"add_alloc", "unmap"} \cup MirrorPcs /\ p2 \notin {"add_alloc", "unmap"}
         /\ (pc[t] # "idle" => loc[t].f = f) /\ (p2 # "idle" => l2.f = f)
         /\ UNCHANGED <<fat_bits, fat, mirror, sbi_vars>> /\ m.i_mutex \in {t, None}
         /\ InvOf(ch) /\ f \in Files /\ m = msdos_i[f]
      BY <1>1, <1>2, <1>3, <1>5, <2>7 DEF MirrorPcs
  <2> QED BY ONLY t \in Threads, <1>25, <2>8, <2>9, <2>10, <2>11, <2>12, <2>13, <2>14, <2>15, PlainStep
<1> QED BY <1>26, <1>27

(* A step of truncate_setsize: the size, or only the thread, changes.      *)
Resized(t, l, f, m, s, p2, m2) ==
    /\ l = loc[t] /\ f = l.f /\ m = msdos_i[f]
    /\ pc[t] \in {"down_write", "unmap"} /\ p2 \in {"unmap", "truncate_blocks"}
    /\ FileOK(s, m2) /\ Kept(m, m2, cache[f], cache[f])
    /\ m2.i_mutex = m.i_mutex /\ m2.i_blocks = m.i_blocks /\ l.skip = m2.i_size
    /\ pc' = [pc EXCEPT ![t] = p2] /\ loc' = loc /\ cache' = cache
    /\ DOMAIN msdos_i' = Files /\ msdos_i'[f] = m2
    /\ \A g \in Files : g # f => msdos_i'[g] = msdos_i[g]
    /\ UNCHANGED <<fat_bits, fat, mirror, sbi_vars, fs_error, failed>>
    /\ ReadersKept(s, s, t, f, m.i_size, m2.i_size, pc[t] = "unmap", p2 = "unmap")
LEMMA SetsizeMove ==
    ASSUME NEW ch, InvOf(ch), NEW t \in Threads, NEW l, NEW f, NEW m, NEW s, s = ch[f], NEW p2, NEW m2,
           Resized(t, l, f, m, s, p2, m2)
    PROVE  InvOf(ch)'
<1> USE DEF Resized
<1>1. Goal(pc[t], l) = pc[t] /\ Goal(p2, l) = p2 /\ pc[t] # "idle"  BY DEF Goal, GetPcs
<1>2. /\ l \in LocType /\ f \in Files /\ m \in InodeType /\ FileOK(s, m) /\ l.op \in {"write", "truncate"}
      /\ l.op = "write" => Goal(pc[t], l) \in WritePcs
      /\ Undamaged /\ pc[t] \notin LinkedPcs \cup {"cut_mirror"} => m.i_blocks = Len(s)
      /\ HoldOK(pc[t], l, ch[t]) /\ m.i_mutex = t
    BY <1>1, WriterFacts
<1>3. ch[t] = <<>> /\ l.op = "truncate"  BY <1>1, <1>2 DEF HoldOK, HoldPcs, WritePcs
<1>4. PICK c2 : c2 = cache[f]  OBVIOUS
<1>5. Changed(t, f, p2, l, m2, c2)  BY <1>2, <1>4, SysFacts DEF Changed
<1>6. StepBy(ch, ch, t, f)  BY <1>2, <1>5, Stepped
<1>7. Undamaged' <=> Undamaged  BY DEF Undamaged
<1>8. ChainInv(ch)'  BY <1>7 DEF InvOf, ChainInv
<1>9. CountInv'  BY DEF InvOf, CountInv, sbi_vars
<1>10. MirrorInv(ch)'
  <2>1. Pending(fat_bits, pc[t], loc[t], ch[t]) = {} /\ Pending(fat_bits, pc'[t], loc'[t], ch[t]) = {}
      BY <1>5 DEF Pending, MirrorPcs, Changed
  <2>2. \A o \in Offsets :
            \/ fat'[o] = mirror'[o]
            \/ o \div s_blocksize \in Pending(fat_bits, pc'[t], loc'[t], ch[t])
            \/ fat[o] # mirror[o] /\ o \div s_blocksize \notin Pending(fat_bits, pc[t], loc[t], ch[t])
      BY <2>1
  <2> QED BY <1>6, <2>2, MirrorStep DEF InvOf
<1>11. ThreadOK(t, p2, l, ch[t], ch[f], m2.i_size, m2.mmu_private, m2.i_blocks, m2.i_mutex,
                    Undamaged', p2 = "unmap")
  <2>1. OpOK(t, p2, l, m2.i_mutex)  BY <1>1, <1>2, <1>3 DEF OpOK, TruncatePcs, GetPcs
  <2>2. HoldOK(p2, l, ch[t])  BY <1>1, <1>3 DEF HoldOK, HoldPcs
  <2>3. SizeOK(p2, l, ch[f], m2.i_size, m2.mmu_private, m2.i_blocks, Undamaged')
      BY <1>1 DEF SizeOK, LinkedPcs
  <2>4. PosOK(p2, l, ch[f])  BY DEF PosOK, GetPcs, RetPcs
  <2>5. ReaderOK(l, m2.i_size, p2 = "unmap")  BY <1>3 DEF ReaderOK
  <2> QED BY <1>2, <2>1, <2>2, <2>3, <2>4, <2>5 DEF ThreadOK
<1>12. CidOK(p2, l, ch[f], m2.cache_valid_id, Goal(p2, l) = "cut", m2.i_size)  BY DEF CidOK
<1>13. Kept(m, m2, cache[f], c2) \/ Flushed(m, m2, cache[f], c2)  BY <1>4
<1>14. RunsKept(ch[f], ch[f], m.i_size, m2.i_size, Flushed(m, m2, cache[f], c2), pc[t] = "unmap",
                  Goal(pc[t], loc[t]) = "cut", Goal(p2, l) = "cut")
  <2>1. Goal(p2, l) # "cut"  BY <1>1
  <2> QED BY <2>1 DEF RunsKept, Within
<1>15. /\ fat' \in Tables(fat_bits) /\ mirror' \in Tables(fat_bits) /\ fat_lock' \in Threads \cup {None}
       /\ prev_free' \in Clusters /\ free_clusters' \in Int /\ free_clus_valid' \in BOOLEAN
       /\ fat_bits' = fat_bits /\ fs_error' \in BOOLEAN /\ (Undamaged' => ~fs_error') /\ failed \subseteq failed'
    BY <1>7, SysFacts DEF sbi_vars
<1>16. /\ InvOf(ch) /\ f \in Files /\ m = msdos_i[f] /\ m.i_mutex \in {t, None}
       /\ (pc[t] # "idle" => loc[t].f = f) /\ (p2 # "idle" => l.f = f)
       /\ pc[t] # "add_alloc" /\ p2 # "add_alloc" /\ FileOK(ch[f], m2)
    BY <1>2
<1>17. Undamaged' /\ p2 \notin LinkedPcs \cup {"cut_mirror"} => m2.i_blocks = Len(ch[f])
  <2>1. pc[t] \notin LinkedPcs \cup {"cut_mirror"}  BY DEF LinkedPcs
  <2> QED BY <1>2, <1>7, <2>1
<1>18. \A x \in Owners : x # t /\ x # f => ch[x] = ch[x]  OBVIOUS
<1>19. ReadersKept(ch[f], ch[f], t, f, m.i_size, m2.i_size, pc[t] = "unmap", p2 = "unmap")  OBVIOUS
<1> QED BY ONLY t \in Threads, <1>5, <1>8, <1>9, <1>10, <1>11, <1>12, <1>13, <1>14, <1>15, <1>16, <1>17, <1>18,
                <1>19, HeldStep

LEMMA SetsizeStep ==
    ASSUME NEW ch, InvOf(ch), NEW t \in Threads, truncate_setsize(t)
    PROVE  InvOf(ch)'
<1>1. PICK l, f, m, s : l = loc[t] /\ f = l.f /\ m = msdos_i[f] /\ s = ch[f]
    OBVIOUS
<1>2. pc[t] \in {"down_write", "unmap"}  BY DEF truncate_setsize
<1>3. /\ l \in LocType /\ f \in Files /\ m \in InodeType /\ FileOK(s, m)
      /\ SizeOK(pc[t], l, s, m.i_size, m.mmu_private, m.i_blocks, Undamaged)
      /\ DOMAIN msdos_i = Files /\ cache[f] \in Seq(EntryType) /\ DOMAIN loc = Threads
  <2>1. pc[t] # "idle"  BY <1>2
  <2> QED BY <1>1, <2>1, ThreadFacts, SysFacts
<1>4. /\ UNCHANGED <<fat_bits, fat, mirror, sbi_vars, fs_error, failed>> /\ loc' = loc /\ cache' = cache
    BY DEF truncate_setsize, Works, env_vars
<1>5. CASE pc[t] = "down_write"
  <2>1. /\ ~InBmap(f) /\ msdos_i' = [msdos_i EXCEPT ![f].i_size = l.skip] /\ pc' = [pc EXCEPT ![t] = "unmap"]
      BY <1>1, <1>5 DEF truncate_setsize, Goto
  <2>2. PICK n \in Nat : n = l.skip /\ n <= m.i_size
      BY <1>3, <1>5 DEF LocType, SizeOK
  <2>3. PICK m2 : m2 = [m EXCEPT !.i_size = n]  OBVIOUS
  <2>4. /\ m2 \in InodeType /\ m2.i_start = m.i_start /\ m2.i_size = n
        /\ m2.mmu_private = m.mmu_private /\ m2.i_blocks = m.i_blocks /\ m2.i_mutex = m.i_mutex
        /\ m2.cache_valid_id = m.cache_valid_id /\ m2.nr_caches = m.nr_caches
      BY <1>3, <2>3 DEF InodeType
  <2>5. DOMAIN msdos_i' = Files /\ msdos_i'[f] = m2 /\ \A g \in Files : g # f => msdos_i'[g] = msdos_i[g]
      BY <1>1, <1>3, <2>1, <2>2, <2>3
  <2>6. FileOK(s, m2)
    <3>1. m.i_size \in Nat /\ m.mmu_private \in Nat /\ m.i_size <= m.mmu_private  BY <1>3 DEF InodeType, FileOK
    <3>2. m2.i_size <= m2.mmu_private  BY <2>2, <2>4, <3>1
    <3> QED BY <1>3, <2>4, <3>2 DEF FileOK
  <2>7. Kept(m, m2, cache[f], cache[f])  BY <1>3, <2>4 DEF Kept
  <2>8. PICK p2 \in {"unmap", "truncate_blocks"} : p2 = "unmap"  OBVIOUS
  <2>9. ReadersKept(s, s, t, f, m.i_size, m2.i_size, pc[t] = "unmap", p2 = "unmap")
    <3>1. (pc[t] = "unmap") = FALSE /\ (p2 = "unmap") = TRUE  BY <1>5, <2>8
    <3>2. ASSUME NEW u \in Threads, loc[u].f = f, loc[u].op \in {"read", "bmap"}
          PROVE  ReaderOK(loc[u], m2.i_size, TRUE)
        BY <2>1, <3>2 DEF ReaderOK, InBmap
    <3>3. ReadersKept(s, s, t, f, m.i_size, m2.i_size, FALSE, TRUE)  BY <3>2 DEF ReadersKept
    <3> QED BY <3>1, <3>3
  <2>10. pc' = [pc EXCEPT ![t] = p2] /\ l.skip = m2.i_size /\ m2.i_mutex = m.i_mutex /\ m2.i_blocks = m.i_blocks
      BY <2>1, <2>2, <2>4, <2>8
  <2>11. Resized(t, l, f, m, s, p2, m2)
      BY ONLY <1>1, <1>2, <1>4, <2>5, <2>6, <2>7, <2>9, <2>10, p2 \in {"unmap", "truncate_blocks"}, Zenon
         DEF Resized
  <2> QED BY ONLY InvOf(ch), t \in Threads, <1>1, <2>11, SetsizeMove
<1>6. CASE pc[t] = "unmap"
  <2>1. /\ ~InPage(f, l.skip) /\ msdos_i' = msdos_i /\ pc' = [pc EXCEPT ![t] = "truncate_blocks"]
      BY <1>1, <1>6 DEF truncate_setsize, Goto
  <2>2. l.skip = m.i_size  BY <1>3, <1>6 DEF SizeOK
  <2>3. Kept(m, m, cache[f], cache[f])  BY <1>3 DEF Kept
  <2>4. PICK p2 \in {"unmap", "truncate_blocks"} : p2 = "truncate_blocks"  OBVIOUS
  <2>5. ReadersKept(s, s, t, f, m.i_size, m.i_size, pc[t] = "unmap", p2 = "unmap")
    <3>1. (pc[t] = "unmap") = TRUE /\ (p2 = "unmap") = FALSE  BY <1>6, <2>4
    <3>2. ASSUME NEW u \in Threads, loc[u] \in LocType, loc[u].f = f, ReaderOK(loc[u], m.i_size, TRUE)
          PROVE  ReaderOK(loc[u], m.i_size, FALSE)
      <4>1. PICK a \in Nat, b \in Nat : a = loc[u].tgt /\ b = m.i_size  BY <1>3, <3>2 DEF LocType, InodeType
      <4>2. loc[u].op = "read" => ~(a >= b)  BY <2>1, <2>2, <3>2, <4>1 DEF InPage
      <4>3. loc[u].op = "read" => a < b  BY <4>2
      <4> QED BY <3>2, <4>1, <4>3 DEF ReaderOK
    <3>3. ReadersKept(s, s, t, f, m.i_size, m.i_size, TRUE, FALSE)  BY <3>2 DEF ReadersKept
    <3> QED BY <3>1, <3>3
  <2>6. pc' = [pc EXCEPT ![t] = p2]  BY <2>1, <2>4
  <2>7. DOMAIN msdos_i' = Files /\ msdos_i'[f] = m /\ \A g \in Files : g # f => msdos_i'[g] = msdos_i[g]
      BY <1>1, <1>3, <2>1
  <2>8. pc[t] \in {"down_write", "unmap"} /\ m.i_mutex = m.i_mutex /\ m.i_blocks = m.i_blocks  BY <1>2
  <2>9. Resized(t, l, f, m, s, p2, m)
      BY ONLY <1>1, <1>3, <1>4, <2>2, <2>3, <2>5, <2>6, <2>7, <2>8, p2 \in {"unmap", "truncate_blocks"}, Zenon
         DEF Resized
  <2> QED BY ONLY InvOf(ch), t \in Threads, <1>1, <2>9, SetsizeMove
<1> QED BY <1>2, <1>5, <1>6

-----------------------------------------------------------------------------
(* fat_truncate_blocks.                                                    *)
Shortened(ms, f, skip) == [ms EXCEPT ![f].mmu_private = IF @ > skip THEN skip ELSE @]
Shorter(ms, f, s, m) ==
    /\ DOMAIN ms = Files /\ \A g \in Files : g # f => ms[g] = msdos_i[g]
    /\ FileOK(s, ms[f]) /\ ms[f].i_start = m.i_start /\ ms[f].i_size = m.i_size
    /\ ms[f].mmu_private = m.i_size /\ ms[f].i_blocks = m.i_blocks /\ ms[f].i_mutex = m.i_mutex
LEMMA ShortenedFacts ==
    ASSUME NEW ch, InvOf(ch), NEW t \in Threads, pc[t] = "truncate_blocks", NEW l, l = loc[t],
           NEW f, f = l.f, NEW m, m = msdos_i[f], NEW s, s = ch[f],
           NEW cut, cut = Shortened(msdos_i, f, l.skip), NEW ms, ms = fat_cache_inval_inode(f, cut)
    PROVE  /\ Shorter(cut, f, s, m) /\ Kept(m, cut[f], cache[f], cache[f])
           /\ Shorter(ms, f, s, m) /\ Flushed(m, ms[f], cache[f], <<>>)
           /\ l.skip = m.i_size /\ ch[t] = <<>>
           /\ l \in LocType /\ f \in Files /\ m \in InodeType /\ FileOK(s, m) /\ m.i_mutex = t
           /\ l.op \in {"write", "truncate"} /\ s \in Seq(Clusters) /\ t # f
           /\ Undamaged => m.i_blocks = Len(s)
<1>1. Goal(pc[t], l) = "truncate_blocks" /\ pc[t] # "idle"  BY DEF Goal, GetPcs
<1>2. /\ l \in LocType /\ f \in Files /\ m \in InodeType /\ FileOK(s, m) /\ l.op \in {"write", "truncate"}
      /\ HoldOK(pc[t], l, ch[t]) /\ m.i_mutex = t /\ s \in Seq(Clusters) /\ t # f
      /\ SizeOK(pc[t], l, s, m.i_size, m.mmu_private, m.i_blocks, Undamaged)
      /\ Undamaged /\ pc[t] \notin LinkedPcs \cup {"cut_mirror"} => m.i_blocks = Len(s)
    BY <1>1, WriterFacts
<1>3. ch[t] = <<>>  BY <1>1, <1>2 DEF HoldOK, HoldPcs
<1>4. l.skip = m.i_size  BY <1>2 DEF SizeOK
<1>5. pc[t] \notin LinkedPcs \cup {"cut_mirror"}  BY DEF LinkedPcs
<1>6. DOMAIN msdos_i = Files /\ cache[f] \in Seq(EntryType)  BY <1>2, SysFacts
<1>7. PICK size \in Nat, mmu \in Nat : size = m.i_size /\ mmu = m.mmu_private /\ size <= mmu /\ mmu <= Len(s)
    BY <1>2 DEF InodeType, FileOK
<1>8. PICK v : v = (IF m.mmu_private > l.skip THEN l.skip ELSE m.mmu_private)  OBVIOUS
<1>9. v = size
  <2>1. v = (IF mmu > size THEN size ELSE mmu)  BY <1>4, <1>7, <1>8
  <2> QED BY <1>7, <2>1
<1>10. cut = [msdos_i EXCEPT ![f].mmu_private = v]  BY <1>8, Zenon DEF Shortened
<1>11. PICK mc : mc = [m EXCEPT !.mmu_private = size]  OBVIOUS
<1>12. DOMAIN cut = Files /\ cut[f] = mc /\ \A g \in Files : g # f => cut[g] = msdos_i[g]
    BY <1>2, <1>6, <1>9, <1>10, <1>11
<1>13. /\ mc \in InodeType /\ mc.i_start = m.i_start /\ mc.i_size = size /\ mc.mmu_private = size
       /\ mc.i_blocks = m.i_blocks /\ mc.i_mutex = m.i_mutex /\ mc.cache_valid_id = m.cache_valid_id
       /\ mc.nr_caches = m.nr_caches
    BY <1>2, <1>7, <1>11 DEF InodeType
<1>14. size <= size /\ size <= Len(s)
  <2>1. Len(s) \in Nat  BY <1>2
  <2> QED BY <1>7, <2>1
<1>15. FileOK(s, mc)  BY <1>2, <1>13, <1>14 DEF FileOK
<1>16. Shorter(cut, f, s, m)  BY <1>7, <1>12, <1>13, <1>15 DEF Shorter
<1>17. Kept(m, cut[f], cache[f], cache[f])  BY <1>12, <1>13 DEF Kept
<1>18. PICK m2 : m2 = ms[f]  OBVIOUS
<1>19. /\ DOMAIN ms = Files /\ \A g \in Files : g # f => ms[g] = cut[g]
       /\ m2 \in InodeType /\ m2.i_start = mc.i_start /\ m2.i_size = mc.i_size
       /\ m2.mmu_private = mc.mmu_private /\ m2.i_blocks = mc.i_blocks
       /\ m2.i_mutex = mc.i_mutex /\ Flushed(mc, m2, cache[f], <<>>)
    BY <1>2, <1>6, <1>12, <1>13, <1>18, InvalFacts, SMTT(30)
<1>20. Flushed(m, m2, cache[f], <<>>)  BY <1>13, <1>19 DEF Flushed
<1>21. m2.cache_valid_id # 0
  <2>1. m.cache_valid_id \in Nat  BY <1>2 DEF InodeType
  <2> QED BY <1>20, <2>1 DEF Flushed
<1>22. FileOK(s, m2)  BY <1>13, <1>15, <1>19, <1>21 DEF FileOK
<1>23. Shorter(ms, f, s, m)
  <2>1. \A g \in Files : g # f => ms[g] = msdos_i[g]  BY <1>12, <1>19
  <2>2. /\ FileOK(s, ms[f]) /\ ms[f].i_start = m.i_start /\ ms[f].i_size = m.i_size
        /\ ms[f].mmu_private = m.i_size /\ ms[f].i_blocks = m.i_blocks /\ ms[f].i_mutex = m.i_mutex
      BY <1>7, <1>13, <1>18, <1>19, <1>22
  <2> QED BY <1>19, <2>1, <2>2, Zenon DEF Shorter
<1> QED BY <1>2, <1>3, <1>4, <1>5, <1>16, <1>17, <1>18, <1>20, <1>23

(* It returns, since the file has no clusters or the inode cannot be       *)
(* written.                                                                *)
LEMMA TruncateReturns ==
    ASSUME NEW ch, InvOf(ch), NEW t \in Threads, pc[t] = "truncate_blocks", NEW f, f = loc[t].f,
           NEW cut, cut = Shortened(msdos_i, f, loc[t].skip), NEW ms, NEW c2,
           \/ ms = cut /\ c2 = cache[f]
           \/ ms = fat_cache_inval_inode(f, cut) /\ c2 = <<>>,
           Return(t, ms), CacheSet(f, c2),
           UNCHANGED <<fat_bits, fat, mirror, sbi_vars>>, failed \subseteq failed', fs_error' = fs_error
    PROVE  InvOf(ch)'
<1>1. PICK l, m, s, m2 : l = loc[t] /\ f = l.f /\ m = msdos_i[f] /\ s = ch[f] /\ m2 = ms[f]
    OBVIOUS
<1>2. PICK ms2 : ms2 = fat_cache_inval_inode(f, cut)  OBVIOUS
<1>3. cut = Shortened(msdos_i, f, l.skip)  BY <1>1
<1>4. /\ Shorter(cut, f, s, m) /\ Kept(m, cut[f], cache[f], cache[f])
      /\ Shorter(ms2, f, s, m) /\ Flushed(m, ms2[f], cache[f], <<>>)
      /\ ch[t] = <<>> /\ l.op \in {"write", "truncate"} /\ m \in InodeType
      /\ Undamaged => m.i_blocks = Len(s)
    BY <1>1, <1>2, <1>3, ShortenedFacts
<1>5. Shorter(ms, f, s, m) /\ (Kept(m, m2, cache[f], c2) \/ Flushed(m, m2, cache[f], c2))
    BY <1>1, <1>2, <1>4
<1>6. DOMAIN ms = Files /\ \A g \in Files : g # f => ms[g] = msdos_i[g]  BY <1>5 DEF Shorter
<1>7. FileOK(ch[f], m2) /\ m.i_size <= m2.i_size
  <2>1. m.i_size \in Nat  BY <1>4 DEF InodeType
  <2> QED BY <1>1, <1>5, <2>1 DEF Shorter
<1>8. Undamaged' => m2.i_blocks = Len(ch[f])  BY <1>1, <1>4, <1>5, Damage DEF Shorter
<1>9. fs_error' \in BOOLEAN /\ (Undamaged' => ~fs_error')  BY SysFacts, Damage
<1>10. pc[t] # "idle" /\ pc[t] \notin {"add_alloc", "unmap"} \cup MirrorPcs  BY DEF MirrorPcs
<1>11. Kept(m, m2, cache[f], c2) \/ Flushed(m, m2, cache[f], c2)  BY <1>5
<1> QED BY <1>1, <1>4, <1>6, <1>7, <1>8, <1>9, <1>10, <1>11, ReturnStep

(* The whole chain is taken from the file, to be freed.                    *)
LEMMA TruncateTakes ==
    ASSUME NEW ch, InvOf(ch), NEW t \in Threads, pc[t] = "truncate_blocks", NEW f, f = loc[t].f,
           loc[t].skip = 0, msdos_i[f].i_start # 0,
           NEW cut, cut = Shortened(msdos_i, f, loc[t].skip),
           NEW ms, ms = fat_cache_inval_inode(f, cut),
           msdos_i' = [ms EXCEPT ![f].i_start = 0, ![f].i_blocks = 0],
           loc' = [loc EXCEPT ![t].cl = msdos_i[f].i_start, ![t].ret = "done", ![t].bhs = {}],
           Goto(t, "free"), cache' = [cache EXCEPT ![f] = <<>>],
           UNCHANGED <<fat_bits, fat, mirror, sbi_vars, fs_error, failed>>
    PROVE  \E ch2 : InvOf(ch2)'
<1>1. PICK l, m, s, m1, p2 : l = loc[t] /\ f = l.f /\ m = msdos_i[f] /\ s = ch[f] /\ m1 = ms[f] /\ p2 = "free"
    OBVIOUS
<1>2. cut = Shortened(msdos_i, f, l.skip)  BY <1>1
<1>3. /\ Shorter(ms, f, s, m) /\ Flushed(m, m1, cache[f], <<>>) /\ l.skip = m.i_size /\ ch[t] = <<>>
      /\ l \in LocType /\ f \in Files /\ m \in InodeType /\ FileOK(s, m) /\ m.i_mutex = t
      /\ l.op \in {"write", "truncate"} /\ s \in Seq(Clusters) /\ t # f
      /\ Undamaged => m.i_blocks = Len(s)
    BY <1>1, <1>2, ShortenedFacts, SMTT(30)
<1>4. m.i_size = 0 /\ l.skip = 0  BY <1>1, <1>3
<1>5. s # <<>> /\ m.i_start = s[1] /\ s[1] \in Clusters
  <2>1. m.i_start = IF s = <<>> THEN 0 ELSE s[1]  BY <1>3 DEF FileOK
  <2>2. s # <<>>  BY <1>1, <2>1
  <2> QED BY <1>3, <2>1, <2>2
<1>0. PICK a \in Int : a = 0  OBVIOUS
<1>6. PICK m2 : m2 = [m1 EXCEPT !.i_start = a, !.i_blocks = a]  OBVIOUS
<1>7. /\ m2 \in InodeType /\ m2.i_start = 0 /\ m2.i_blocks = 0 /\ m2.i_size = 0 /\ m2.mmu_private = 0
      /\ m2.i_mutex = t /\ m2.cache_valid_id = m1.cache_valid_id /\ m2.nr_caches = m1.nr_caches
      /\ m1.cache_valid_id # 0
  <2>1. m1 \in InodeType /\ m1.cache_valid_id # 0  BY <1>1, <1>3 DEF Shorter, FileOK
  <2>2. m1.i_size = 0 /\ m1.mmu_private = 0 /\ m1.i_mutex = t  BY <1>1, <1>3, <1>4 DEF Shorter
  <2> QED BY <1>0, <1>6, <2>1, <2>2 DEF InodeType
<1>8. PICK c2 : c2 = <<>>  OBVIOUS
<1>9. Kept(m, m2, cache[f], c2) \/ Flushed(m, m2, cache[f], c2)  BY <1>3, <1>7, <1>8 DEF Flushed
<1>10. PICK cl \in Int, bhs \in SUBSET Int, ret \in Rets : cl = s[1] /\ bhs = {} /\ ret = "done"
  <2>1. s[1] \in Int  BY <1>5, SysFacts, BlockAssumption DEF Clusters
  <2>2. {} \in SUBSET Int /\ "done" \in Rets  BY DEF Rets
  <2> QED BY <2>1, <2>2
<1>11. PICK l2 : l2 = [l EXCEPT !.cl = cl, !.ret = ret, !.bhs = bhs]  OBVIOUS
<1>12. /\ l2 \in LocType /\ l2.f = f /\ l2.op = l.op /\ l2.ret = ret /\ l2.cl = cl /\ l2.bhs = bhs
       /\ l2.skip = l.skip
    BY <1>1, <1>3, <1>11, ZenonT(60) DEF LocType
<1>13. Changed(t, f, p2, l2, m2, c2)
  <2>1. loc' = [loc EXCEPT ![t].cl = cl, ![t].ret = ret, ![t].bhs = bhs] /\ pc' = [pc EXCEPT ![t] = p2]
      BY <1>1, <1>5, <1>10 DEF Goto
  <2>2. pc'[t] = p2 /\ loc'[t] = l2 /\ DOMAIN pc' = Threads /\ DOMAIN loc' = Threads
        /\ \A u \in Threads : u # t => pc'[u] = pc[u] /\ loc'[u] = loc[u]
      BY <1>1, <1>11, <2>1, SysFacts
  <2>3. DOMAIN msdos_i' = Files /\ msdos_i'[f] = m2 /\ \A g \in Files : g # f => msdos_i'[g] = msdos_i[g]
    <3>1. DOMAIN ms = Files /\ \A g \in Files : g # f => ms[g] = msdos_i[g]  BY <1>3 DEF Shorter
    <3>2. msdos_i' = [ms EXCEPT ![f].i_start = a, ![f].i_blocks = a]  BY <1>0
    <3>3. PICK r : r = msdos_i'  OBVIOUS
    <3>4. DOMAIN r = Files /\ r[f] = m2 /\ \A g \in Files : g # f => r[g] = ms[g]
        BY ONLY <1>1, <1>3, <1>6, <3>1, <3>2, <3>3
    <3> QED BY <3>1, <3>3, <3>4
  <2>4. cache' \in [Files -> Seq(EntryType)] /\ cache'[f] = c2 /\ \A g \in Files : g # f => cache'[g] = cache[g]
    <3>1. <<>> \in Seq(EntryType)  OBVIOUS
    <3> QED BY <1>3, <1>8, <3>1, SysFacts
  <2> QED BY <2>2, <2>3, <2>4 DEF Changed
<1>14. PICK ch2 : ch2 = [ch EXCEPT ![t] = ch[f], ![f] = <<>>]  OBVIOUS
<1>15. t \in Owners /\ f \in Owners  BY <1>3 DEF Owners
<1>16. PICK E : E = Entries(fat_bits, fat)  OBVIOUS
<1>17. ChainOK(Owners, E, ch2) /\ (NoneLost(Owners, E, ch) => NoneLost(Owners, E, ch2))
  <2>1. ChainOK(Owners, E, ch)  BY <1>16 DEF InvOf, ChainInv
  <2> QED BY <1>3, <1>14, <1>15, <2>1, ChainMove
<1>18. Undamaged' <=> Undamaged  BY DEF Undamaged
<1>19. ChainInv(ch2)'
  <2>1. Entries(fat_bits, fat)' = E  BY <1>16
  <2>2. Undamaged => NoneLost(Owners, E, ch)  BY <1>16 DEF InvOf, ChainInv
  <2> QED BY <1>17, <1>18, <2>1, <2>2 DEF ChainInv
<1>20. ch2[t] = s /\ ch2[f] = <<>> /\ \A x \in Owners : x # t /\ x # f => ch2[x] = ch[x]
  <2>1. DOMAIN ch = Owners  BY DEF InvOf, ChainInv, ChainOK
  <2> QED BY <1>1, <1>3, <1>14, <1>15, <2>1
<1>21. CountInv'  BY DEF InvOf, CountInv, sbi_vars
<1>22. MirrorInv(ch2)'
  <2>1. StepBy(ch, ch2, t, f)
    <3>1. \A u \in Threads : u # t => ch2[u] = ch[u]  BY <1>3, <1>20, ThreadAssumption DEF Owners
    <3>2. \A g \in Files : g # f => ch2[g] = ch[g]  BY <1>20, ThreadAssumption DEF Owners
    <3> QED BY <1>1, <1>3, <1>12, <1>13, <3>1, <3>2, Stepped
  <2>2. Pending(fat_bits, pc[t], loc[t], ch[t]) = {}  BY DEF Pending, MirrorPcs
  <2>3. \A o \in Offsets :
            \/ fat'[o] = mirror'[o]
            \/ o \div s_blocksize \in Pending(fat_bits, pc'[t], loc'[t], ch2[t])
            \/ fat[o] # mirror[o] /\ o \div s_blocksize \notin Pending(fat_bits, pc[t], loc[t], ch[t])
      BY <2>2
  <2> QED BY <2>1, <2>3, MirrorStep DEF InvOf
<1>23. FileOK(ch2[f], m2) /\ m2.i_blocks = Len(ch2[f])
  <2>1. Len(<<>>) = 0  OBVIOUS
  <2>2. m2.i_start = (IF ch2[f] = <<>> THEN 0 ELSE ch2[f][1]) /\ m2.cache_valid_id # 0  BY <1>7, <1>20
  <2>3. m2.i_size <= m2.mmu_private /\ m2.mmu_private <= Len(ch2[f])  BY <1>7, <1>20, <2>1
  <2> QED BY <1>7, <1>20, <2>1, <2>2, <2>3 DEF FileOK
<1>24. Goal(p2, l2) = "free" /\ Goal(pc[t], loc[t]) = "truncate_blocks"  BY <1>1 DEF Goal, GetPcs
<1>25. (p2 = "unmap") = FALSE /\ (pc[t] = "unmap") = FALSE  BY <1>1
<1>26. ThreadOK(t, p2, l2, ch2[t], ch2[f], m2.i_size, m2.mmu_private, m2.i_blocks, m2.i_mutex,
                    Undamaged', p2 = "unmap")
  <2>1. OpOK(t, p2, l2, m2.i_mutex)
      BY <1>1, <1>3, <1>7, <1>10, <1>12, <1>24 DEF OpOK, WritePcs, TruncatePcs, GetPcs
  <2>2. HoldOK(p2, l2, ch2[t])  BY <1>5, <1>10, <1>12, <1>20, <1>24 DEF HoldOK, HoldPcs
  <2>3. SizeOK(p2, l2, ch2[f], m2.i_size, m2.mmu_private, m2.i_blocks, Undamaged')
      BY <1>1, <1>24 DEF SizeOK, LinkedPcs
  <2>4. PosOK(p2, l2, ch2[f])  BY <1>1 DEF PosOK, GetPcs, RetPcs
  <2>5. ReaderOK(l2, m2.i_size, p2 = "unmap")  BY <1>3, <1>12 DEF ReaderOK
  <2> QED BY <1>1, <1>12, <2>1, <2>2, <2>3, <2>4, <2>5 DEF ThreadOK
<1>27. CidOK(p2, l2, ch2[f], m2.cache_valid_id, Goal(p2, l2) = "cut", m2.i_size)
    BY <1>1 DEF CidOK
<1>28. ReadersKept(ch[f], ch2[f], t, f, m.i_size, m2.i_size, pc[t] = "unmap", p2 = "unmap")
  <2>1. ASSUME NEW u \in Threads, loc[u] \in LocType, loc[u].op \in {"read", "bmap"},
               ReaderOK(loc[u], m.i_size, FALSE)
        PROVE  FALSE
    <3>1. loc[u].tgt \in Nat /\ loc[u].tgt < 0  BY <1>4, <2>1 DEF LocType, ReaderOK
    <3> QED BY <3>1
  <2> QED BY <1>25, <2>1 DEF ReadersKept
<1>29. RunsKept(ch[f], ch2[f], m.i_size, m2.i_size, Flushed(m, m2, cache[f], c2), pc[t] = "unmap",
                  Goal(pc[t], loc[t]) = "cut", Goal(p2, l2) = "cut")
  <2>1. Flushed(m, m2, cache[f], c2)  BY <1>3, <1>7, <1>8 DEF Flushed
  <2>2. ASSUME NEW e, RunOK(ch[f], e), e.f + e.n < m.i_size
        PROVE  FALSE
    <3>1. PICK x \in Nat, y \in Nat : x = e.f /\ y = e.n /\ x > 0  BY <2>2 DEF RunOK
    <3>2. x + y < 0  BY <1>4, <2>2, <3>1
    <3> QED BY <3>1, <3>2
  <2> QED BY <1>25, <2>1, <2>2 DEF RunsKept
<1>30. /\ fat' \in Tables(fat_bits) /\ mirror' \in Tables(fat_bits) /\ fat_lock' \in Threads \cup {None}
       /\ prev_free' \in Clusters /\ free_clusters' \in Int /\ free_clus_valid' \in BOOLEAN
       /\ fat_bits' = fat_bits /\ fs_error' \in BOOLEAN /\ (Undamaged' => ~fs_error') /\ failed \subseteq failed'
    BY <1>18, SysFacts DEF sbi_vars
<1>31. /\ InvOf(ch) /\ f \in Files /\ m = msdos_i[f] /\ m.i_mutex \in {t, None}
       /\ (pc[t] # "idle" => loc[t].f = f) /\ (p2 # "idle" => l2.f = f)
       /\ pc[t] # "add_alloc" /\ p2 # "add_alloc" /\ FileOK(ch2[f], m2)
    BY <1>1, <1>3, <1>12, <1>23
<1>32. Undamaged' /\ p2 \notin LinkedPcs \cup {"cut_mirror"} => m2.i_blocks = Len(ch2[f])  BY <1>23
<1>33. \A x \in Owners : x # t /\ x # f => ch2[x] = ch[x]  BY <1>20
<1>34. InvOf(ch2)'
    BY ONLY t \in Threads, <1>9, <1>13, <1>19, <1>21, <1>22, <1>26, <1>27, <1>28, <1>29, <1>30, <1>31, <1>32,
            <1>33, HeldStep
<1> QED BY <1>34

(* The cluster that will be the last one is looked up.                     *)
LEMMA TruncateLooks ==
    ASSUME NEW ch, InvOf(ch), NEW t \in Threads, pc[t] = "truncate_blocks", NEW f, f = loc[t].f,
           loc[t].skip # 0,
           NEW cut, cut = Shortened(msdos_i, f, loc[t].skip),
           NEW ms, ms = fat_cache_inval_inode(f, cut), msdos_i' = ms,
           fat_get_cluster(t, loc[t], loc[t].skip - 1, "cut"), cache' = [cache EXCEPT ![f] = <<>>],
           UNCHANGED <<fat_bits, fat, mirror, sbi_vars, fs_error, failed>>
    PROVE  InvOf(ch)'
<1>1. PICK l, m, s, m2 : l = loc[t] /\ f = l.f /\ m = msdos_i[f] /\ s = ch[f] /\ m2 = ms[f]
    OBVIOUS
<1>2. cut = Shortened(msdos_i, f, l.skip)  BY <1>1
<1>3. /\ Shorter(ms, f, s, m) /\ Flushed(m, m2, cache[f], <<>>) /\ l.skip = m.i_size /\ ch[t] = <<>>
      /\ l \in LocType /\ f \in Files /\ m \in InodeType /\ FileOK(s, m) /\ m.i_mutex = t
      /\ l.op \in {"write", "truncate"} /\ s \in Seq(Clusters) /\ t # f
      /\ Undamaged => m.i_blocks = Len(s)
    BY <1>1, <1>2, ShortenedFacts
<1>4. PICK n \in Nat : n = l.skip - 1 /\ n < Len(s)
  <2>1. PICK size \in Nat, N \in Nat, mmu \in Nat :
            size = l.skip /\ size = m.i_size /\ N = Len(s) /\ mmu = m.mmu_private
      BY <1>3 DEF LocType, InodeType
  <2>2. size <= mmu /\ mmu <= N /\ size # 0  BY <1>1, <1>3, <2>1 DEF FileOK
  <2>3. size - 1 \in Nat /\ size - 1 < N  BY <2>1, <2>2
  <2> QED BY <2>1, <2>3
<1>5. s # <<>>  BY <1>3, <1>4
<1>6. PICK st \in Clusters : st = m.i_start /\ st = s[1]
  <2>1. s[1] \in Clusters /\ m.i_start = s[1]  BY <1>3, <1>5 DEF FileOK
  <2> QED BY <2>1
<1>7. PICK r \in RetPcs : r = "cut"  BY DEF RetPcs
<1>8. PICK l2 : l2 = [l EXCEPT !.tgt = n, !.ret = r, !.res = NoRes, !.fclus = 0, !.dclus = st]
    OBVIOUS
<1>9. PICK p2 : p2 = IF n = 0 THEN r ELSE "lookup"  OBVIOUS
<1>10. loc' = [loc EXCEPT ![t] = l2] /\ pc' = [pc EXCEPT ![t] = p2]
    BY <1>1, <1>4, <1>6, <1>7, <1>8, <1>9 DEF fat_get_cluster, Goto
<1>11. Entered(l, l2, n, r, st)
  <2>1. st \in Int  BY <1>6, SysFacts, BlockAssumption DEF Clusters
  <2> QED BY <1>3, <1>8, <2>1, EnterLoc
<1>12. /\ l2 \in LocType /\ l2.op = l.op /\ l2.f = l.f /\ l2.nr = l.nr /\ l2.cl = l.cl
       /\ l2.skip = l.skip /\ l2.ret = r /\ l2.tgt = n /\ l2.bhs = l.bhs
       /\ PosOK(p2, l2, s) /\ Goal(p2, l2) = r /\ p2 \in RetPcs \cup {"lookup"}
       /\ p2 \notin {"idle", "walk", "add", "add_alloc", "unmap", "truncate_blocks", "cut_mirror",
                         "down_write", "free", "free_mirror"} \cup LinkedPcs
  <2>1. (r = "chain_put" => n = FAT_ENT_EOF) /\ (r # "chain_put" => n < Len(s)) /\ (r = "cut" => n = l.skip - 1)
      BY <1>4, <1>7
  <2>2. s \in Seq(Clusters) /\ s # <<>> /\ l \in LocType /\ st = s[1]  BY <1>3, <1>5, <1>6
  <2> QED BY ONLY n \in Nat, r \in RetPcs, <1>9, <1>11, <2>1, <2>2, Enter
<1>13. PICK c2 : c2 = <<>>  OBVIOUS
<1>14. Changed(t, f, p2, l2, m2, c2)
  <2>1. pc'[t] = p2 /\ loc'[t] = l2 /\ DOMAIN pc' = Threads /\ DOMAIN loc' = Threads
        /\ \A u \in Threads : u # t => pc'[u] = pc[u] /\ loc'[u] = loc[u]
      BY <1>10, SysFacts
  <2>2. DOMAIN msdos_i' = Files /\ msdos_i'[f] = m2 /\ \A g \in Files : g # f => msdos_i'[g] = msdos_i[g]
      BY <1>1, <1>3 DEF Shorter
  <2>3. cache' \in [Files -> Seq(EntryType)] /\ cache'[f] = c2 /\ \A g \in Files : g # f => cache'[g] = cache[g]
    <3>1. <<>> \in Seq(EntryType)  OBVIOUS
    <3> QED BY <1>3, <1>13, <3>1, SysFacts
  <2> QED BY <2>1, <2>2, <2>3 DEF Changed
<1>15. /\ FileOK(ch[f], m2) /\ m2.i_size = m.i_size /\ m2.i_blocks = m.i_blocks /\ m2.i_mutex = t
       /\ m2.mmu_private = m.i_size /\ m.i_size <= m2.i_size
  <2>1. /\ FileOK(ch[f], m2) /\ m2.i_size = m.i_size /\ m2.i_blocks = m.i_blocks /\ m2.i_mutex = t
        /\ m2.mmu_private = m.i_size
      BY <1>1, <1>3 DEF Shorter
  <2>2. m.i_size <= m2.i_size
    <3>1. m.i_size \in Nat  BY <1>3 DEF InodeType
    <3> QED BY <2>1, <3>1
  <2> QED BY <2>1, <2>2
<1>16. Undamaged' <=> Undamaged  BY DEF Undamaged
<1>17. ThreadOK(t, p2, l2, ch[t], ch[f], m2.i_size, m2.mmu_private, m2.i_blocks, m2.i_mutex,
                    Undamaged', FALSE)
  <2>1. OpOK(t, p2, l2, m2.i_mutex)
      BY <1>3, <1>7, <1>12, <1>15 DEF OpOK, WritePcs, TruncatePcs
  <2>2. HoldOK(p2, l2, ch[t])  BY <1>3, <1>7, <1>12 DEF HoldOK, HoldPcs
  <2>3. SizeOK(p2, l2, ch[f], m2.i_size, m2.mmu_private, m2.i_blocks, Undamaged')
      BY <1>3, <1>12, <1>15 DEF SizeOK
  <2>4. ReaderOK(l2, m2.i_size, FALSE)  BY <1>3, <1>12 DEF ReaderOK
  <2> QED BY <1>1, <1>12, <2>1, <2>2, <2>3, <2>4 DEF ThreadOK
<1>18. CidOK(p2, l2, ch[f], m2.cache_valid_id, Goal(p2, l2) = "cut", m2.i_size)  BY <1>12 DEF CidOK
<1>19. Kept(m, m2, cache[f], c2) \/ Flushed(m, m2, cache[f], c2)  BY <1>3, <1>13
<1>20. Goal(p2, l2) = "cut" => Flushed(m, m2, cache[f], c2) /\ m2.i_size = m.i_size  BY <1>3, <1>13, <1>15
<1>21. /\ pc[t] \notin {"add_alloc", "unmap"} \cup MirrorPcs /\ p2 \notin {"add_alloc", "unmap"}
       /\ (pc[t] # "idle" => loc[t].f = f) /\ (p2 # "idle" => l2.f = f)
       /\ UNCHANGED <<fat_bits, fat, mirror, sbi_vars>> /\ m.i_mutex \in {t, None}
       /\ InvOf(ch) /\ f \in Files /\ m = msdos_i[f]
    BY <1>1, <1>3, <1>12 DEF MirrorPcs
<1>22. Undamaged' /\ p2 \notin LinkedPcs \cup {"cut_mirror"} => m2.i_blocks = Len(ch[f])
    BY <1>1, <1>3, <1>15, <1>16
<1>23. failed \subseteq failed' /\ fs_error' \in BOOLEAN /\ (Undamaged' => ~fs_error')
    BY <1>16, SysFacts
<1>24. FileOK(ch[f], m2) /\ m.i_size <= m2.i_size  BY <1>15
<1> QED BY ONLY t \in Threads, <1>14, <1>17, <1>18, <1>19, <1>20, <1>21, <1>22, <1>23, <1>24, PlainStep

LEMMA TruncateStep ==
    ASSUME NEW ch, InvOf(ch), NEW t \in Threads, fat_truncate_blocks(t)
    PROVE  \E ch2 : InvOf(ch2)'
<1>1. PICK f, cut, ms : f = loc[t].f /\ cut = Shortened(msdos_i, f, loc[t].skip)
                        /\ ms = fat_cache_inval_inode(f, cut)
    OBVIOUS
<1>2. pc[t] = "truncate_blocks" /\ UNCHANGED <<fat_bits, fat, mirror, sbi_vars, fs_error>>
    BY DEF fat_truncate_blocks, env_vars
<1>3. \/ Return(t, cut) /\ UNCHANGED cache /\ Works
      \/ /\ msdos_i[f].i_start # 0 /\ loc[t].skip = 0
         /\ msdos_i' = [ms EXCEPT ![f].i_start = 0, ![f].i_blocks = 0]
         /\ loc' = [loc EXCEPT ![t].cl = msdos_i[f].i_start, ![t].ret = "done", ![t].bhs = {}]
         /\ Goto(t, "free") /\ cache' = [cache EXCEPT ![f] = <<>>] /\ Works
      \/ Fails("sync_inode") /\ Return(t, ms) /\ cache' = [cache EXCEPT ![f] = <<>>]
      \/ /\ loc[t].skip # 0 /\ msdos_i' = ms /\ cache' = [cache EXCEPT ![f] = <<>>]
         /\ fat_get_cluster(t, loc[t], loc[t].skip - 1, "cut") /\ Works
    BY <1>1, Zenon DEF fat_truncate_blocks, Shortened
<1>4. CASE Return(t, cut) /\ UNCHANGED cache /\ Works
  <2>1. PICK c2 : c2 = cache[f]  OBVIOUS
  <2>2. CacheSet(f, c2) /\ failed \subseteq failed'  BY <1>4, <2>1 DEF CacheSet, Works
  <2>3. InvOf(ch)'  BY <1>1, <1>2, <1>4, <2>1, <2>2, TruncateReturns
  <2> QED BY <2>3
<1>5. CASE Fails("sync_inode") /\ Return(t, ms) /\ cache' = [cache EXCEPT ![f] = <<>>]
  <2>1. PICK c2 : c2 = <<>>  OBVIOUS
  <2>2. CacheSet(f, c2) /\ failed \subseteq failed'  BY <1>5, <2>1 DEF CacheSet, Fails
  <2>3. InvOf(ch)'  BY <1>1, <1>2, <1>5, <2>1, <2>2, TruncateReturns
  <2> QED BY <2>3
<1>6. CASE /\ msdos_i[f].i_start # 0 /\ loc[t].skip = 0
           /\ msdos_i' = [ms EXCEPT ![f].i_start = 0, ![f].i_blocks = 0]
           /\ loc' = [loc EXCEPT ![t].cl = msdos_i[f].i_start, ![t].ret = "done", ![t].bhs = {}]
           /\ Goto(t, "free") /\ cache' = [cache EXCEPT ![f] = <<>>] /\ Works
  <2>1. UNCHANGED <<fat_bits, fat, mirror, sbi_vars, fs_error, failed>>  BY <1>2, <1>6 DEF Works
  <2> QED BY <1>1, <1>2, <1>6, <2>1, TruncateTakes
<1>7. CASE /\ loc[t].skip # 0 /\ msdos_i' = ms /\ cache' = [cache EXCEPT ![f] = <<>>]
           /\ fat_get_cluster(t, loc[t], loc[t].skip - 1, "cut") /\ Works
  <2>1. UNCHANGED <<fat_bits, fat, mirror, sbi_vars, fs_error, failed>>  BY <1>2, <1>7 DEF Works
  <2>2. InvOf(ch)'  BY <1>1, <1>2, <1>7, <2>1, TruncateLooks
  <2> QED BY <2>2
<1> QED BY <1>3, <1>4, <1>5, <1>6, <1>7

-----------------------------------------------------------------------------
(* fat_free: the chain is cut behind the cluster found.                    *)
LEMMA CutPlace ==
    ASSUME NEW ch, InvOf(ch), NEW t \in Threads, pc[t] = "cut", NEW l, l = loc[t],
           NEW f, f = l.f, NEW m, m = msdos_i[f], NEW s, s = ch[f], l.res = NoRes
    PROVE  /\ l.skip \in 1 .. Len(s) /\ l.dclus = s[l.skip] /\ l.dclus \in Clusters
           /\ Entries(fat_bits, fat)[l.dclus] = Link(s, l.skip)
           /\ Entry(fat, l.dclus) = Link(s, l.skip)
           /\ m.i_size = l.skip /\ m.mmu_private = l.skip
<1>1. Goal(pc[t], l) = "cut" /\ pc[t] # "idle"  BY DEF Goal, GetPcs
<1>2. /\ l \in LocType /\ f \in Files /\ m \in InodeType /\ PosOK(pc[t], l, s)
      /\ SizeOK(pc[t], l, s, m.i_size, m.mmu_private, m.i_blocks, Undamaged)
    BY <1>1, ThreadFacts
<1>3. s \in Seq(Clusters) /\ Len(s) \in Nat
      /\ \A k \in 1 .. Len(s) : s[k] \in Clusters /\ Entries(fat_bits, fat)[s[k]] = Link(s, k)
                                /\ Entry(fat, s[k]) = Link(s, k)
    BY <1>2, ChainFacts DEF Owners
<1>4. m.i_size = l.skip /\ m.mmu_private = l.skip  BY <1>1, <1>2 DEF SizeOK
<1>5. /\ l.fclus \in 0 .. Len(s) - 1 /\ l.dclus = s[l.fclus + 1] /\ l.fclus = l.tgt /\ l.tgt = l.skip - 1
    BY <1>1, <1>2, ResDiffer DEF PosOK, RetPcs
<1>6. l.skip \in 1 .. Len(s) /\ l.fclus + 1 = l.skip
  <2>1. PICK k \in Nat, x \in Int, N \in Nat : k = l.skip /\ x = l.fclus /\ N = Len(s)  BY <1>2, <1>3 DEF LocType
  <2>2. x \in 0 .. N - 1 /\ x = k - 1  BY <1>5, <2>1
  <2>3. k \in 1 .. N /\ x + 1 = k  BY <2>1, <2>2
  <2> QED BY <2>1, <2>3
<1> QED BY <1>3, <1>4, <1>5, <1>6

(* A chain that is cut where the size ends, when its cache and its readers *)
(* stay below the size.                                                    *)
LEMMA CutKept ==
    ASSUME NEW s \in Seq(Clusters), NEW n \in 1 .. Len(s), NEW s2, s2 = SubSeq(s, 1, n),
           NEW t \in Threads, NEW f, NEW fl
    PROVE  /\ ReadersKept(s, s2, t, f, n, n, FALSE, FALSE)
           /\ RunsKept(s, s2, n, n, fl, FALSE, TRUE, FALSE)
<1>1. n \in Nat /\ Len(s2) = n /\ \A k \in 1 .. n : s2[k] = s[k]  BY CutFacts
<1>2. ASSUME NEW u \in Threads, loc[u] \in LocType, loc[u].op \in {"read", "bmap"}, ReaderOK(loc[u], n, FALSE)
      PROVE  loc[u].tgt < Len(s2) /\ \A i \in 0 .. loc[u].tgt : s2[i + 1] = s[i + 1]
  <2>1. PICK x \in Nat : x = loc[u].tgt /\ x < n  BY <1>2 DEF LocType, ReaderOK
  <2>2. \A i \in 0 .. x : i + 1 \in 1 .. n  BY <1>1, <2>1
  <2> QED BY <1>1, <2>1, <2>2
<1>3. ASSUME NEW e, RunOK(s, e), e.f + e.n < n
      PROVE  RunOK(s2, e)
  <2>1. PICK a \in Nat, b \in Nat : a = e.f /\ b = e.n /\ a + b < n /\ a > 0  BY <1>3 DEF RunOK
  <2>2. \A i \in 0 .. b : (a + i) + 1 \in 1 .. n  BY <1>1, <2>1
  <2> QED BY <1>1, <1>3, <2>1, <2>2 DEF RunOK
<1>4. ReadersKept(s, s2, t, f, n, n, FALSE, FALSE)  BY <1>2 DEF ReadersKept
<1>5. RunsKept(s, s2, n, n, fl, FALSE, TRUE, FALSE)  BY <1>3 DEF RunsKept, Within
<1> QED BY <1>4, <1>5

LEMMA CutWriteStep ==
    ASSUME NEW ch, InvOf(ch), NEW t \in Threads, pc[t] = "cut", loc[t].res = NoRes,
           NEW next, next = Entry(fat, loc[t].dclus), next \notin {FAT_ENT_EOF, FAT_ENT_FREE},
           fat' = Put(fat, loc[t].dclus, FAT_ENT_EOF),
           loc' = [loc EXCEPT ![t].cl = next, ![t].bhs = Bhs({loc[t].dclus})], Goto(t, "cut_mirror"),
           UNCHANGED <<fat_bits, mirror, sbi_vars, msdos_i, cache, fs_error, failed>>
    PROVE  \E ch2 : InvOf(ch2)'
<1>1. PICK l, f, m, s, n : l = loc[t] /\ f = l.f /\ m = msdos_i[f] /\ s = ch[f] /\ n = l.skip
    OBVIOUS
<1>2. Goal(pc[t], l) = "cut" /\ pc[t] # "idle"  BY DEF Goal, GetPcs
<1>3. /\ l \in LocType /\ f \in Files /\ m \in InodeType /\ FileOK(s, m) /\ l.op \in {"write", "truncate"}
      /\ HoldOK(pc[t], l, ch[t]) /\ s \in Seq(Clusters) /\ Len(s) \in Nat /\ t # f /\ m.i_mutex = t
      /\ t \in Owners /\ f \in Owners
    BY <1>1, <1>2, WriterFacts DEF Owners
<1>4. ch[t] = <<>>  BY <1>2, <1>3 DEF HoldOK, HoldPcs
<1>5. PICK E, F, c : E = Entries(fat_bits, fat) /\ F = Entries(fat_bits, fat') /\ c = s[n]
    OBVIOUS
<1>6. /\ n \in 1 .. Len(s) /\ l.dclus = c /\ c \in Clusters /\ E[c] = Link(s, n) /\ next = Link(s, n)
      /\ m.i_size = n /\ m.mmu_private = n
    BY <1>1, <1>5, CutPlace
<1>7. n # Len(s) /\ next = s[n + 1] /\ n + 1 \in 1 .. Len(s) /\ next \in Clusters
  <2>1. n # Len(s)  BY <1>3, <1>6 DEF Link
  <2>2. n + 1 \in 1 .. Len(s)  BY <1>3, <1>6, <2>1
  <2> QED BY <1>3, <1>6, <2>1, <2>2 DEF Link
<1>8. /\ fat' \in Tables(fat_bits) /\ F[c] = FAT_ENT_EOF /\ SameBut(E, F, c)
      /\ \A o \in Offsets : o \div s_blocksize \notin BhsOf(Pos(fat_bits, c)) => fat'[o] = fat[o]
  <2>1. FAT_ENT_EOF \in Values  BY DEF Values
  <2>2. fat' = Put(fat, c, FAT_ENT_EOF)  BY <1>1, <1>6
  <2> QED BY <1>5, <1>6, <2>1, <2>2, PutFacts
<1>9. PICK s2, own : s2 = SubSeq(s, 1, n) /\ own = SubSeq(s, n + 1, Len(s))  OBVIOUS
<1>10. /\ s2 \in Seq(Clusters) /\ Len(s2) = n /\ s2[1] = s[1] /\ s2 # <<>>
       /\ own \in Seq(Clusters) /\ own # <<>> /\ own[1] = next
  <2>1. /\ s2 \in Seq(Clusters) /\ Len(s2) = n /\ \A k \in 1 .. n : s2[k] = s[k]
        /\ own \in Seq(Clusters) /\ Len(own) = Len(s) - n
        /\ \A k \in 1 .. Len(s) - n : own[k] = s[n + k]
      BY <1>3, <1>6, <1>9, CutFacts
  <2>2. 1 \in 1 .. n /\ 1 \in 1 .. Len(s) - n /\ Len(s) - n # 0 /\ n # 0  BY <1>3, <1>6, <1>7
  <2> QED BY <1>7, <2>1, <2>2
<1>11. PICK ch2 : ch2 = [ch EXCEPT ![f] = s2, ![t] = own]  OBVIOUS
<1>12. ChainOK(Owners, F, ch2) /\ (NoneLost(Owners, E, ch) => NoneLost(Owners, F, ch2))
  <2>1. ChainOK(Owners, E, ch)  BY <1>5 DEF InvOf, ChainInv
  <2>2. F[ch[f][n]] = FAT_ENT_EOF /\ SameBut(E, F, ch[f][n]) /\ ch[t] = <<>>
        /\ n \in 1 .. Len(ch[f]) /\ n # Len(ch[f])
      BY <1>1, <1>4, <1>5, <1>6, <1>7, <1>8
  <2>3. ch2 = [ch EXCEPT ![f] = SubSeq(ch[f], 1, n), ![t] = SubSeq(ch[f], n + 1, Len(ch[f]))]
      BY <1>1, <1>9, <1>11
  <2>4. f \in Owners /\ t \in Owners /\ f # t  BY <1>3
  <2> QED BY ONLY <2>1, <2>2, <2>3, <2>4, ChainCut
<1>13. ch2[f] = s2 /\ ch2[t] = own /\ \A x \in Owners : x # t /\ x # f => ch2[x] = ch[x]
  <2>1. DOMAIN ch = Owners  BY DEF InvOf, ChainInv, ChainOK
  <2> QED BY <1>3, <1>11, <2>1
<1>14. Undamaged' <=> Undamaged  BY DEF Undamaged
<1>15. ChainInv(ch2)'
  <2>1. Entries(fat_bits, fat)' = F  BY <1>5
  <2>2. Undamaged => NoneLost(Owners, E, ch)  BY <1>5 DEF InvOf, ChainInv
  <2> QED BY <1>12, <1>14, <2>1, <2>2 DEF ChainInv
<1>16. CountInv'
  <2>1. E[c] # FAT_ENT_FREE /\ F[c] # FAT_ENT_FREE
      BY <1>6, <1>8, ClusterFacts
  <2>2. UNCHANGED <<fat_bits, free_clusters, free_clus_valid>>  BY DEF sbi_vars
  <2> QED BY <1>5, <1>6, <1>8, <2>1, <2>2, CountPut
<1>17. PICK cl \in Int, bhs \in {Bhs({l.dclus})} : bhs = Bhs({l.dclus}) /\ cl = next
  <2>1. next \in Int  BY <1>7, SysFacts, BlockAssumption DEF Clusters
  <2> QED BY <2>1
<1>18. bhs = BhsOf(Pos(fat_bits, c)) /\ bhs \in SUBSET Int
  <2>1. bhs = BhsOf(Pos(fat_bits, c))  BY <1>6, <1>17 DEF Bhs
  <2>2. BhsOf(Pos(fat_bits, c)) \subseteq Int  BY <1>6, BlocksInt, SysFacts
  <2> QED BY <2>1, <2>2
<1>19. PICK l2 : l2 = [l EXCEPT !.cl = cl, !.bhs = bhs]  OBVIOUS
<1>20. l2 \in LocType /\ l2.f = f /\ l2.op = l.op /\ l2.bhs = bhs /\ l2.cl = cl /\ l2.skip = n
    BY <1>1, <1>3, <1>17, <1>18, <1>19 DEF LocType
<1>21. PICK c2, p2 : c2 = cache[f] /\ p2 = "cut_mirror"  OBVIOUS
<1>22. Changed(t, f, p2, l2, m, c2)
  <2>1. loc' = [loc EXCEPT ![t].cl = cl, ![t].bhs = bhs] /\ pc' = [pc EXCEPT ![t] = p2]
      BY <1>1, <1>17, <1>21 DEF Goto
  <2> QED BY <1>1, <1>3, <1>19, <1>21, <2>1, SysFacts DEF Changed
<1>23. Goal(p2, l2) = "cut_mirror"  BY <1>21 DEF Goal, GetPcs
<1>24. MirrorInv(ch2)'
  <2>1. StepBy(ch, ch2, t, f)
    <3>1. \A u \in Threads : u # t => ch2[u] = ch[u]  BY <1>3, <1>13, ThreadAssumption DEF Owners
    <3>2. \A g \in Files : g # f => ch2[g] = ch[g]  BY <1>13, ThreadAssumption DEF Owners
    <3> QED BY <1>1, <1>3, <1>20, <1>22, <3>1, <3>2, Stepped
  <2>2. Pending(fat_bits, pc'[t], loc'[t], ch2[t]) = bhs
      BY <1>20, <1>21, <1>22 DEF Pending, MirrorPcs, Changed
  <2>3. Pending(fat_bits, pc[t], loc[t], ch[t]) = {}  BY DEF Pending, MirrorPcs
  <2>4. \A o \in Offsets :
            \/ fat'[o] = mirror'[o]
            \/ o \div s_blocksize \in Pending(fat_bits, pc'[t], loc'[t], ch2[t])
            \/ fat[o] # mirror[o] /\ o \div s_blocksize \notin Pending(fat_bits, pc[t], loc[t], ch[t])
      BY <1>8, <1>18, <2>2, <2>3
  <2> QED BY <2>1, <2>4, MirrorStep DEF InvOf
<1>25. FileOK(ch2[f], m)
  <2>1. m.i_start = s[1] /\ m.i_size <= m.mmu_private /\ m.cache_valid_id # 0
    <3>1. s # <<>>  BY <1>6
    <3> QED BY <1>3, <3>1 DEF FileOK
  <2>2. m.mmu_private <= Len(s2)  BY <1>3, <1>6, <1>10
  <2> QED BY <1>3, <1>10, <1>13, <2>1, <2>2 DEF FileOK
<1>26. (p2 = "unmap") = FALSE /\ (pc[t] = "unmap") = FALSE
       /\ (Goal(pc[t], loc[t]) = "cut") = TRUE /\ (Goal(p2, l2) = "cut") = FALSE
    BY <1>1, <1>2, <1>21, <1>23
<1>27. ThreadOK(t, p2, l2, ch2[t], ch2[f], m.i_size, m.mmu_private, m.i_blocks, m.i_mutex,
                    Undamaged', p2 = "unmap")
  <2>1. OpOK(t, p2, l2, m.i_mutex)
      BY <1>3, <1>20, <1>21, <1>23 DEF OpOK, WritePcs, TruncatePcs, GetPcs
  <2>2. HoldOK(p2, l2, ch2[t])  BY <1>10, <1>13, <1>17, <1>20, <1>23 DEF HoldOK, HoldPcs
  <2>3. SizeOK(p2, l2, ch2[f], m.i_size, m.mmu_private, m.i_blocks, Undamaged')
      BY <1>6, <1>10, <1>13, <1>20, <1>21, <1>23 DEF SizeOK, LinkedPcs
  <2>4. PosOK(p2, l2, ch2[f])  BY <1>21 DEF PosOK, GetPcs, RetPcs
  <2>5. ReaderOK(l2, m.i_size, p2 = "unmap")  BY <1>3, <1>20 DEF ReaderOK
  <2> QED BY <1>20, <1>21, <2>1, <2>2, <2>3, <2>4, <2>5 DEF ThreadOK
<1>28. CidOK(p2, l2, ch2[f], m.cache_valid_id, Goal(p2, l2) = "cut", m.i_size)
    BY <1>21 DEF CidOK
<1>29. Kept(m, m, cache[f], c2) \/ Flushed(m, m, cache[f], c2)  BY <1>21 DEF Kept
<1>30. /\ ReadersKept(ch[f], ch2[f], t, f, m.i_size, m.i_size, pc[t] = "unmap", p2 = "unmap")
       /\ RunsKept(ch[f], ch2[f], m.i_size, m.i_size, Flushed(m, m, cache[f], c2), pc[t] = "unmap",
                  Goal(pc[t], loc[t]) = "cut", Goal(p2, l2) = "cut")
  <2>1. PICK fl : fl = Flushed(m, m, cache[f], c2)  OBVIOUS
  <2>2. ReadersKept(s, s2, t, f, n, n, FALSE, FALSE) /\ RunsKept(s, s2, n, n, fl, FALSE, TRUE, FALSE)
      BY <1>3, <1>6, <1>9, CutKept
  <2> QED BY <1>1, <1>6, <1>13, <1>26, <2>1, <2>2
<1>31. /\ fat' \in Tables(fat_bits) /\ mirror' \in Tables(fat_bits) /\ fat_lock' \in Threads \cup {None}
       /\ prev_free' \in Clusters /\ free_clusters' \in Int /\ free_clus_valid' \in BOOLEAN
       /\ fat_bits' = fat_bits /\ fs_error' \in BOOLEAN /\ (Undamaged' => ~fs_error') /\ failed \subseteq failed'
    BY <1>8, <1>14, SysFacts DEF sbi_vars
<1>32. /\ InvOf(ch) /\ f \in Files /\ m = msdos_i[f] /\ m.i_mutex \in {t, None}
       /\ (pc[t] # "idle" => loc[t].f = f) /\ (p2 # "idle" => l2.f = f)
       /\ pc[t] # "add_alloc" /\ p2 # "add_alloc"
    BY <1>1, <1>3, <1>20, <1>21
<1>33. Undamaged' /\ p2 \notin LinkedPcs \cup {"cut_mirror"} => m.i_blocks = Len(ch2[f])
    BY <1>21
<1>34. \A x \in Owners : x # t /\ x # f => ch2[x] = ch[x]  BY <1>13
<1>35. InvOf(ch2)'
    BY ONLY t \in Threads, <1>15, <1>16, <1>22, <1>24, <1>25, <1>27, <1>28, <1>29, <1>30, <1>31, <1>32, <1>33,
            <1>34, HeldStep
<1> QED BY <1>35

LEMMA CutStep ==
    ASSUME NEW ch, InvOf(ch), NEW t \in Threads, Cut(t)
    PROVE  \E ch2 : InvOf(ch2)'
<1>1. PICK l, f, m, s, next :
        l = loc[t] /\ f = l.f /\ m = msdos_i[f] /\ s = ch[f] /\ next = Entry(fat, l.dclus)
    OBVIOUS
<1>2. pc[t] = "cut" /\ UNCHANGED <<fat_bits, mirror, sbi_vars, cache>>  BY DEF Cut, env_vars
<1>3. Goal(pc[t], l) = "cut" /\ pc[t] # "idle"  BY <1>2 DEF Goal, GetPcs
<1>4. HoldOK(pc[t], l, ch[t]) /\ PosOK(pc[t], l, s) /\ l \in LocType  BY <1>1, <1>3, ThreadFacts
<1>5. ch[t] = <<>>  BY <1>3, <1>4 DEF HoldOK, HoldPcs
<1>6. l.res = NoRes \/ ~l.res.ok
  <2>1. l.res # AtEof  BY <1>2, <1>3, <1>4 DEF PosOK, RetPcs
  <2>2. l.res \in {NoRes, Failed}  BY <1>4, <2>1 DEF LocType
  <2> QED BY <2>2 DEF Failed
<1>7. ~(l.res = NoRes /\ next = FAT_ENT_FREE)
  <2> SUFFICES ASSUME l.res = NoRes PROVE next # FAT_ENT_FREE  OBVIOUS
  <2>1. s \in Seq(Clusters) /\ l.skip \in 1 .. Len(s) /\ next = Link(s, l.skip)
    <3>1. f \in Owners  BY <1>1, <1>3, ThreadFacts DEF Owners
    <3> QED BY <1>1, <1>2, <3>1, CutPlace, ChainFacts
  <2> QED BY <2>1, LinkType
<1>8. \/ Return(t, msdos_i) /\ UNCHANGED fat /\ failed \subseteq failed'
         /\ (fs_error' = (fs_error \/ (l.res = NoRes /\ next = FAT_ENT_FREE)) \/ fs_error' = fs_error)
      \/ /\ l.res.ok /\ next \notin {FAT_ENT_EOF, FAT_ENT_FREE}
         /\ fat' = Put(fat, l.dclus, FAT_ENT_EOF)
         /\ loc' = [loc EXCEPT ![t].cl = next, ![t].bhs = Bhs({l.dclus})]
         /\ Goto(t, "cut_mirror") /\ UNCHANGED <<msdos_i, fs_error>> /\ failed' = failed
  <2>1. Works => failed \subseteq failed' /\ failed' = failed  BY DEF Works
  <2>2. Fails("walk_read") => failed \subseteq failed'  BY DEF Fails
  <2> QED BY <1>1, <2>1, <2>2 DEF Cut
<1>9. CASE Return(t, msdos_i) /\ UNCHANGED fat /\ failed \subseteq failed'
           /\ (fs_error' = (fs_error \/ (l.res = NoRes /\ next = FAT_ENT_FREE)) \/ fs_error' = fs_error)
  <2>1. fs_error' \in BOOLEAN /\ (Undamaged' => ~fs_error')
    <3>1. fs_error \in BOOLEAN /\ (Undamaged => ~fs_error)  BY SysFacts
    <3>2. fs_error' = fs_error  BY <1>7, <1>9, <3>1
    <3>3. Undamaged' => Undamaged  BY <1>9, Damage
    <3> QED BY <3>1, <3>2, <3>3
  <2>2. /\ pc[t] # "idle" /\ Goal(pc[t], loc[t]) # "bmap_cluster"
        /\ pc[t] \notin {"add_alloc", "unmap"} \cup MirrorPcs \cup LinkedPcs
      BY <1>1, <1>2, <1>3 DEF MirrorPcs, LinkedPcs
  <2>3. UNCHANGED <<fat_bits, fat, mirror, sbi_vars>> /\ cache' = cache  BY <1>2, <1>9
  <2>4. InvOf(ch)'  BY <1>5, <1>9, <2>1, <2>2, <2>3, ReturnSame
  <2> QED BY <2>4
<1>10. CASE /\ l.res.ok /\ next \notin {FAT_ENT_EOF, FAT_ENT_FREE}
            /\ fat' = Put(fat, l.dclus, FAT_ENT_EOF)
            /\ loc' = [loc EXCEPT ![t].cl = next, ![t].bhs = Bhs({l.dclus})]
            /\ Goto(t, "cut_mirror") /\ UNCHANGED <<msdos_i, fs_error>> /\ failed' = failed
  <2>1. loc[t].res = NoRes  BY <1>1, <1>6, <1>10
  <2>2. UNCHANGED <<fat_bits, mirror, sbi_vars, msdos_i, cache, fs_error, failed>>  BY <1>2, <1>10
  <2>3. /\ next = Entry(fat, loc[t].dclus) /\ fat' = Put(fat, loc[t].dclus, FAT_ENT_EOF)
        /\ loc' = [loc EXCEPT ![t].cl = next, ![t].bhs = Bhs({loc[t].dclus})]
      BY <1>1, <1>10
  <2> QED BY <1>2, <1>10, <2>1, <2>2, <2>3, CutWriteStep
<1> QED BY <1>8, <1>9, <1>10

LEMMA CutMirrorDone ==
    ASSUME NEW ch, InvOf(ch), NEW t \in Threads, pc[t] = "cut_mirror",
           fat_mirror_bhs(fat, loc[t].bhs), failed' = failed,
           msdos_i' = [msdos_i EXCEPT ![loc[t].f].i_blocks = loc[t].skip],
           loc' = [loc EXCEPT ![t].ret = "done", ![t].bhs = {}], Goto(t, "free"),
           UNCHANGED <<fat_bits, fat, sbi_vars, cache, fs_error>>
    PROVE  InvOf(ch)'
<1>1. PICK l, f, m, s, c, p2 :
        l = loc[t] /\ f = l.f /\ m = msdos_i[f] /\ s = ch[f] /\ c = cache[f] /\ p2 = "free"
    OBVIOUS
<1>2. Goal(pc[t], l) = "cut_mirror" /\ pc[t] # "idle"  BY DEF Goal, GetPcs
<1>3. /\ l \in LocType /\ f \in Files /\ m \in InodeType /\ FileOK(s, m) /\ l.op \in {"write", "truncate"}
      /\ HoldOK(pc[t], l, ch[t]) /\ m.i_mutex = t
      /\ SizeOK(pc[t], l, s, m.i_size, m.mmu_private, m.i_blocks, Undamaged)
    BY <1>1, <1>2, WriterFacts
<1>4. Len(s) = l.skip /\ ch[t] # <<>> /\ l.cl = ch[t][1]
    BY <1>2, <1>3 DEF SizeOK, HoldOK, HoldPcs
<1>5. PICK l2 : l2 = [l EXCEPT !.ret = "done", !.bhs = {}]  OBVIOUS
<1>6. l2 \in LocType /\ l2.f = f /\ l2.op = l.op /\ l2.cl = l.cl /\ l2.ret = "done" /\ l2.bhs = {}
  <2>1. {} \in SUBSET Int /\ "done" \in Rets  BY DEF Rets
  <2> QED BY <1>1, <1>3, <1>5, <2>1 DEF LocType
<1>7. PICK k \in Nat : k = l.skip  BY <1>3 DEF LocType
<1>8. PICK m2 : m2 = [m EXCEPT !.i_blocks = k]  OBVIOUS
<1>9. /\ m2 \in InodeType /\ m2.i_start = m.i_start /\ m2.i_size = m.i_size
      /\ m2.mmu_private = m.mmu_private /\ m2.i_blocks = k /\ m2.i_mutex = m.i_mutex
      /\ m2.cache_valid_id = m.cache_valid_id /\ m2.nr_caches = m.nr_caches
    BY <1>3, <1>8 DEF InodeType
<1>10. Changed(t, f, p2, l2, m2, c)
  <2>1. /\ loc' = [loc EXCEPT ![t].ret = "done", ![t].bhs = {}] /\ pc' = [pc EXCEPT ![t] = p2]
        /\ msdos_i' = [msdos_i EXCEPT ![f].i_blocks = k] /\ cache' = cache
      BY <1>1, <1>7 DEF Goto
  <2> QED BY <1>1, <1>3, <1>5, <1>8, <2>1, SysFacts DEF Changed
<1>11. Goal(p2, l2) = "free"  BY <1>1 DEF Goal, GetPcs
<1>12. FileOK(ch[f], m2)  BY <1>1, <1>3, <1>9 DEF FileOK
<1>13. ThreadOK(t, p2, l2, ch[t], ch[f], m2.i_size, m2.mmu_private, m2.i_blocks, m2.i_mutex,
                    Undamaged', p2 = "unmap")
  <2>1. OpOK(t, p2, l2, m2.i_mutex)
      BY <1>1, <1>3, <1>6, <1>9, <1>11 DEF OpOK, WritePcs, TruncatePcs, GetPcs
  <2>2. HoldOK(p2, l2, ch[t])  BY <1>4, <1>6, <1>11 DEF HoldOK, HoldPcs
  <2>3. SizeOK(p2, l2, ch[f], m2.i_size, m2.mmu_private, m2.i_blocks, Undamaged')
      BY <1>1, <1>11 DEF SizeOK, LinkedPcs
  <2>4. PosOK(p2, l2, ch[f])  BY <1>1 DEF PosOK, GetPcs, RetPcs
  <2>5. ReaderOK(l2, m2.i_size, p2 = "unmap")  BY <1>3, <1>6 DEF ReaderOK
  <2> QED BY <1>1, <1>6, <2>1, <2>2, <2>3, <2>4, <2>5 DEF ThreadOK
<1>14. CidOK(p2, l2, ch[f], m2.cache_valid_id, Goal(p2, l2) = "cut", m2.i_size)  BY <1>1 DEF CidOK
<1>15. Kept(m, m2, cache[f], c) \/ Flushed(m, m2, cache[f], c)  BY <1>1, <1>9 DEF Kept
<1>16. m.i_size <= m2.i_size  BY <1>3, <1>9 DEF InodeType
<1>17. PICK bhs : bhs = l.bhs  OBVIOUS
<1>18. Copied(bhs)  BY <1>1, <1>17, CopyFacts
<1>19. Pending(fat_bits, pc[t], loc[t], ch[t]) \subseteq bhs \cup Pending(fat_bits, p2, l2, ch[t])
    BY <1>1, <1>17 DEF Pending, MirrorPcs
<1>20. Undamaged' /\ p2 \notin LinkedPcs \cup {"cut_mirror"} => m2.i_blocks = Len(ch[f])
    BY <1>1, <1>4, <1>7, <1>9
<1>21. /\ fs_error' \in BOOLEAN /\ (Undamaged' => ~fs_error') /\ fat_lock' \in Threads \cup {None}
       /\ failed \subseteq failed'
       /\ UNCHANGED <<fat_bits, fat, free_clusters, free_clus_valid, prev_free>>
    BY SysFacts DEF Undamaged, sbi_vars
<1>22. /\ m = msdos_i[f] /\ m.i_mutex \in {t, None} /\ pc[t] # "add_alloc" /\ p2 # "add_alloc"
       /\ (pc[t] # "idle" => loc[t].f = f) /\ (p2 # "idle" => l2.f = f)
       /\ pc[t] # "unmap" /\ p2 # "unmap"
       /\ (Goal(p2, l2) = "cut" => Flushed(m, m2, cache[f], c) /\ m2.i_size = m.i_size)
    BY <1>1, <1>3, <1>6, <1>11
<1>23. failed' \cap {"free_read", "free_mirror", "cut_mirror"} = {} =>
             Pending(fat_bits, pc[t], loc[t], ch[t]) \subseteq bhs \cup Pending(fat_bits, p2, l2, ch[t])
    BY <1>19
<1> QED BY ONLY InvOf(ch), t \in Threads, <1>3, <1>10, <1>12, <1>13, <1>14, <1>15, <1>16, <1>18, <1>20, <1>21,
                <1>22, <1>23, QuietStep

(* The entries behind the cut are lost when the copy cannot be written.    *)
LEMMA CutMirrorLost ==
    ASSUME NEW ch, InvOf(ch), NEW t \in Threads, pc[t] = "cut_mirror",
           failed \subseteq failed', "cut_mirror" \in failed', Return(t, msdos_i),
           UNCHANGED <<fat_bits, fat, mirror, sbi_vars, cache, fs_error>>
    PROVE  \E ch2 : InvOf(ch2)'
<1>1. PICK l, f, m, s, c, p2, l2 :
        /\ l = loc[t] /\ f = l.f /\ m = msdos_i[f] /\ s = ch[f] /\ c = cache[f] /\ p2 = "idle"
        /\ l2 = NoLoc
    OBVIOUS
<1>2. Goal(pc[t], l) = "cut_mirror" /\ pc[t] # "idle"  BY DEF Goal, GetPcs
<1>3. /\ l \in LocType /\ f \in Files /\ m \in InodeType /\ FileOK(s, m) /\ l.op \in {"write", "truncate"}
      /\ m.i_mutex = t /\ t # f /\ t \in Owners /\ f \in Owners
    BY <1>1, <1>2, WriterFacts DEF Owners
<1>4. ~Undamaged' /\ failed' \cap {"free_read", "free_mirror", "cut_mirror"} # {}  BY DEF Undamaged
<1>5. PICK ch2 : ch2 = [ch EXCEPT ![t] = <<>>]  OBVIOUS
<1>6. ChainOK(Owners, Entries(fat_bits, fat), ch2)
  <2>1. ChainOK(Owners, Entries(fat_bits, fat), ch)  BY DEF InvOf, ChainInv
  <2> QED BY <1>3, <1>5, <2>1, ChainDrop
<1>7. ch2[t] = <<>> /\ \A x \in Owners : x # t => ch2[x] = ch[x]
  <2>1. DOMAIN ch = Owners  BY DEF InvOf, ChainInv, ChainOK
  <2> QED BY <1>3, <1>5, <2>1
<1>8. ChainInv(ch2)' /\ CountInv' /\ MirrorInv(ch2)'
  <2>1. CountInv  BY DEF InvOf
  <2>2. CountInv'  BY <2>1 DEF CountInv, sbi_vars
  <2> QED BY <1>4, <1>6, <2>2 DEF ChainInv, MirrorInv
<1>9. PICK m2 : m2 = [m EXCEPT !.i_mutex = None]  OBVIOUS
<1>10. /\ m2 \in InodeType /\ m2.i_start = m.i_start /\ m2.i_size = m.i_size
       /\ m2.mmu_private = m.mmu_private /\ m2.i_blocks = m.i_blocks
       /\ m2.cache_valid_id = m.cache_valid_id /\ m2.nr_caches = m.nr_caches
    BY <1>3, <1>9 DEF InodeType
<1>11. Changed(t, f, p2, l2, m2, c)
  <2>1. /\ pc' = [pc EXCEPT ![t] = p2] /\ loc' = [loc EXCEPT ![t] = l2]
        /\ msdos_i' = [msdos_i EXCEPT ![f].i_mutex = None] /\ cache' = cache
      BY <1>1, <1>3 DEF Return, Goto, NoLoc
  <2> QED BY <1>1, <1>3, <1>9, <2>1, SysFacts DEF Changed
<1>12. FileOK(ch2[f], m2)  BY <1>1, <1>3, <1>7, <1>10 DEF FileOK
<1>13. ThreadOK(t, p2, l2, ch2[t], ch2[f], m2.i_size, m2.mmu_private, m2.i_blocks, m2.i_mutex,
                    Undamaged', p2 = "unmap")
    BY <1>1, <1>7 DEF ThreadOK
<1>14. CidOK(p2, l2, ch2[f], m2.cache_valid_id, Goal(p2, l2) = "cut", m2.i_size)  BY <1>1 DEF CidOK
<1>15. Kept(m, m2, cache[f], c) \/ Flushed(m, m2, cache[f], c)  BY <1>1, <1>10 DEF Kept
<1>16. /\ ReadersKept(ch[f], ch2[f], t, f, m.i_size, m2.i_size, pc[t] = "unmap", p2 = "unmap")
       /\ RunsKept(ch[f], ch2[f], m.i_size, m2.i_size, Flushed(m, m2, cache[f], c), pc[t] = "unmap",
                  Goal(pc[t], loc[t]) = "cut", Goal(p2, l2) = "cut")
  <2>1. ch2[f] = ch[f] /\ m2.i_size = m.i_size  BY <1>3, <1>7, <1>10
  <2>2. (p2 = "unmap") = FALSE /\ (pc[t] = "unmap") = FALSE
        /\ (Goal(pc[t], loc[t]) = "cut") = FALSE /\ (Goal(p2, l2) = "cut") = FALSE
      BY <1>1, <1>2, IdleGoal
  <2>3. ReadersKept(ch[f], ch[f], t, f, m.i_size, m.i_size, FALSE, FALSE)  BY DEF ReadersKept
  <2>4. PICK fl : fl = Flushed(m, m2, cache[f], c)  OBVIOUS
  <2>5. RunsKept(ch[f], ch[f], m.i_size, m.i_size, fl, FALSE, FALSE, FALSE)  BY DEF RunsKept
  <2> QED BY <2>1, <2>2, <2>3, <2>4, <2>5
<1>17. /\ fat' \in Tables(fat_bits) /\ mirror' \in Tables(fat_bits) /\ fat_lock' \in Threads \cup {None}
       /\ prev_free' \in Clusters /\ free_clusters' \in Int /\ free_clus_valid' \in BOOLEAN
       /\ fat_bits' = fat_bits /\ fs_error' \in BOOLEAN /\ (Undamaged' => ~fs_error') /\ failed \subseteq failed'
    BY <1>4, SysFacts DEF sbi_vars
<1>18. /\ InvOf(ch) /\ f \in Files /\ m = msdos_i[f] /\ m.i_mutex \in {t, None}
       /\ (pc[t] # "idle" => loc[t].f = f) /\ (p2 # "idle" => l2.f = f)
       /\ pc[t] # "add_alloc" /\ p2 # "add_alloc"
    BY <1>1, <1>3
<1>19. Undamaged' /\ p2 \notin LinkedPcs \cup {"cut_mirror"} => m2.i_blocks = Len(ch2[f])
    BY <1>4
<1>20. \A x \in Owners : x # t /\ x # f => ch2[x] = ch[x]  BY <1>7
<1>21. InvOf(ch2)'
    BY ONLY t \in Threads, <1>8, <1>11, <1>12, <1>13, <1>14, <1>15, <1>16, <1>17, <1>18, <1>19, <1>20, HeldStep
<1> QED BY <1>21

LEMMA CutMirrorStep ==
    ASSUME NEW ch, InvOf(ch), NEW t \in Threads, CutMirror(t)
    PROVE  \E ch2 : InvOf(ch2)'
<1>1. pc[t] = "cut_mirror" /\ UNCHANGED <<fat_bits, fat, sbi_vars, cache, fs_error>>
    BY DEF CutMirror, env_vars
<1>2. CASE /\ fat_mirror_bhs(fat, loc[t].bhs) /\ Works
           /\ msdos_i' = [msdos_i EXCEPT ![loc[t].f].i_blocks = loc[t].skip]
           /\ loc' = [loc EXCEPT ![t].ret = "done", ![t].bhs = {}] /\ Goto(t, "free")
  <2>1. failed' = failed  BY <1>2 DEF Works
  <2>2. InvOf(ch)'  BY <1>1, <1>2, <2>1, CutMirrorDone
  <2> QED BY <2>2
<1>3. CASE Fails("cut_mirror") /\ UNCHANGED mirror /\ Return(t, msdos_i)
  <2>1. failed \subseteq failed' /\ "cut_mirror" \in failed'  BY <1>3 DEF Fails
  <2> QED BY <1>1, <1>3, <2>1, CutMirrorLost
<1> QED BY <1>2, <1>3 DEF CutMirror

-----------------------------------------------------------------------------
(* The calls begin.                                                        *)
LEMMA IdleFacts ==
    ASSUME NEW ch, InvOf(ch), NEW t \in Threads, pc[t] = "idle"
    PROVE  loc[t] = NoLoc /\ ch[t] = <<>>
<1>1. ThreadAt(ch, t, msdos_i[loc[t].f])  BY DEF InvOf, ThreadInv
<1> QED BY <1>1 DEF ThreadAt, ThreadOK

Fresh(l, op, f) ==
    /\ l \in LocType /\ l.op = op /\ l.f = f /\ l.nr = 1 /\ l.skip = 0 /\ l.res = NoRes
LEMMA NewLocFacts ==
    ASSUME NEW op \in {"write", "truncate", "read", "bmap"}, NEW f \in Files
    PROVE  Fresh(NewLoc(op, f), op, f)
<1>1. PICK c : c = cache_init(-1, -1)  OBVIOUS
<1>2. c \in CidType  BY <1>1 DEF CidType, cache_init, FAT_CACHE_VALID
<1>3. PICK r \in {NoRes, AtEof, Failed} : r = NoRes  OBVIOUS
<1>4. PICK b \in SUBSET Int : b = {}  OBVIOUS
<1>5. PICK e \in Rets : e = ""  BY DEF Rets
<1>6. PICK z \in Nat : z = 0  OBVIOUS
<1>7. PICK i \in 1 .. 2 : i = 1  OBVIOUS
<1>8. z \in Int  BY <1>6
<1>9. PICK l : l = [op |-> op, f |-> f, nr |-> i, cl |-> z, skip |-> z, bhs |-> b, res |-> r, ret |-> e,
                    tgt |-> z, fclus |-> z, dclus |-> z, cid |-> c]
    OBVIOUS
<1>10. l \in LocType /\ l.op = op /\ l.f = f /\ l.nr = i /\ l.skip = z /\ l.res = r
    BY ONLY <1>2, <1>8, <1>9, op \in {"write", "truncate", "read", "bmap"}, f \in Files,
            r \in {NoRes, AtEof, Failed}, b \in SUBSET Int, e \in Rets, z \in Nat, i \in 1 .. 2 DEF LocType
<1>11. NewLoc(op, f) = l  BY <1>1, <1>3, <1>4, <1>5, <1>6, <1>7, <1>9 DEF NewLoc
<1> QED BY <1>3, <1>6, <1>7, <1>10, <1>11 DEF Fresh

(* Taking the mutex of a file.                                             *)
LEMMA StartStep ==
    ASSUME NEW ch, InvOf(ch), NEW t \in Threads, NEW f \in Files, Call(t),
           msdos_i[f].i_mutex = None, msdos_i' = [msdos_i EXCEPT ![f].i_mutex = t],
           NEW p2 \in {"alloc", "down_write"}, NEW l2 \in LocType, l2.f = f,
           l2.op = IF p2 = "alloc" THEN "write" ELSE "truncate",
           p2 = "down_write" => l2.skip <= msdos_i[f].i_size,
           pc' = [pc EXCEPT ![t] = p2], loc' = [loc EXCEPT ![t] = l2]
    PROVE  InvOf(ch)'
<1>1. PICK m, s, c : m = msdos_i[f] /\ s = ch[f] /\ c = cache[f]  OBVIOUS
<1>2. pc[t] = "idle" /\ ch[t] = <<>>  BY IdleFacts DEF Call
<1>3. /\ UNCHANGED <<fat_bits, fat, mirror, sbi_vars>> /\ cache' = cache /\ fs_error' = fs_error
      /\ failed' = failed
    BY DEF Call, Works
<1>4. FileOK(s, m) /\ m \in InodeType /\ (Undamaged /\ ~Growing(f) => m.i_blocks = Len(s))
    BY <1>1 DEF InvOf, FileInv, FileOK
<1>5. ~Growing(f)
  <2>1. ThreadInv(ch)  BY DEF InvOf
  <2> QED BY <1>2, <2>1, HolderFlags DEF LinkedPcs
<1>6. PICK m2 : m2 = [m EXCEPT !.i_mutex = t]  OBVIOUS
<1>7. /\ m2 \in InodeType /\ m2.i_start = m.i_start /\ m2.i_size = m.i_size
      /\ m2.mmu_private = m.mmu_private /\ m2.i_blocks = m.i_blocks /\ m2.i_mutex = t
      /\ m2.cache_valid_id = m.cache_valid_id /\ m2.nr_caches = m.nr_caches
    BY <1>4, <1>6 DEF InodeType
<1>8. Changed(t, f, p2, l2, m2, c)  BY <1>1, <1>3, <1>6, SysFacts DEF Changed
<1>9. Goal(p2, l2) = p2 /\ p2 \notin {"add_alloc", "unmap", "idle", "walk", "add"} /\ p2 \notin HoldPcs
      /\ p2 # "cut" /\ p2 \notin LinkedPcs
    BY DEF Goal, GetPcs, HoldPcs, LinkedPcs
<1>10. FileOK(ch[f], m2)  BY <1>1, <1>4, <1>7 DEF FileOK
<1>11. ThreadOK(t, p2, l2, ch[t], ch[f], m2.i_size, m2.mmu_private, m2.i_blocks, m2.i_mutex,
                    Undamaged', FALSE)
  <2>1. OpOK(t, p2, l2, m2.i_mutex)  BY <1>7, <1>9 DEF OpOK, WritePcs, TruncatePcs, GetPcs
  <2>2. HoldOK(p2, l2, ch[t])  BY <1>2, <1>9 DEF HoldOK, HoldPcs
  <2>3. SizeOK(p2, l2, ch[f], m2.i_size, m2.mmu_private, m2.i_blocks, Undamaged')
    <3>1. p2 = "down_write" => l2.skip <= m2.i_size  BY <1>1, <1>7
    <3> QED BY <1>9, <3>1 DEF SizeOK
  <2>4. PosOK(p2, l2, ch[f])  BY DEF PosOK, GetPcs, RetPcs
  <2>5. ReaderOK(l2, m2.i_size, FALSE)  BY DEF ReaderOK
  <2> QED BY <1>9, <2>1, <2>2, <2>3, <2>4, <2>5 DEF ThreadOK
<1>12. CidOK(p2, l2, ch[f], m2.cache_valid_id, Goal(p2, l2) = "cut", m2.i_size)  BY DEF CidOK
<1>13. Kept(m, m2, cache[f], c) \/ Flushed(m, m2, cache[f], c)  BY <1>1, <1>7 DEF Kept
<1>14. m.i_size <= m2.i_size  BY <1>4, <1>7 DEF InodeType
<1>15. Undamaged' /\ p2 \notin LinkedPcs \cup {"cut_mirror"} => m2.i_blocks = Len(ch[f])
    BY <1>1, <1>3, <1>4, <1>5, <1>7, Damage
<1>16. /\ fs_error' \in BOOLEAN /\ (Undamaged' => ~fs_error')
       /\ failed \subseteq failed'
       /\ pc[t] \notin {"add_alloc", "unmap"} \cup MirrorPcs /\ p2 \notin {"add_alloc", "unmap"}
       /\ (pc[t] # "idle" => loc[t].f = f) /\ (p2 # "idle" => l2.f = f)
       /\ m = msdos_i[f] /\ m.i_mutex \in {t, None}
       /\ (Goal(p2, l2) = "cut" => Flushed(m, m2, cache[f], c) /\ m2.i_size = m.i_size)
    BY <1>1, <1>2, <1>3, <1>9, SysFacts, Damage DEF MirrorPcs
<1> QED BY ONLY InvOf(ch), t \in Threads, f \in Files, <1>3, <1>8, <1>10, <1>11, <1>12, <1>13, <1>14, <1>15, <1>16,
                PlainStep

LEMMA WriteBeginStep ==
    ASSUME NEW ch, InvOf(ch), NEW t \in Threads, NEW f \in Files, NEW nr \in 1 .. 2, fat_write_begin(t, f, nr)
    PROVE  InvOf(ch)'
<1>1. PICK l, p2 : l = NewLoc("write", f) /\ p2 = "alloc"  OBVIOUS
<1>2. Fresh(l, "write", f)  BY <1>1, NewLocFacts
<1>3. PICK l2 : l2 = [l EXCEPT !.nr = nr]  OBVIOUS
<1>4. l2 \in LocType /\ l2.f = f /\ l2.op = "write"  BY <1>2, <1>3 DEF Fresh, LocType
<1>5. /\ Call(t) /\ msdos_i[f].i_mutex = None /\ msdos_i' = [msdos_i EXCEPT ![f].i_mutex = t]
      /\ pc' = [pc EXCEPT ![t] = p2] /\ loc' = [loc EXCEPT ![t] = l2]
    BY <1>1, <1>3 DEF fat_write_begin, Goto
<1>6. /\ p2 \in {"alloc", "down_write"} /\ l2.op = IF p2 = "alloc" THEN "write" ELSE "truncate"
      /\ p2 = "down_write" => l2.skip <= msdos_i[f].i_size
    BY <1>1, <1>4
<1> QED BY <1>4, <1>5, <1>6, StartStep

LEMMA SetattrStep ==
    ASSUME NEW ch, InvOf(ch), NEW t \in Threads, NEW f \in Files, NEW n \in Nat, fat_setattr(t, f, n)
    PROVE  InvOf(ch)'
<1>1. PICK l, p2 : l = NewLoc("truncate", f) /\ p2 = "down_write"  OBVIOUS
<1>2. Fresh(l, "truncate", f)  BY <1>1, NewLocFacts
<1>3. PICK l2 : l2 = [l EXCEPT !.skip = n]  OBVIOUS
<1>4. l2 \in LocType /\ l2.f = f /\ l2.op = "truncate" /\ l2.skip = n  BY <1>2, <1>3 DEF Fresh, LocType
<1>5. /\ Call(t) /\ msdos_i[f].i_mutex = None /\ msdos_i' = [msdos_i EXCEPT ![f].i_mutex = t]
      /\ pc' = [pc EXCEPT ![t] = p2] /\ loc' = [loc EXCEPT ![t] = l2] /\ n < msdos_i[f].i_size
    BY <1>1, <1>3 DEF fat_setattr, Goto
<1>6. PICK z \in Nat : z = msdos_i[f].i_size  BY DEF InvOf, FileInv, FileOK, InodeType
<1>7. n <= z  BY <1>5, <1>6
<1>8. /\ p2 \in {"alloc", "down_write"} /\ l2.op = IF p2 = "alloc" THEN "write" ELSE "truncate"
      /\ p2 = "down_write" => l2.skip <= msdos_i[f].i_size
    BY <1>1, <1>4, <1>6, <1>7
<1> QED BY <1>4, <1>5, <1>8, StartStep

(* A thread that only reads, before or after fat_get_cluster.              *)
LEMMA ReadStep ==
    ASSUME NEW ch, InvOf(ch), NEW t \in Threads, NEW f \in Files, NEW m, m = msdos_i[f],
           pc[t] \in {"idle", "bmap_cluster"}, pc[t] # "idle" => loc[t].f = f,
           NEW p2 \in {"idle", "lookup", "bmap_cluster"}, NEW l2, p2 # "idle" => l2.f = f,
           Moves(t, p2, l2), msdos_i' = msdos_i, cache' = cache, fs_error' = fs_error,
           UNCHANGED <<fat_bits, fat, mirror, sbi_vars>>, failed \subseteq failed',
           Goal(p2, l2) # "cut",
           ThreadOK(t, p2, l2, ch[t], ch[l2.f], msdos_i[l2.f].i_size, msdos_i[l2.f].mmu_private,
                    msdos_i[l2.f].i_blocks, msdos_i[l2.f].i_mutex, Undamaged', Unmapping(l2.f)')
    PROVE  InvOf(ch)'
<1>1. PICK c : c = cache[f]  OBVIOUS
<1>2. Changed(t, f, p2, l2, m, c)  BY <1>1, SysFacts DEF Changed, Moves
<1>3. StepBy(ch, ch, t, f)  BY <1>2, Stepped
<1>4. pc'[t] = p2 /\ loc'[t] = l2  BY <1>2 DEF Changed
<1>5. SysOK'  BY <1>2 DEF InvOf, SysOK, Changed, sbi_vars
<1>6. m \in InodeType  BY DEF InvOf, FileInv, FileOK
<1>7. Local(t, f)
  <2>1. pc[t] # "unmap" /\ pc[t] \notin LinkedPcs \cup {"cut_mirror"}  BY DEF LinkedPcs
  <2>2. SameFile(msdos_i[f], msdos_i'[f])  BY DEF SameFile
  <2> QED BY <1>4, <1>6, <2>1, <2>2 DEF Local, sbi_vars
<1>8. MirrorKept(ch, t)
  <2>1. Pending(fat_bits, pc[t], loc[t], ch[t]) = {}  BY DEF Pending, MirrorPcs
  <2> QED BY <2>1 DEF MirrorKept
<1>9. ThreadAt(ch, t, msdos_i[loc[t].f])'  BY <1>4 DEF ThreadAt
<1>10. CidAt(ch, t, msdos_i[loc[t].f])'  BY <1>4 DEF CidAt, CidOK
<1>11. Reserving(f)' = Reserving(f)  BY <1>3, <1>4, ReservingSame
<1>12. \A k \in 1 .. Len(cache'[f]) :
                RunOK(ch[f], cache'[f][k]) /\ Within(cache'[f][k], Cutting(f), msdos_i[f].i_size)
    BY CacheFacts DEF CacheOK
<1>13. /\ msdos_i'[f].nr_caches = Len(cache'[f]) + Cardinality(Reserving(f)')
       /\ msdos_i'[f].nr_caches <= FAT_MAX_CACHE
    BY <1>11, CacheFacts
<1>14. Undamaged' => ~fs_error'  BY SysFacts, Damage
<1> QED BY <1>3, <1>5, <1>7, <1>8, <1>9, <1>10, <1>12, <1>13, <1>14, LocalInv

LEMMA BmapStep ==
    ASSUME NEW ch, InvOf(ch), NEW t \in Threads, NEW f \in Files, NEW c \in Nat,
           NEW op \in {"read", "bmap"}, fat_bmap(t, f, c, op)
    PROVE  InvOf(ch)'
<1>1. PICK l, m, s, st, r, p2 :
        /\ l = NewLoc(op, f) /\ m = msdos_i[f] /\ s = ch[f] /\ st = m.i_start /\ r = "bmap_cluster"
        /\ p2 = IF c = 0 THEN r ELSE "lookup"
    OBVIOUS
<1>2. Fresh(l, op, f)  BY <1>1, NewLocFacts
<1>3. l \in LocType /\ l.f = f /\ l.op = op  BY <1>2 DEF Fresh
<1>4. /\ Call(t) /\ c < m.i_size /\ st # 0 /\ fat_get_cluster(t, l, c, r) /\ msdos_i' = msdos_i
    BY <1>1 DEF fat_bmap
<1>5. pc[t] = "idle" /\ ch[t] = <<>>  BY <1>4, IdleFacts DEF Call
<1>6. /\ UNCHANGED <<fat_bits, fat, mirror, sbi_vars>> /\ cache' = cache /\ fs_error' = fs_error
      /\ failed' = failed
    BY <1>4 DEF Call, Works
<1>7. FileOK(s, m) /\ m \in InodeType  BY <1>1 DEF InvOf, FileInv, FileOK
<1>8. s \in Seq(Clusters) /\ s # <<>> /\ st = s[1] /\ st \in Int /\ c < Len(s)
  <2>1. s \in Seq(Clusters) /\ Len(s) \in Nat  BY <1>1, ChainFacts DEF Owners
  <2>2. s # <<>> /\ st = s[1]  BY <1>1, <1>4, <1>7 DEF FileOK
  <2>3. c < Len(s)
    <3>1. m.i_size \in Nat /\ m.mmu_private \in Nat /\ m.i_size <= m.mmu_private /\ m.mmu_private <= Len(s)
        BY <1>7 DEF FileOK, InodeType
    <3> QED BY <1>4, <2>1, <3>1
  <2>4. st \in Int  BY <1>1, <1>7 DEF InodeType
  <2> QED BY <2>1, <2>2, <2>3, <2>4
<1>9. PICK l2 : l2 = [l EXCEPT !.tgt = c, !.ret = r, !.res = NoRes, !.fclus = 0, !.dclus = st]
    OBVIOUS
<1>10. r \in RetPcs /\ r # "chain_put" /\ r # "cut"  BY <1>1 DEF RetPcs
<1>11. Entered(l, l2, c, r, st)  BY <1>3, <1>8, <1>9, <1>10, EnterLoc
<1>12. /\ l2 \in LocType /\ l2.op = l.op /\ l2.f = l.f
       /\ PosOK(p2, l2, s) /\ Goal(p2, l2) = r /\ l2.tgt = c
    BY <1>1, <1>3, <1>8, <1>10, <1>11, Enter
<1>13. Moves(t, p2, l2)
  <2>1. loc' = [loc EXCEPT ![t] = l2] /\ pc' = [pc EXCEPT ![t] = p2]
    <3>1. msdos_i[l.f].i_start = st  BY <1>1, <1>3
    <3> QED BY <1>1, <1>4, <1>9, <3>1 DEF fat_get_cluster, Goto
  <2> QED BY <2>1, SysFacts DEF Moves
<1>14. p2 \in {"idle", "lookup", "bmap_cluster"} /\ p2 # "idle" /\ Goal(p2, l2) # "cut"
       /\ Goal(p2, l2) = "bmap_cluster"
    BY <1>1, <1>12
<1>15. l2.f = f /\ l2.op = op  BY <1>3, <1>12
<1>16. ThreadOK(t, p2, l2, ch[t], ch[l2.f], msdos_i[l2.f].i_size, msdos_i[l2.f].mmu_private,
                msdos_i[l2.f].i_blocks, msdos_i[l2.f].i_mutex, Undamaged', Unmapping(l2.f)')
  <2>1. PICK um : um = Unmapping(l2.f)'  OBVIOUS
  <2>2. OpOK(t, p2, l2, m.i_mutex)
    <3>1. l2.ret = r  BY <1>11 DEF Entered
    <3> QED BY <1>10, <1>14, <1>15, <3>1 DEF OpOK
  <2>3. HoldOK(p2, l2, ch[t])  BY <1>5, <1>14 DEF HoldOK, HoldPcs
  <2>4. SizeOK(p2, l2, s, m.i_size, m.mmu_private, m.i_blocks, Undamaged')  BY <1>14 DEF SizeOK, LinkedPcs
  <2>5. ReaderOK(l2, m.i_size, um)  BY <1>4, <1>12 DEF ReaderOK
  <2> QED BY <1>1, <1>12, <1>14, <1>15, <2>1, <2>2, <2>3, <2>4, <2>5 DEF ThreadOK
<1>17. pc[t] \in {"idle", "bmap_cluster"} /\ failed \subseteq failed' /\ (pc[t] # "idle" => loc[t].f = f)
    BY <1>5, <1>6
<1> QED BY <1>4, <1>6, <1>13, <1>14, <1>15, <1>16, <1>17, ReadStep

LEMMA BmapClusterStep ==
    ASSUME NEW ch, InvOf(ch), NEW t \in Threads, fat_bmap_cluster(t)
    PROVE  InvOf(ch)'
<1>1. PICK l, f, m, p2, l2 : l = loc[t] /\ f = l.f /\ m = msdos_i[f] /\ p2 = "idle" /\ l2 = NoLoc
    OBVIOUS
<1>2. pc[t] = "bmap_cluster" /\ Goal(pc[t], l) = "bmap_cluster"  BY DEF fat_bmap_cluster, Goal, GetPcs
<1>3. l \in LocType /\ f \in Files /\ OpOK(t, pc[t], l, m.i_mutex) /\ HoldOK(pc[t], l, ch[t])
      /\ PosOK(pc[t], l, ch[f])
    BY <1>1, <1>2, ThreadFacts
<1>4. ch[t] = <<>> /\ l.op \notin {"write", "truncate"}
    BY <1>2, <1>3 DEF HoldOK, HoldPcs, OpOK, WritePcs, TruncatePcs
<1>5. l.res.eof = FALSE
  <2>1. l.res # AtEof  BY <1>2, <1>3 DEF PosOK, RetPcs
  <2>2. l.res \in {NoRes, Failed}  BY <1>3, <2>1 DEF LocType
  <2> QED BY <2>2 DEF NoRes, Failed
<1>6. fs_error' = fs_error
  <2>1. fs_error' = (fs_error \/ l.res.eof) /\ fs_error \in BOOLEAN  BY <1>1, SysFacts DEF fat_bmap_cluster
  <2> QED BY <1>5, <2>1
<1>7. /\ msdos_i' = msdos_i /\ pc' = [pc EXCEPT ![t] = p2] /\ loc' = [loc EXCEPT ![t] = l2]
    BY <1>1, <1>4 DEF fat_bmap_cluster, Return, Goto, NoLoc
<1>8. /\ UNCHANGED <<fat_bits, fat, mirror, sbi_vars>> /\ cache' = cache /\ failed \subseteq failed'
    BY DEF fat_bmap_cluster, Works, env_vars
<1>9. Moves(t, p2, l2)  BY <1>7, SysFacts DEF Moves
<1>10. ThreadOK(t, p2, l2, ch[t], ch[l2.f], msdos_i[l2.f].i_size, msdos_i[l2.f].mmu_private,
                msdos_i[l2.f].i_blocks, msdos_i[l2.f].i_mutex, Undamaged', Unmapping(l2.f)')
    BY <1>1, <1>4 DEF ThreadOK
<1>11. Goal(p2, l2) # "cut" /\ p2 \in {"idle", "lookup", "bmap_cluster"} /\ (p2 # "idle" => l2.f = f)
       /\ pc[t] \in {"idle", "bmap_cluster"} /\ (pc[t] # "idle" => loc[t].f = f)
    BY <1>1, <1>2, IdleGoal
<1> QED BY <1>1, <1>3, <1>6, <1>7, <1>8, <1>9, <1>10, <1>11, ReadStep

-----------------------------------------------------------------------------
(* Every step keeps the invariant.                                         *)
LEMMA StillInv ==
    ASSUME NEW ch, InvOf(ch),
           UNCHANGED <<fat_bits, fat, mirror, fat_lock, prev_free, msdos_i, cache, pc, loc, fs_error, failed>>,
           free_clusters' \in Int, free_clus_valid' \in BOOLEAN, CountInv'
    PROVE  InvOf(ch)'
<1>1. /\ SysOK /\ ChainInv(ch) /\ FileInv(ch) /\ ThreadInv(ch) /\ CacheInv(ch) /\ CidInv(ch)
      /\ PlacesInv /\ ErrorInv /\ MirrorInv(ch)
    BY DEF InvOf
<1>2. SysOK'  BY <1>1 DEF SysOK
<1>3. Undamaged' = Undamaged  BY DEF Undamaged
<1>4. \A f : /\ Growing(f)' = Growing(f) /\ Cutting(f)' = Cutting(f) /\ Unmapping(f)' = Unmapping(f)
             /\ Reserving(f)' = Reserving(f)
    BY DEF Growing, Cutting, Unmapping, Reserving
<1>5. ChainInv(ch)' /\ ErrorInv'  BY <1>1, <1>3 DEF ChainInv, ErrorInv
<1>6. FileInv(ch)'  BY <1>1, <1>3, <1>4 DEF FileInv
<1>7. ThreadInv(ch)'  BY <1>1, <1>3, <1>4 DEF ThreadInv, ThreadAt
<1>8. CacheInv(ch)'  BY <1>1, <1>4 DEF CacheInv
<1>9. CidInv(ch)'  BY <1>1, <1>4 DEF CidInv, CidAt
<1>10. PlacesInv'  BY <1>1, <1>4 DEF PlacesInv
<1>11. MirrorInv(ch)'  BY <1>1 DEF MirrorInv, Offsets
<1> QED BY <1>2, <1>5, <1>6, <1>7, <1>8, <1>9, <1>10, <1>11 DEF InvOf

LEMMA FreeSize ==
    ASSUME NEW E
    PROVE  /\ IsFiniteSet(FreeSet(E)) /\ Cardinality(FreeSet(E)) \in Nat
           /\ IsFiniteSet(Clusters) /\ Cardinality(Clusters) \in Nat
           /\ Cardinality(Clusters) = max_cluster - FAT_START_ENT
<1>1. IsFiniteSet(Clusters) /\ Cardinality(Clusters) = max_cluster - FAT_START_ENT
    BY ClusterFacts
<1>2. FreeSet(E) \subseteq Clusters  BY DEF FreeSet
<1>3. IsFiniteSet(FreeSet(E))  BY <1>1, <1>2, FS_Subset
<1> QED BY <1>1, <1>3, FS_CardinalityType

LEMMA CountStep ==
    ASSUME NEW ch, InvOf(ch), fat_count_free_clusters
    PROVE  InvOf(ch)'
<1>1. PICK n : n = Cardinality(FreeSet(Entries(fat_bits, fat)))  OBVIOUS
<1>2. fat_bits \in Widths  BY SysFacts
<1>3. free_clusters' = n  BY <1>1, <1>2, FreeCounted DEF fat_count_free_clusters
<1>4. PICK k \in Nat : k = Cardinality(Clusters)  BY FreeSize
<1>5. n \in Nat /\ n \in Int /\ 0 <= n /\ n <= n + k  BY <1>1, <1>4, FreeSize
<1>6. /\ UNCHANGED <<fat_bits, fat, mirror, fat_lock, prev_free, msdos_i, cache, pc, loc, fs_error, failed>>
      /\ free_clus_valid' \in BOOLEAN
    BY DEF fat_count_free_clusters, env_vars, Works
<1>7. CountInv'  BY <1>1, <1>3, <1>4, <1>5, <1>6 DEF CountInv
<1> QED BY <1>3, <1>5, <1>6, <1>7, StillInv

LEMMA SameInv ==
    ASSUME NEW ch, InvOf(ch), UNCHANGED vars
    PROVE  InvOf(ch)'
<1>1. /\ UNCHANGED <<fat_bits, fat, mirror, fat_lock, prev_free, msdos_i, cache, pc, loc, fs_error, failed>>
      /\ UNCHANGED <<free_clusters, free_clus_valid>>
    BY DEF vars, sbi_vars
<1>2. CountInv'
  <2>1. CountInv  BY DEF InvOf
  <2> QED BY <1>1, <2>1 DEF CountInv
<1>3. free_clusters' \in Int /\ free_clus_valid' \in BOOLEAN  BY <1>1, SysFacts
<1> QED BY <1>1, <1>2, <1>3, StillInv

LEMMA ThreadStep ==
    ASSUME NEW ch, InvOf(ch), NEW t \in Threads, Step(t), ~CacheRace, "chain_mirror" \notin FailKinds
    PROVE  Inv'
<1>1. CASE Lookup(t)  BY <1>1, LookupStep DEF Inv
<1>2. CASE Walk(t)  BY <1>2, WalkStep DEF Inv
<1>3. CASE fat_cache_add(t)  BY <1>3, AddStep DEF Inv
<1>4. CASE CacheAlloc(t)  BY <1>4, CacheAllocStep DEF Inv
<1>5. CASE fat_alloc_clusters(t)  BY <1>5, AllocStep DEF Inv
<1>6. CASE AllocMirror(t)  BY <1>6, AllocMirrorStep DEF Inv
<1>7. CASE fat_free_clusters(t)  BY <1>7, FreeStep DEF Inv
<1>8. CASE FreeMirror(t)  BY <1>8, FreeMirrorStep DEF Inv
<1>9. CASE fat_chain_add(t)  BY <1>9, ChainAddStep DEF Inv
<1>10. CASE ChainPut(t)  BY <1>10, ChainPutStep DEF Inv
<1>11. CASE ChainMirror(t)  BY <1>11, ChainMirrorStep DEF Inv
<1>12. CASE ChainUndo(t)  BY <1>12, ChainUndoStep DEF Inv
<1>13. CASE ChainDone(t)  BY <1>13, ChainDoneStep DEF Inv
<1>14. CASE Mapped(t)  BY <1>14, MappedStep DEF Inv
<1>15. CASE fat_write_failed(t)  BY <1>15, WriteFailedStep DEF Inv
<1>16. CASE truncate_setsize(t)  BY <1>16, SetsizeStep DEF Inv
<1>17. CASE fat_truncate_blocks(t)  BY <1>17, TruncateStep DEF Inv
<1>18. CASE Cut(t)  BY <1>18, CutStep DEF Inv
<1>19. CASE CutMirror(t)  BY <1>19, CutMirrorStep DEF Inv
<1>20. CASE Done(t)  BY <1>20, DoneStep DEF Inv
<1>21. CASE fat_bmap_cluster(t)  BY <1>21, BmapClusterStep DEF Inv
<1> QED BY <1>1, <1>2, <1>3, <1>4, <1>5, <1>6, <1>7, <1>8, <1>9, <1>10, <1>11, <1>12, <1>13, <1>14, <1>15,
           <1>16, <1>17, <1>18, <1>19, <1>20, <1>21 DEF Step

LEMMA InvNext ==
    ASSUME Inv, [Next]_vars, ~CacheRace, "chain_mirror" \notin FailKinds
    PROVE  Inv'
<1>1. PICK ch : InvOf(ch)  BY DEF Inv
<1>2. \A n \in 0 .. max_cluster : n \in Nat  OBVIOUS
<1>3. ASSUME NEW t \in Threads, Step(t) PROVE Inv'  BY <1>1, <1>3, ThreadStep
<1>4. ASSUME NEW t \in Threads, NEW f \in Files, NEW nr \in 1 .. 2, fat_write_begin(t, f, nr) PROVE Inv'
    BY <1>1, <1>4, WriteBeginStep DEF Inv
<1>5. ASSUME NEW t \in Threads, NEW f \in Files, NEW n \in 0 .. max_cluster, fat_setattr(t, f, n) PROVE Inv'
    BY <1>1, <1>2, <1>5, SetattrStep DEF Inv
<1>6. ASSUME NEW t \in Threads, NEW f \in Files, NEW c \in 0 .. max_cluster, NEW op \in {"read", "bmap"},
             fat_bmap(t, f, c, op)
      PROVE  Inv'
    BY <1>1, <1>2, <1>6, BmapStep DEF Inv
<1>7. CASE fat_count_free_clusters  BY <1>1, <1>7, CountStep DEF Inv
<1>8. CASE Finished \/ UNCHANGED vars  BY <1>1, <1>8, SameInv DEF Inv, Finished
<1> QED BY <1>3, <1>4, <1>5, <1>6, <1>7, <1>8 DEF Next

(* A volume that is mounted satisfies it.                                  *)
LEMMA InvInit ==
    ASSUME Init
    PROVE  Inv
<1>1. PICK v \in Volumes :
        /\ fat_bits = v.bits /\ fat = v.fat /\ msdos_i = [f \in Files |-> Inode(v.chains[f])]
        /\ free_clusters = v.free_clusters /\ prev_free = v.next_cluster
    BY DEF Init
<1>2. /\ mirror = fat /\ fat_lock = None /\ free_clus_valid = FALSE
      /\ cache = [f \in Files |-> <<>>]
      /\ pc = [t \in Threads |-> "idle"] /\ loc = [t \in Threads |-> NoLoc]
      /\ fs_error = FALSE /\ failed = {}
    BY DEF Init, NoLoc
<1>3. PICK E, C : E = Entries(fat_bits, fat) /\ C = v.chains  OBVIOUS
<1>4. /\ fat_bits \in {12, 16, 32} /\ max_cluster <= BadEntry(fat_bits) /\ fat \in Tables(fat_bits)
      /\ C \in [Files -> Seq(Clusters)]
      /\ \A f \in Files : \A k \in DOMAIN C[f] :
            /\ ent_get(fat_bits, fat, Pos(fat_bits, C[f][k])) = IF k = Len(C[f]) THEN FAT_ENT_EOF ELSE C[f][k + 1]
            /\ \A g \in Files : \A j \in DOMAIN C[g] : C[f][k] = C[g][j] => f = g /\ k = j
      /\ \A c \in Clusters :
            ent_get(fat_bits, fat, Pos(fat_bits, c)) = FAT_ENT_FREE \/ \E f \in Files : c \in Range(C[f])
      /\ free_clusters \in Unknown .. max_cluster - FAT_START_ENT
      /\ prev_free \in Clusters
    BY <1>1, <1>3, VolumesAssumption
<1>5. \A f \in Files : C[f] \in Seq(Clusters) /\ DOMAIN C[f] = 1 .. Len(C[f]) /\ Len(C[f]) \in Nat
    BY <1>4
<1>6. \A c \in Clusters : E[c] = ent_get(fat_bits, fat, Pos(fat_bits, c))  BY <1>3 DEF Entries
<1>7. PICK ch : ch = [x \in Owners |-> IF x \in Files THEN C[x] ELSE <<>>]  OBVIOUS
<1>8. /\ \A f \in Files : ch[f] = C[f]
      /\ \A t \in Threads : ch[t] = <<>>
      /\ ch \in [Owners -> Seq(Clusters)]
  <2>1. <<>> \in Seq(Clusters)  OBVIOUS
  <2>2. \A t \in Threads : t \notin Files  BY ThreadAssumption
  <2> QED BY <1>5, <1>7, <2>1, <2>2 DEF Owners
<1>9. ChainOK(Owners, E, ch)
  <2>1. ASSUME NEW x \in Owners, NEW k \in 1 .. Len(ch[x])
        PROVE  x \in Files /\ ch[x] = C[x] /\ k \in DOMAIN C[x] /\ ch[x][k] \in Clusters
    <3>1. x \in Files  BY <1>8, <2>1 DEF Owners
    <3> QED BY <1>5, <1>8, <2>1, <3>1
  <2>2. ASSUME NEW x \in Owners, NEW k \in 1 .. Len(ch[x]) PROVE E[ch[x][k]] = Link(ch[x], k)
    <3>1. x \in Files /\ ch[x] = C[x] /\ k \in DOMAIN C[x] /\ ch[x][k] \in Clusters  BY <2>1, <2>2
    <3>2. E[ch[x][k]] = ent_get(fat_bits, fat, Pos(fat_bits, C[x][k]))  BY <1>6, <3>1
    <3> QED BY <1>4, <3>1, <3>2 DEF Link
  <2>3. ASSUME NEW x \in Owners, NEW y \in Owners, NEW j \in 1 .. Len(ch[x]), NEW k \in 1 .. Len(ch[y]),
               ch[x][j] = ch[y][k]
        PROVE  x = y /\ j = k
    <3>1. /\ x \in Files /\ ch[x] = C[x] /\ j \in DOMAIN C[x]
          /\ y \in Files /\ ch[y] = C[y] /\ k \in DOMAIN C[y]
        BY <2>1, <2>3
    <3> QED BY <1>4, <2>3, <3>1
  <2> QED BY <1>8, <2>2, <2>3 DEF ChainOK
<1>10. NoneLost(Owners, E, ch)
  <2> SUFFICES ASSUME NEW c \in Clusters, E[c] # FAT_ENT_FREE PROVE c \in Owned(Owners, ch)
      BY DEF NoneLost
  <2>1. PICK f \in Files : c \in Range(C[f])  BY <1>4, <1>6
  <2>2. PICK k \in 1 .. Len(C[f]) : C[f][k] = c  BY <1>5, <2>1 DEF Range
  <2> QED BY <1>8, <2>2 DEF Owned, Owners
<1>11. SysOK
  <2>1. fat_bits \in Widths  BY <1>4 DEF Widths
  <2>2. free_clusters \in Int  BY <1>4 DEF Unknown
  <2>3. \A f \in Files : <<>> \in Seq(EntryType)  OBVIOUS
  <2> QED BY <1>1, <1>2, <1>4, <2>1, <2>2, <2>3 DEF SysOK
<1>12. ASSUME NEW f \in Files, NEW m, m = msdos_i[f]
       PROVE  /\ FileOK(ch[f], m) /\ m.i_blocks = Len(ch[f]) /\ m.nr_caches = 0
  <2>1. PICK s \in Seq(Clusters), n \in Nat : s = ch[f] /\ n = Len(s)  BY <1>5, <1>8
  <2>2. PICK a : a = IF s = <<>> THEN 0 ELSE s[1]  OBVIOUS
  <2>3. a \in Int
    <3>1. s # <<>> => s[1] \in Clusters  BY <2>1
    <3> QED BY <2>2, <3>1, ClusterFacts
  <2>4. m = [i_start |-> a, i_size |-> n, mmu_private |-> n, i_blocks |-> n,
             i_mutex |-> None, cache_valid_id |-> 1, nr_caches |-> 0]
      BY <1>1, <1>3, <1>8, <1>12, <2>1, <2>2 DEF Inode
  <2>5. m \in InodeType  BY <2>1, <2>3, <2>4 DEF InodeType
  <2> QED BY <2>1, <2>2, <2>4, <2>5 DEF FileOK
<1>13. FileInv(ch)  BY <1>12 DEF FileInv
<1>14. ThreadInv(ch) /\ CidInv(ch)
  <2>1. \A t \in Threads : pc[t] = "idle" /\ loc[t] = NoLoc /\ ch[t] = <<>>  BY <1>2, <1>8
  <2> QED BY <2>1 DEF ThreadInv, ThreadAt, ThreadOK, CidInv, CidAt, CidOK
<1>15. CacheInv(ch) /\ PlacesInv
  <2>1. \A f \in Files : cache[f] = <<>> /\ Len(cache[f]) = 0  BY <1>2
  <2>2. \A f \in Files : Reserving(f) = {}  BY <1>2 DEF Reserving
  <2>3. Cardinality({}) = 0  BY FS_EmptySet
  <2>4. CacheInv(ch)
    <3>1. \A f \in Files : \A k \in 1 .. Len(cache[f]) : FALSE  BY <2>1
    <3> QED BY <3>1 DEF CacheInv
  <2>5. PlacesInv
    <3> SUFFICES ASSUME NEW f \in Files
                 PROVE  /\ msdos_i[f].nr_caches = Len(cache[f]) + Cardinality(Reserving(f))
                        /\ msdos_i[f].nr_caches <= FAT_MAX_CACHE
        BY DEF PlacesInv
    <3>1. msdos_i[f].nr_caches = 0 /\ Len(cache[f]) = 0 /\ Cardinality(Reserving(f)) = 0
        BY <1>12, <2>1, <2>2, <2>3
    <3> QED BY <3>1, BoundsAssumption
  <2> QED BY <2>4, <2>5
<1>16. ErrorInv /\ MirrorInv(ch)  BY <1>2 DEF ErrorInv, MirrorInv
<1>17. CountInv
  <2>1. PICK x \in Nat, k \in Nat : x = Cardinality(FreeSet(E)) /\ k = Cardinality(Clusters)
      BY FreeSize
  <2>2. k = max_cluster - FAT_START_ENT  BY <2>1, FreeSize
  <2>3. free_clusters # Unknown => 0 <= free_clusters /\ free_clusters <= x + k
      BY <1>4, <2>2 DEF Unknown
  <2> QED BY <1>2, <1>3, <2>1, <2>3 DEF CountInv
<1>18. ChainInv(ch)  BY <1>3, <1>9, <1>10 DEF ChainInv
<1> QED BY <1>11, <1>13, <1>14, <1>15, <1>16, <1>17, <1>18 DEF InvOf, Inv

-----------------------------------------------------------------------------
(* What the invariant says of the chains as they are read from the FAT.    *)
LEMMA ChainIs ==
    ASSUME NEW ch, InvOf(ch), NEW f \in Files, NEW s, s = ch[f]
    PROVE  /\ Chain(f) = s /\ s \in Seq(Clusters) /\ Len(s) \in Nat /\ Distinct(s)
           /\ Cardinality(Range(s)) = Len(s) /\ Range(s) = Elems(s)
           /\ \A k \in 1 .. Len(s) : s[k] \in Clusters /\ Entry(fat, s[k]) = Link(s, k)
<1>1. /\ s \in Seq(Clusters) /\ Len(s) \in Nat /\ Distinct(s)
      /\ \A k \in 1 .. Len(s) : Entries(fat_bits, fat)[s[k]] = Link(s, k)
      /\ \A k \in 1 .. Len(s) : s[k] \in Clusters /\ Entry(fat, s[k]) = Link(s, k)
    BY ChainFacts DEF Owners
<1>2. PICK c, m : m = msdos_i[f] /\ c = m.i_start  OBVIOUS
<1>3. c = IF s = <<>> THEN 0 ELSE s[1]  BY <1>2 DEF InvOf, FileInv, FileOK
<1>4. ChainFrom(fat, c) = s
  <2>1. PICK tab : tab = fat  OBVIOUS
  <2>2. /\ fat_bits \in Widths /\ s \in Seq(Clusters) /\ Distinct(s)
        /\ \A k \in 1 .. Len(s) : Entries(fat_bits, tab)[s[k]] = Link(s, k)
      BY <1>1, <2>1, SysFacts
  <2>3. ChainFrom(tab, c) = s  BY ONLY <1>3, <2>2, ChainFromIs
  <2> QED BY <2>1, <2>3
<1>5. DOMAIN s = 1 .. Len(s)  BY <1>1
<1>6. Range(s) = Elems(s)  BY <1>5 DEF Range, Elems
<1>7. Cardinality(Elems(s)) = Len(s)  BY <1>1, DistinctLen
<1> QED BY <1>1, <1>2, <1>4, <1>6, <1>7 DEF Chain
LEMMA FreeIs ==
    FreeIn(fat) = FreeSet(Entries(fat_bits, fat))
BY DEF FreeIn, FreeSet, Entries, Entry

LEMMA InvTypeOK ==
    ASSUME Inv
    PROVE  TypeOK
<1>1. PICK ch : InvOf(ch)  BY DEF Inv
<1>2. /\ fat \in [Offsets -> 0 .. 255] /\ mirror \in [Offsets -> 0 .. 255]
      /\ fat_lock \in Threads \cup {None} /\ prev_free \in Clusters
    BY <1>1, SysFacts DEF Tables, Byte, Offsets
<1>3. free_clusters \in Unknown .. 2 * max_cluster
  <2>1. PICK x \in Nat, k \in Nat, z \in Int, M \in Nat :
            /\ x = Cardinality(FreeSet(Entries(fat_bits, fat))) /\ k = Cardinality(Clusters)
            /\ z = free_clusters /\ M = max_cluster
      BY <1>1, FreeSize, SysFacts, BlockAssumption
  <2>2. k = M - 2  BY <2>1, FreeSize DEF FAT_START_ENT
  <2>3. x <= k
    <3>1. FreeSet(Entries(fat_bits, fat)) \subseteq Clusters  BY DEF FreeSet
    <3> QED BY <2>1, <3>1, FreeSize, FS_Subset
  <2>4. z # -1 => 0 <= z /\ z <= x + k  BY <1>1, <2>1 DEF InvOf, CountInv, Unknown
  <2>5. z \in -1 .. 2 * M  BY <2>2, <2>3, <2>4
  <2> QED BY <2>1, <2>5 DEF Unknown
<1>4. ASSUME NEW f \in Files
      PROVE  /\ msdos_i[f].i_start \in Clusters \cup {0}
             /\ msdos_i[f].nr_caches \in Len(cache[f]) .. FAT_MAX_CACHE
  <2>1. PICK m, s : m = msdos_i[f] /\ s = ch[f]  OBVIOUS
  <2>2. FileOK(s, m) /\ m \in InodeType  BY <1>1, <2>1 DEF InvOf, FileInv, FileOK
  <2>3. m.i_start \in Clusters \cup {0}
    <3>1. s \in Seq(Clusters) /\ m.i_start = IF s = <<>> THEN 0 ELSE s[1]  BY <1>1, <2>1, <2>2, ChainIs DEF FileOK
    <3>2. s # <<>> => s[1] \in Clusters  BY <3>1
    <3> QED BY <3>1, <3>2
  <2>4. m.nr_caches \in Len(cache[f]) .. FAT_MAX_CACHE
    <3>1. /\ m.nr_caches = Len(cache[f]) + Cardinality(Reserving(f)) /\ m.nr_caches <= FAT_MAX_CACHE
          /\ cache[f] \in Seq(EntryType)
        BY <1>1, <2>1, CacheFacts
    <3>2. Cardinality(Reserving(f)) \in Nat
      <4>1. Reserving(f) \subseteq Threads  BY DEF Reserving
      <4> QED BY <4>1, ThreadAssumption, FS_Subset, FS_CardinalityType
    <3>3. PICK a \in Nat, b \in Nat, z \in Int, M \in Nat :
                /\ a = Len(cache[f]) /\ b = Cardinality(Reserving(f)) /\ z = m.nr_caches /\ M = FAT_MAX_CACHE
        BY <2>2, <3>1, <3>2, BoundsAssumption DEF InodeType
    <3>4. z \in a .. M  BY <3>1, <3>3
    <3> QED BY <3>3, <3>4
  <2> QED BY <2>1, <2>3, <2>4
<1> QED BY <1>2, <1>3, <1>4 DEF TypeOK

LEMMA InvChainsSound ==
    ASSUME Inv
    PROVE  ChainsSound
<1>1. PICK ch : InvOf(ch)  BY DEF Inv
<1>2. \A f \in Files : /\ Chain(f) = ch[f] /\ ch[f] \in Seq(Clusters) /\ Len(ch[f]) \in Nat
                       /\ Cardinality(Range(ch[f])) = Len(ch[f]) /\ Range(ch[f]) = Elems(ch[f])
                       /\ \A k \in 1 .. Len(ch[f]) : Entry(fat, ch[f][k]) = Link(ch[f], k)
    BY <1>1, ChainIs
<1>3. PICK C : C = [f \in Files |-> Chain(f)]  OBVIOUS
<1>4. \A f \in Files : C[f] = ch[f]  BY <1>2, <1>3
<1>5. ASSUME NEW f \in Files, C[f] # <<>>
      PROVE  /\ Entry(fat, C[f][Len(C[f])]) = FAT_ENT_EOF
             /\ Cardinality(Range(C[f])) = Len(C[f])
  <2>1. Len(ch[f]) \in 1 .. Len(ch[f])  BY <1>2, <1>4, <1>5
  <2>2. Entry(fat, ch[f][Len(ch[f])]) = Link(ch[f], Len(ch[f]))  BY <1>2, <2>1
  <2> QED BY <1>2, <1>4, <2>2 DEF Link
<1>6. ASSUME NEW f \in Files, NEW g \in Files, f # g
      PROVE  Range(C[f]) \cap Range(C[g]) = {}
  <2>1. ChainOK(Owners, Entries(fat_bits, fat), ch)  BY <1>1 DEF InvOf, ChainInv
  <2>2. \A j \in 1 .. Len(ch[f]) : \A k \in 1 .. Len(ch[g]) : ch[f][j] # ch[g][k]
      BY <1>6, <2>1 DEF ChainOK, Owners
  <2>3. Elems(ch[f]) \cap Elems(ch[g]) = {}  BY <2>2 DEF Elems
  <2> QED BY <1>2, <1>4, <2>3
<1> QED BY <1>3, <1>5, <1>6 DEF ChainsSound

LEMMA InvNoClusterLost ==
    ASSUME Inv
    PROVE  NoClusterLost
<1> SUFFICES ASSUME Idle, Undamaged
             PROVE  Clusters \ FreeIn(fat) = UNION {Range(Chain(f)) : f \in Files}
    BY DEF NoClusterLost, Undamaged
<1>1. PICK ch : InvOf(ch)  BY DEF Inv
<1>2. \A f \in Files : /\ Chain(f) = ch[f] /\ Range(ch[f]) = Elems(ch[f])
                       /\ \A k \in 1 .. Len(ch[f]) :
                            ch[f][k] \in Clusters /\ Entry(fat, ch[f][k]) = Link(ch[f], k)
                       /\ ch[f] \in Seq(Clusters)
    BY <1>1, ChainIs
<1>3. ASSUME NEW c \in Clusters, c \notin FreeIn(fat)
      PROVE  \E f \in Files : c \in Range(Chain(f))
  <2>1. Entries(fat_bits, fat)[c] # FAT_ENT_FREE  BY <1>3, FreeIs DEF FreeSet
  <2>2. c \in Owned(Owners, ch)  BY <1>1, <2>1 DEF InvOf, ChainInv, NoneLost
  <2>3. PICK x \in Owners : \E k \in 1 .. Len(ch[x]) : ch[x][k] = c  BY <2>2 DEF Owned
  <2>4. x \in Files
    <3>1. \A t \in Threads : ch[t] = <<>>  BY <1>1, IdleFacts DEF Idle
    <3>2. CASE x \in Threads
      <4>1. Len(ch[x]) = 0  BY <3>1, <3>2
      <4> QED BY <2>3, <4>1
    <3> QED BY <3>2 DEF Owners
  <2> QED BY <1>2, <2>3, <2>4 DEF Elems
<1>4. ASSUME NEW f \in Files, NEW c \in Range(Chain(f))
      PROVE  c \in Clusters /\ c \notin FreeIn(fat)
  <2>1. PICK k \in 1 .. Len(ch[f]) : c = ch[f][k]  BY <1>2, <1>4 DEF Elems
  <2>2. c \in Clusters /\ Entry(fat, c) = Link(ch[f], k)  BY <1>2, <2>1
  <2>3. Link(ch[f], k) # FAT_ENT_FREE  BY <1>2, <2>1, LinkType
  <2> QED BY <2>2, <2>3 DEF FreeIn
<1> QED BY <1>3, <1>4

LEMMA InvFreeCountExact ==
    ASSUME Inv
    PROVE  FreeCountExact
<1>1. CountInv  BY DEF Inv, InvOf
<1> QED BY <1>1, FreeIs DEF CountInv, FreeCountExact

LEMMA InvMirrorCurrent ==
    ASSUME Inv
    PROVE  MirrorCurrent
<1> SUFFICES ASSUME Idle, failed \cap {"free_read", "free_mirror", "cut_mirror"} = {}
             PROVE  mirror = fat
    BY DEF MirrorCurrent
<1>1. PICK ch : InvOf(ch)  BY DEF Inv
<1>2. \A t \in Threads : Pending(fat_bits, pc[t], loc[t], ch[t]) = {}
    BY DEF Idle, Pending, MirrorPcs
<1>3. \A o \in Offsets : fat[o] = mirror[o]  BY <1>1, <1>2 DEF InvOf, MirrorInv
<1>4. fat \in [Offsets -> Byte] /\ mirror \in [Offsets -> Byte]  BY <1>1, SysFacts DEF Tables, Offsets
<1> QED BY <1>3, <1>4

LEMMA InvCacheCoherent ==
    ASSUME Inv
    PROVE  CacheCoherent
<1>1. PICK ch : InvOf(ch)  BY DEF Inv
<1>2. ASSUME NEW f \in Files, NEW e \in Range(cache[f]), NEW n \in 0 .. e.n
      PROVE  e.f + n < Len(Chain(f)) /\ Chain(f)[e.f + n + 1] = e.d + n
  <2>1. Chain(f) = ch[f] /\ Len(ch[f]) \in Nat  BY <1>1, ChainIs
  <2>2. cache[f] \in Seq(EntryType) /\ CacheOK(cache[f], ch[f], Cutting(f), msdos_i[f].i_size)
      BY <1>1, CacheFacts
  <2>3. PICK k \in 1 .. Len(cache[f]) : e = cache[f][k]  BY <1>2, <2>2 DEF Range
  <2>4. RunOK(ch[f], e)  BY <2>2, <2>3 DEF CacheOK
  <2>5. PICK a \in Nat, b \in Nat, N \in Nat, i \in Nat :
            a = e.f /\ b = e.n /\ N = Len(ch[f]) /\ i = n /\ i <= b /\ a + b < N
    <3>1. e.f \in Nat /\ e.n \in Nat /\ e.f + e.n < Len(ch[f])  BY <2>4, Zenon DEF RunOK
    <3>2. n \in Nat /\ n <= e.n  BY <1>2, <3>1
    <3> QED BY <2>1, <3>1, <3>2, Zenon
  <2>6. a + i < N  BY <2>5
  <2>7. ch[f][(a + i) + 1] = e.d + i  BY <1>2, <2>4, <2>5 DEF RunOK
  <2>8. a + i + 1 = (a + i) + 1  OBVIOUS
  <2> QED BY <2>1, <2>5, <2>6, <2>7, <2>8
<1> QED BY <1>2 DEF CacheCoherent

LEMMA InvMapsRightCluster ==
    ASSUME Inv
    PROVE  MapsRightCluster
<1>1. PICK ch : InvOf(ch)  BY DEF Inv
<1>2. Undamaged => ~fs_error  BY <1>1, SysFacts
<1>3. ASSUME NEW t \in Threads, pc[t] \in {"bmap_cluster", "mapped"}, loc[t].res = NoRes
      PROVE  loc[t].tgt < Len(Chain(loc[t].f)) /\ loc[t].dclus = Chain(loc[t].f)[loc[t].tgt + 1]
  <2>1. PICK l, f, s : l = loc[t] /\ f = l.f /\ s = ch[f]  OBVIOUS
  <2>2. pc[t] # "idle" /\ pc[t] \in RetPcs /\ Goal(pc[t], l) \notin {"chain_put"}
        /\ pc[t] \notin {"lookup", "walk"}
      BY <1>3 DEF RetPcs, Goal, GetPcs
  <2>3. PosOK(pc[t], l, s) /\ f \in Files  BY <1>1, <2>1, <2>2, ThreadFacts
  <2>4. l.res # Failed  BY <1>3, <2>1, ResDiffer
  <2>5. l.fclus = l.tgt /\ l.dclus = s[l.fclus + 1] /\ l.tgt < Len(s)
      BY <1>3, <2>1, <2>2, <2>3, <2>4 DEF PosOK
  <2>6. Chain(f) = s  BY <1>1, <2>1, <2>3, ChainIs
  <2> QED BY <2>1, <2>5, <2>6
<1> QED BY <1>2, <1>3 DEF MapsRightCluster, Undamaged

LEMMA InvAlways ==
    ASSUME "chain_mirror" \notin FailKinds
    PROVE  Spec /\ []~CacheRace => []Inv
<1>1. Init => Inv  BY InvInit
<1>2. Inv /\ ~CacheRace /\ [Next]_vars => Inv'  BY InvNext
<1> QED BY <1>1, <1>2, PTL DEF Spec

-----------------------------------------------------------------------------
(* The race cannot happen while no more than two threads are in calls on   *)
(* one file and the cache has places for two entries: a copy of an entry   *)
(* that the list no longer has, but that is still valid, was pushed out by *)
(* the other thread, and the list then stays full.                         *)
TwoOnAFile ==
    \A t, u, w \in Threads :
        /\ pc[t] # "idle" /\ pc[u] # "idle" /\ pc[w] # "idle"
        /\ loc[t].f = loc[u].f /\ loc[u].f = loc[w].f
        => t = u \/ u = w \/ t = w
CopyAt(p, l, id, c) ==
    p \in {"walk", "add"} /\ l.cid.f # -1 /\ l.cid.id = id /\ SameStart(c, l.cid) = {} =>
        Len(c) >= FAT_MAX_CACHE
CopiesInv ==
    \A t \in Threads : CopyAt(pc[t], loc[t], msdos_i[loc[t].f].cache_valid_id, cache[loc[t].f])

(* The entries of c2 begin where those of c do.                            *)
Covers(c, c2) == \A k \in 1 .. Len(c) : \E j \in 1 .. Len(c2) : c2[j].f = c[k].f
LEMMA ConcatFacts ==
    ASSUME NEW S, NEW a \in Seq(S), NEW b \in Seq(S), NEW r, r = a \o b
    PROVE  /\ Len(a) \in Nat /\ Len(b) \in Nat /\ r \in Seq(S) /\ Len(r) = Len(a) + Len(b)
           /\ \A i \in 1 .. Len(a) : r[i] = a[i]
           /\ \A i \in 1 .. Len(b) : r[Len(a) + i] = b[i]
<1>1. Len(a) \in Nat /\ Len(b) \in Nat  OBVIOUS
<1>2. r \in Seq(S) /\ Len(r) = Len(a) + Len(b)  OBVIOUS
<1>3. ASSUME NEW i \in 1 .. Len(a) PROVE r[i] = a[i]  BY ONLY <1>1, <1>3, r = a \o b, a \in Seq(S), b \in Seq(S)
<1>4. ASSUME NEW i \in 1 .. Len(b) PROVE r[Len(a) + i] = b[i]
  <2>1. Len(a) + i \in 1 .. Len(a) + Len(b) /\ ~(Len(a) + i <= Len(a)) /\ (Len(a) + i) - Len(a) = i
      BY <1>1
  <2> QED BY <1>1, <2>1
<1> QED BY <1>1, <1>2, <1>3, <1>4
LEMMA LruCovers ==
    ASSUME NEW c \in Seq(EntryType), NEW k \in 1 .. Len(c)
    PROVE  Covers(c, fat_cache_update_lru(c, k))
<1>1. PICK n \in Nat : n = Len(c)  OBVIOUS
<1>2. PICK a : a = SubSeq(c, 1, k - 1)  OBVIOUS
<1>3. PICK b : b = SubSeq(c, k + 1, Len(c))  OBVIOUS
<1>4. a \in Seq(EntryType) /\ Len(a) = k - 1 /\ \A i \in 1 .. k - 1 : a[i] = c[i]
    BY <1>2
<1>5. b \in Seq(EntryType) /\ Len(b) = n - k /\ \A i \in 1 .. n - k : b[i] = c[k + i]
  <2>1. b \in Seq(EntryType) /\ Len(b) = n - k  BY <1>1, <1>3
  <2>2. ASSUME NEW i \in 1 .. n - k PROVE b[i] = c[k + i]
      BY <1>1, <1>3
  <2> QED BY <2>1, <2>2
<1>6. PICK r : r = fat_cache_update_lru(c, k) /\ r = (<<c[k]>> \o a) \o b
    BY <1>2, <1>3 DEF fat_cache_update_lru
<1>7. <<c[k]>> \in Seq(EntryType) /\ Len(<<c[k]>>) = 1 /\ <<c[k]>>[1] = c[k]
  <2>1. c[k] \in EntryType  OBVIOUS
  <2> QED BY <2>1
<1>8. PICK d : d = <<c[k]>> \o a  OBVIOUS
<1>12. /\ d \in Seq(EntryType) /\ Len(d) = k /\ d[1] = c[k]
       /\ \A i \in 1 .. k - 1 : d[i + 1] = a[i]
  <2>1. PICK x : x = <<c[k]>> /\ x \in Seq(EntryType) /\ Len(x) = 1 /\ x[1] = c[k] /\ d = x \o a
      BY <1>7, <1>8
  <2>6. x \in Seq(EntryType) /\ a \in Seq(EntryType) /\ d = x \o a  BY <1>4, <2>1
  <2>5. /\ d \in Seq(EntryType) /\ Len(d) = Len(x) + Len(a)
        /\ \A i \in 1 .. Len(x) : d[i] = x[i]
        /\ \A i \in 1 .. Len(a) : d[Len(x) + i] = a[i]
      BY ONLY <2>6, ConcatFacts
  <2>2. d \in Seq(EntryType) /\ Len(d) = k  BY <1>4, <2>1, <2>5
  <2>3. d[1] = c[k]  BY <1>4, <2>1, <2>5
  <2>4. ASSUME NEW i \in 1 .. k - 1 PROVE d[i + 1] = a[i]
    <3>1. i \in 1 .. Len(a) /\ Len(x) + i = i + 1  BY <1>4, <2>1
    <3> QED BY <2>5, <3>1
  <2> QED BY <2>2, <2>3, <2>4
<1>9. /\ Len(r) = n
      /\ \A i \in 1 .. k : r[i] = d[i]
      /\ \A i \in 1 .. n - k : r[k + i] = b[i]
  <2>1. r = d \o b  BY <1>6, <1>8
  <2>3. d \in Seq(EntryType) /\ b \in Seq(EntryType)  BY <1>5, <1>12
  <2>2. /\ Len(r) = Len(d) + Len(b)
        /\ \A i \in 1 .. Len(d) : r[i] = d[i]
        /\ \A i \in 1 .. Len(b) : r[Len(d) + i] = b[i]
      BY ONLY <2>1, <2>3, ConcatFacts
  <2> QED BY <1>1, <1>5, <1>12, <2>2
<1>10. ASSUME NEW j \in 1 .. n PROVE \E i \in 1 .. n : r[i] = c[j]
  <2>1. CASE j = k
    <3>1. 1 \in 1 .. n /\ 1 \in 1 .. k  BY <1>1
    <3> QED BY <1>12, <1>9, <2>1, <3>1
  <2>2. CASE j < k
    <3>1. j \in 1 .. k - 1 /\ j + 1 \in 1 .. k /\ j + 1 \in 1 .. n  BY <1>1, <2>2
    <3> QED BY <1>4, <1>12, <1>9, <3>1
  <2>3. CASE j > k
    <3>1. PICK i \in 1 .. n - k : i = j - k  BY <1>1, <2>3
    <3>2. k + i = j  BY <3>1
    <3> QED BY <1>5, <1>9, <3>1, <3>2
  <2> QED BY <1>1, <2>1, <2>2, <2>3
<1>11. \A j \in 1 .. Len(c) : \E i \in 1 .. Len(r) : r[i].f = c[j].f
    BY <1>1, <1>9, <1>10
<1> QED BY <1>6, <1>11 DEF Covers

LEMMA MergeCovers ==
    ASSUME NEW c \in Seq(EntryType), NEW new, new.n \in Int, SameStart(c, new) # {}
    PROVE  /\ Covers(c, fat_cache_merge(c, new)) /\ Len(fat_cache_merge(c, new)) = Len(c)
           /\ fat_cache_merge(c, new) \in Seq(EntryType)
<1>1. PICK k \in SameStart(c, new) : k = CHOOSE j \in SameStart(c, new) : TRUE
    OBVIOUS
<1>2. k \in 1 .. Len(c) /\ c[k] \in EntryType  BY DEF SameStart
<1>3. PICK n : n \in Int /\ n = IF new.n > c[k].n THEN new.n ELSE c[k].n
  <2>1. c[k].n \in Int  BY <1>2 DEF EntryType
  <2> QED BY <2>1
<1>4. PICK e : e = [c[k] EXCEPT !.n = n]  OBVIOUS
<1>5. e \in EntryType /\ e.f = c[k].f  BY <1>2, <1>3, <1>4 DEF EntryType
<1>6. PICK c2 : c2 = [c EXCEPT ![k] = e]  OBVIOUS
<1>7. c2 \in Seq(EntryType) /\ Len(c2) = Len(c) /\ c2[k] = e /\ \A j \in 1 .. Len(c) : j # k => c2[j] = c[j]
    BY <1>2, <1>5, <1>6
<1>8. fat_cache_merge(c, new) = fat_cache_update_lru(c2, k)
  <2>1. c2 = [c EXCEPT ![k].n = IF new.n > @ THEN new.n ELSE @]
      BY <1>2, <1>3, <1>4, <1>6 DEF EntryType
  <2> QED BY <1>1, <2>1 DEF fat_cache_merge
<1>9. PICK r : r = fat_cache_update_lru(c2, k)  OBVIOUS
<1>10. Covers(c2, r) /\ Len(r) = Len(c) /\ r \in Seq(EntryType)  BY <1>2, <1>7, <1>9, LruCovers, LruFacts
<1>11. \A j \in 1 .. Len(c) : c2[j].f = c[j].f  BY <1>5, <1>7
<1>12. Covers(c, r)  BY <1>7, <1>10, <1>11 DEF Covers
<1> QED BY <1>8, <1>9, <1>10, <1>12

(* A thread keeps what holds of its copy while the list keeps the places   *)
(* where its entries begin, or the copy is made invalid.                   *)
Keeps(id, id2, c, c2) ==
    \/ id2 > id
    \/ id2 = id /\ Covers(c, c2) /\ Len(c2) >= Len(c)
    \/ id2 = id /\ Len(c2) >= FAT_MAX_CACHE
LEMMA CopyKept ==
    ASSUME NEW p, NEW l, NEW id \in Int, NEW c \in Seq(EntryType), NEW p2, NEW l2, NEW id2 \in Int,
           NEW c2 \in Seq(EntryType), CopyAt(p, l, id, c), Keeps(id, id2, c, c2),
           p2 \in {"walk", "add"} =>
                p \in {"walk", "add"} /\ l2.cid.f = l.cid.f /\ l2.cid.id = l.cid.id,
           p \in {"walk", "add"} => l.cid.id \in Int /\ l.cid.id <= id
    PROVE  CopyAt(p2, l2, id2, c2)
<1> SUFFICES ASSUME p2 \in {"walk", "add"}, l2.cid.f # -1, l2.cid.id = id2,
                    SameStart(c2, l2.cid) = {}
             PROVE  Len(c2) >= FAT_MAX_CACHE
    BY DEF CopyAt
<1>1. p \in {"walk", "add"} /\ l.cid.f = l2.cid.f /\ l.cid.id = id2 /\ id2 <= id  OBVIOUS
<1>2. CASE id2 = id /\ Covers(c, c2) /\ Len(c2) >= Len(c)
  <2>1. SameStart(c, l.cid) = {}
    <3>1. SUFFICES ASSUME NEW k \in 1 .. Len(c), c[k].f = l.cid.f PROVE FALSE  BY DEF SameStart
    <3>2. PICK j \in 1 .. Len(c2) : c2[j].f = c[k].f  BY <1>2 DEF Covers
    <3> QED BY <1>1, <3>1, <3>2 DEF SameStart
  <2>2. Len(c) >= FAT_MAX_CACHE  BY <1>1, <1>2, <2>1 DEF CopyAt
  <2> QED BY <1>2, <2>2, BoundsAssumption
<1>3. id2 > id \/ (id2 = id /\ Len(c2) >= FAT_MAX_CACHE) => Len(c2) >= FAT_MAX_CACHE  BY <1>1
<1> QED BY <1>2, <1>3 DEF Keeps
LEMMA CopiesKept ==
    ASSUME NEW ch, InvOf(ch), CopiesInv, NEW t \in Threads,
           \A u \in Threads : u # t => pc'[u] = pc[u] /\ loc'[u] = loc[u],
           \A g \in Files : msdos_i'[g].cache_valid_id \in Int /\ cache'[g] \in Seq(EntryType),
           \A u \in Threads : u # t /\ pc[u] \in {"walk", "add"} =>
                LET g == loc[u].f
                IN Keeps(msdos_i[g].cache_valid_id, msdos_i'[g].cache_valid_id, cache[g], cache'[g]),
           CopyAt(pc[t], loc[t], msdos_i[loc[t].f].cache_valid_id, cache[loc[t].f])'
    PROVE  CopiesInv'
<1>1. SUFFICES ASSUME NEW u \in Threads
               PROVE  CopyAt(pc'[u], loc'[u], msdos_i'[loc'[u].f].cache_valid_id, cache'[loc'[u].f])
    BY DEF CopiesInv
<1>2. CASE u = t  BY <1>2
<1>3. CASE u # t /\ pc[u] \in {"walk", "add"}
  <2>1. PICK l, f, m, s : l = loc[u] /\ f = l.f /\ m = msdos_i[f] /\ s = ch[f]  OBVIOUS
  <2>2. l \in LocType /\ f \in Files /\ m \in InodeType
        /\ CidOK(pc[u], l, s, m.cache_valid_id, Cutting(f), m.i_size)
      BY <1>3, <2>1, ThreadFacts
  <2>3. l.cid.id \in Int /\ m.cache_valid_id \in Int /\ l.cid.id <= m.cache_valid_id
    <3>1. l.cid \in CidType /\ m.cache_valid_id \in Nat  BY <2>2 DEF LocType, InodeType
    <3> QED BY <1>3, <2>2, <3>1 DEF CidOK, CidType
  <2>4. cache[f] \in Seq(EntryType)  BY <2>2, CacheFacts
  <2>5. CopyAt(pc[u], l, m.cache_valid_id, cache[f])  BY <2>1 DEF CopiesInv
  <2>6. Keeps(m.cache_valid_id, msdos_i'[f].cache_valid_id, cache[f], cache'[f])  BY <1>3, <2>1
  <2>7. pc'[u] = pc[u] /\ loc'[u] = l  BY <1>3, <2>1
  <2>8. msdos_i'[f].cache_valid_id \in Int /\ cache'[f] \in Seq(EntryType)  BY <2>2
  <2>9. CopyAt(pc[u], l, msdos_i'[f].cache_valid_id, cache'[f])
      BY ONLY <2>3, <2>4, <2>5, <2>6, <2>8, CopyKept
  <2> QED BY <2>1, <2>7, <2>9
<1>4. CASE u # t /\ pc[u] \notin {"walk", "add"}  BY <1>4 DEF CopyAt
<1> QED BY <1>2, <1>3, <1>4

LEMMA FileTypes ==
    ASSUME NEW ch, InvOf(ch), NEW g \in Files
    PROVE  cache[g] \in Seq(EntryType) /\ msdos_i[g] \in InodeType /\ msdos_i[g].cache_valid_id \in Int
<1>1. FileInv(ch) /\ SysOK  BY DEF InvOf
<1>2. msdos_i[g] \in InodeType  BY <1>1 DEF FileInv, FileOK
<1> QED BY <1>1, <1>2 DEF InodeType, SysOK
LEMMA KeepsSame ==
    ASSUME NEW id \in Int, NEW c \in Seq(EntryType)
    PROVE  Keeps(id, id, c, c)
BY DEF Keeps, Covers
(* A step of thread t, which changes the list of file f.                   *)
LEMMA ListStep ==
    ASSUME NEW ch, InvOf(ch), CopiesInv, NEW t \in Threads, NEW f \in Files,
           \A u \in Threads : u # t => pc'[u] = pc[u] /\ loc'[u] = loc[u],
           \A g \in Files : g # f => cache'[g] = cache[g] /\ msdos_i'[g] = msdos_i[g],
           NEW c2 \in Seq(EntryType), cache'[f] = c2,
           NEW id2 \in Int, msdos_i'[f].cache_valid_id = id2,
           (\E u \in Threads : u # t /\ pc[u] \in {"walk", "add"} /\ loc[u].f = f) =>
                Keeps(msdos_i[f].cache_valid_id, id2, cache[f], c2),
           pc'[t] \in {"walk", "add"} => loc'[t].f = f /\ CopyAt(pc'[t], loc'[t], id2, c2)
    PROVE  CopiesInv'
<1>1. \A g \in Files : cache[g] \in Seq(EntryType) /\ msdos_i[g].cache_valid_id \in Int  BY FileTypes
<1>2. \A g \in Files : msdos_i'[g].cache_valid_id \in Int /\ cache'[g] \in Seq(EntryType)  BY <1>1
<1>3. ASSUME NEW u \in Threads, u # t, pc[u] \in {"walk", "add"}, NEW g, g = loc[u].f
      PROVE  Keeps(msdos_i[g].cache_valid_id, msdos_i'[g].cache_valid_id, cache[g], cache'[g])
  <2>1. pc[u] # "idle"  BY <1>3
  <2>2. g \in Files  BY <1>3, <2>1, ThreadFacts
  <2>3. CASE g = f  BY <1>3, <2>3
  <2>4. CASE g # f
    <3>1. PICK i \in Int, d \in Seq(EntryType) : i = msdos_i[g].cache_valid_id /\ d = cache[g]
        BY <1>1, <2>2
    <3>2. msdos_i'[g].cache_valid_id = i /\ cache'[g] = d  BY <2>2, <2>4, <3>1
    <3> QED BY <3>1, <3>2, KeepsSame
  <2> QED BY <2>3, <2>4
<1>4. CopyAt(pc[t], loc[t], msdos_i[loc[t].f].cache_valid_id, cache[loc[t].f])'
  <2>1. CASE pc'[t] \in {"walk", "add"}  BY <2>1
  <2>2. CASE pc'[t] \notin {"walk", "add"}  BY <2>2 DEF CopyAt
  <2> QED BY <2>1, <2>2
<1> QED BY <1>2, <1>3, <1>4, CopiesKept
LEMMA LookupCopies ==
    ASSUME NEW ch, InvOf(ch), CopiesInv, NEW t \in Threads, Lookup(t)
    PROVE  CopiesInv'
<1>1. PICK l, f, c, id : l = loc[t] /\ f = l.f /\ c = cache[f] /\ id = msdos_i[f].cache_valid_id
    OBVIOUS
<1>2. pc[t] = "lookup" /\ pc[t] # "idle"  BY DEF Lookup
<1>3. l \in LocType /\ f \in Files  BY <1>1, <1>2, ThreadFacts
<1>4. c \in Seq(EntryType) /\ id \in Int  BY <1>1, <1>3, FileTypes
<1>5. DOMAIN pc = Threads /\ DOMAIN loc = Threads /\ DOMAIN cache = Files  BY DEF InvOf, SysOK
<1>6. PICK k : k = fat_cache_lookup(c, l.tgt)  OBVIOUS
<1>7. k \in 0 .. Len(c)  BY <1>4, <1>6, LookupHit
<1>8. msdos_i' = msdos_i /\ (\A u \in Threads : u # t => pc'[u] = pc[u] /\ loc'[u] = loc[u])
  <2>1. msdos_i' = msdos_i  BY DEF Lookup
  <2>2. \A u \in Threads : u # t => pc'[u] = pc[u]  BY <1>5 DEF Lookup, Goto
  <2>3. \A u \in Threads : u # t => loc'[u] = loc[u]  BY <1>5 DEF Lookup, Set
  <2> QED BY <2>1, <2>2, <2>3
<1>9. CASE k = 0
  <2>1. PICK d : d = cache_init(-1, -1)  OBVIOUS
  <2>2. d.f = -1  BY <2>1 DEF cache_init
  <2>3. loc' = [loc EXCEPT ![t].cid = d] /\ cache' = cache
      BY <1>1, <1>6, <1>9, <2>1 DEF Lookup, Set
  <2>4. loc'[t].cid = d /\ loc'[t].f = f
    <3>1. loc'[t] = [l EXCEPT !.cid = d]  BY <1>1, <1>5, <2>3
    <3> QED BY <1>1, <1>3, <3>1 DEF LocType
  <2>5. CopyAt(pc'[t], loc'[t], id, c)  BY <2>2, <2>4 DEF CopyAt
  <2>6. Keeps(id, id, c, c)  BY <1>4, KeepsSame
  <2> QED BY <1>1, <1>3, <1>4, <1>8, <2>3, <2>4, <2>5, <2>6, ListStep
<1>10. CASE k # 0
  <2>1. k \in 1 .. Len(c)  BY <1>4, <1>7, <1>10
  <2>2. PICK c2 : c2 = fat_cache_update_lru(c, k)  OBVIOUS
  <2>3. c2 \in Seq(EntryType) /\ Len(c2) = Len(c) /\ Covers(c, c2)  BY <1>4, <2>1, <2>2, LruFacts, LruCovers
  <2>4. PICK d : d = [id |-> msdos_i[l.f].cache_valid_id, f |-> c[k].f, d |-> c[k].d, n |-> c[k].n]
      OBVIOUS
  <2>5. d.f = c[k].f  BY <2>4
  <2>14. PICK off : off = IF c[k].f + c[k].n < l.tgt THEN c[k].n ELSE l.tgt - c[k].f
      OBVIOUS
  <2>15. PICK a, b : a = c[k].f + off /\ b = c[k].d + off  OBVIOUS
  <2>6. loc' = [loc EXCEPT ![t].fclus = a, ![t].dclus = b, ![t].cid = d]
      BY <1>1, <1>6, <1>10, <2>4, <2>14, <2>15 DEF Lookup
  <2>7. cache' = [cache EXCEPT ![f] = c2]  BY <1>1, <1>6, <1>10, <2>2 DEF Lookup
  <2>8. loc'[t].cid = d /\ loc'[t].f = f
    <3>1. loc'[t] = [l EXCEPT !.fclus = a, !.dclus = b, !.cid = d]  BY <1>1, <1>5, <2>6
    <3> QED BY <1>1, <1>3, <3>1 DEF LocType
  <2>9. PICK j \in 1 .. Len(c2) : c2[j].f = d.f  BY <2>1, <2>3, <2>5 DEF Covers
  <2>10. CopyAt(pc'[t], loc'[t], id, c2)
    <3>1. SameStart(c2, d) # {}  BY <2>3, <2>9 DEF SameStart
    <3> QED BY <2>8, <3>1 DEF CopyAt
  <2>11. Keeps(id, id, c, c2)  BY <2>3 DEF Keeps
  <2>12. cache'[f] = c2 /\ (\A g \in Files : g # f => cache'[g] = cache[g])  BY <1>3, <1>5, <2>7
  <2>13. \A g \in Files : g # f => cache'[g] = cache[g] /\ msdos_i'[g] = msdos_i[g]  BY <1>8, <2>12
  <2> QED BY <1>1, <1>3, <1>4, <1>8, <2>3, <2>8, <2>10, <2>11, <2>12, <2>13, ListStep
<1> QED BY <1>9, <1>10

LEMMA WalkCopies ==
    ASSUME NEW ch, InvOf(ch), CopiesInv, NEW t \in Threads, Walk(t)
    PROVE  CopiesInv'
<1>1. PICK l, f, c, id : l = loc[t] /\ f = l.f /\ c = cache[f] /\ id = msdos_i[f].cache_valid_id
    OBVIOUS
<1>2. pc[t] = "walk" /\ pc[t] # "idle"  BY DEF Walk
<1>3. /\ l \in LocType /\ f \in Files /\ OpOK(t, pc[t], l, msdos_i[f].i_mutex)
      /\ FileOK(ch[f], msdos_i[f])
    BY <1>1, <1>2, ThreadFacts
<1>4. c \in Seq(EntryType) /\ id \in Int /\ id # 0
    BY <1>1, <1>3, FileTypes DEF FileOK
<1>5. DOMAIN pc = Threads /\ DOMAIN loc = Threads /\ DOMAIN cache = Files  BY DEF InvOf, SysOK
<1>6. l.ret \notin {"walk", "add"}
  <2>1. l.ret \in RetPcs  BY <1>2, <1>3 DEF OpOK, GetPcs
  <2> QED BY <2>1 DEF RetPcs
<1>7. /\ msdos_i' = msdos_i /\ cache' = cache
      /\ \A u \in Threads : u # t => pc'[u] = pc[u] /\ loc'[u] = loc[u]
  <2>1. msdos_i' = msdos_i /\ cache' = cache  BY DEF Walk
  <2>2. \A u \in Threads : u # t => pc'[u] = pc[u]  BY <1>5 DEF Walk, Goto
  <2>3. \A u \in Threads : u # t => loc'[u] = loc[u]  BY <1>5 DEF Walk, Set
  <2> QED BY <2>1, <2>2, <2>3
<1>8. Keeps(id, id, c, c)  BY <1>4, KeepsSame
<1>9. CopyAt(pc[t], l, id, c)  BY <1>1 DEF CopiesInv
<1>10. ASSUME loc'[t].f = f, CopyAt(pc'[t], loc'[t], id, c) PROVE CopiesInv'
    BY <1>1, <1>3, <1>4, <1>7, <1>8, <1>10, ListStep
<1>11. CASE \E r : Set(t, "res", r)
  <2>1. PICK r : loc' = [loc EXCEPT ![t].res = r]  BY <1>11 DEF Set
  <2>2. loc'[t] = [l EXCEPT !.res = r]  BY <1>1, <1>5, <2>1
  <2>3. loc'[t].cid = l.cid /\ loc'[t].f = f  BY <1>1, <1>3, <2>2 DEF LocType
  <2>4. CopyAt(pc'[t], loc'[t], id, c)  BY <1>2, <1>9, <2>3 DEF CopyAt
  <2> QED BY <1>10, <2>3, <2>4
<1>12. ASSUME NEW nr, NEW cid,
              cid = IF cache_contiguous(l.cid, nr) THEN [l.cid EXCEPT !.n = @ + 1]
                                                   ELSE cache_init(l.fclus + 1, nr),
              loc' = [loc EXCEPT ![t].fclus = @ + 1, ![t].dclus = nr, ![t].cid = cid]
       PROVE  CopiesInv'
  <2>1. loc'[t] = [l EXCEPT !.fclus = @ + 1, !.dclus = nr, !.cid = cid]  BY <1>1, <1>5, <1>12
  <2>2. loc'[t].cid = cid /\ loc'[t].f = f  BY <1>1, <1>3, <2>1 DEF LocType
  <2>3. CASE cid = [l.cid EXCEPT !.n = @ + 1]
    <3>1. l.cid \in CidType  BY <1>3 DEF LocType
    <3>2. cid.f = l.cid.f /\ cid.id = l.cid.id  BY <2>3, <3>1 DEF CidType
    <3>3. SameStart(c, cid) = SameStart(c, l.cid)  BY <3>2 DEF SameStart
    <3>4. CopyAt(pc'[t], loc'[t], id, c)  BY <1>2, <1>9, <2>2, <3>2, <3>3 DEF CopyAt
    <3> QED BY <1>10, <2>2, <3>4
  <2>4. CASE cid = cache_init(l.fclus + 1, nr)
    <3>1. cid.id = 0  BY <2>4 DEF cache_init, FAT_CACHE_VALID
    <3>2. CopyAt(pc'[t], loc'[t], id, c)  BY <1>4, <2>2, <3>1 DEF CopyAt
    <3> QED BY <1>10, <2>2, <3>2
  <2> QED BY <1>12, <2>3, <2>4
<1>13. \/ \E r : Set(t, "res", r)
       \/ \E nr, cid : /\ cid = IF cache_contiguous(l.cid, nr) THEN [l.cid EXCEPT !.n = @ + 1]
                                                   ELSE cache_init(l.fclus + 1, nr)
                       /\ loc' = [loc EXCEPT ![t].fclus = @ + 1, ![t].dclus = nr, ![t].cid = cid]
    BY <1>1 DEF Walk
<1> QED BY <1>11, <1>12, <1>13

LEMMA AddCopies ==
    ASSUME NEW ch, InvOf(ch), CopiesInv, TwoOnAFile, NEW t \in Threads, fat_cache_add(t)
    PROVE  CopiesInv'
<1>1. PICK l, f, m, c, id : l = loc[t] /\ f = l.f /\ m = msdos_i[f] /\ c = cache[f]
                            /\ id = m.cache_valid_id
    OBVIOUS
<1>2. pc[t] = "add" /\ pc[t] # "idle"  BY DEF fat_cache_add
<1>3. l \in LocType /\ f \in Files /\ OpOK(t, pc[t], l, m.i_mutex) /\ m \in InodeType
    BY <1>1, <1>2, ThreadFacts
<1>4. c \in Seq(EntryType) /\ id \in Int /\ l.cid.n \in Int
    BY <1>1, <1>3, FileTypes DEF LocType, CidType
<1>5. DOMAIN pc = Threads /\ DOMAIN loc = Threads /\ DOMAIN cache = Files /\ DOMAIN msdos_i = Files
    BY DEF InvOf, SysOK
<1>6. l.ret \notin {"walk", "add"}
  <2>1. l.ret \in RetPcs  BY <1>2, <1>3 DEF OpOK, GetPcs
  <2> QED BY <2>1 DEF RetPcs
<1>7. loc' = loc /\ \A u \in Threads : u # t => pc'[u] = pc[u]
    BY <1>5 DEF fat_cache_add, Goto
<1>8. pc'[t] \notin {"walk", "add"}
  <2>1. pc' = [pc EXCEPT ![t] = l.ret] \/ pc' = [pc EXCEPT ![t] = "add_alloc"]
      BY <1>1 DEF fat_cache_add, Goto
  <2>2. pc'[t] \in {l.ret, "add_alloc"}  BY <1>5, <2>1
  <2> QED BY <1>6, <2>2
<1>9. msdos_i' = msdos_i \/ msdos_i' = [msdos_i EXCEPT ![f].nr_caches = @ + 1]
    BY <1>1 DEF fat_cache_add
<1>10. /\ msdos_i'[f].cache_valid_id = id
       /\ \A g \in Files : g # f => msdos_i'[g] = msdos_i[g]
  <2>1. msdos_i' = msdos_i \/ msdos_i'[f] = [m EXCEPT !.nr_caches = @ + 1]
      BY <1>1, <1>3, <1>5, <1>9
  <2>2. msdos_i'[f].cache_valid_id = id  BY <1>1, <1>3, <2>1 DEF InodeType
  <2> QED BY <1>9, <1>5, <2>2
<1>11. ASSUME NEW c2 \in Seq(EntryType), (cache' = cache /\ c2 = c) \/ cache' = [cache EXCEPT ![f] = c2],
              (\E u \in Threads : u # t /\ pc[u] \in {"walk", "add"} /\ loc[u].f = f) =>
                    Keeps(id, id, c, c2)
       PROVE  CopiesInv'
  <2>1. cache'[f] = c2 /\ \A g \in Files : g # f => cache'[g] = cache[g]  BY <1>1, <1>3, <1>5, <1>11
  <2> QED BY <1>1, <1>3, <1>4, <1>7, <1>8, <1>10, <1>11, <2>1, ListStep
<1>12. CASE cache' = cache  BY <1>4, <1>11, <1>12, KeepsSame
<1>13. CASE SameStart(c, l.cid) # {} /\ cache' = [cache EXCEPT ![f] = fat_cache_merge(c, l.cid)]
  <2>1. PICK c2 : c2 = fat_cache_merge(c, l.cid)  OBVIOUS
  <2>2. Covers(c, c2) /\ Len(c2) = Len(c) /\ c2 \in Seq(EntryType)
      BY <1>4, <1>13, <2>1, MergeCovers
  <2>3. Keeps(id, id, c, c2)  BY <1>4, <2>2 DEF Keeps
  <2> QED BY <1>11, <1>13, <2>1, <2>2, <2>3
<1>14. CASE /\ ~(m.nr_caches < FAT_MAX_CACHE)
            /\ cache' = [cache EXCEPT ![f] = <<CacheEntry(l.cid)>> \o SubSeq(c, 1, Len(c) - 1)]
  <2>1. PICK e : e = CacheEntry(l.cid)  OBVIOUS
  <2>2. e \in EntryType  BY <1>3, <2>1 DEF CacheEntry, EntryType, LocType, CidType
  <2>3. PICK b : b = SubSeq(c, 1, Len(c) - 1)  OBVIOUS
  <2>4. b \in Seq(EntryType) /\ (Len(c) > 0 => Len(b) = Len(c) - 1)
    <3>1. PICK n \in Nat : n = Len(c)  BY <1>4
    <3>2. CASE n = 0
      <4>1. 1 > n - 1 /\ b = SubSeq(c, 1, n - 1)  BY <2>3, <3>1, <3>2
      <4>2. b = <<>>  BY <1>4, <4>1
      <4>3. <<>> \in Seq(EntryType)  OBVIOUS
      <4> QED BY <3>1, <3>2, <4>2, <4>3
    <3>3. CASE n > 0
      <4>1. b = SubSeq(c, 1, n - 1) /\ n - 1 \in 0 .. n /\ 1 <= n  BY <2>3, <3>1, <3>3
      <4> QED BY <1>4, <3>1, <3>3, <4>1
    <3> QED BY <3>1, <3>2, <3>3
  <2>5. PICK c2 : c2 = <<e>> \o b  OBVIOUS
  <2>6. c2 \in Seq(EntryType) /\ Len(c2) = Len(b) + 1  BY <2>2, <2>4, <2>5
  <2>7. ASSUME NEW u \in Threads, u # t, pc[u] \in {"walk", "add"}, loc[u].f = f
        PROVE  Keeps(id, id, c, c2)
    <3>1. Reserving(f) = {}
      <4>1. SUFFICES ASSUME NEW w \in Threads, pc[w] = "add_alloc", loc[w].f = f PROVE FALSE
          BY DEF Reserving
      <4>2. pc[u] # "idle" /\ pc[w] # "idle" /\ w # t /\ w # u  BY <1>2, <2>7, <4>1
      <4> QED BY <1>1, <1>2, <2>7, <4>1, <4>2 DEF TwoOnAFile
    <3>2. m.nr_caches = Len(c) + Cardinality(Reserving(f))  BY <1>1, <1>3, CacheFacts
    <3>3. Cardinality(Reserving(f)) = 0  BY <3>1, FS_EmptySet
    <3>4. m.nr_caches \in Int /\ Len(c) \in Nat  BY <1>3, <1>4 DEF InodeType
    <3>5. Len(c) >= FAT_MAX_CACHE  BY <1>14, <3>2, <3>3, <3>4, BoundsAssumption
    <3>6. Len(c2) = Len(c)  BY <2>4, <2>6, <3>4, <3>5, BoundsAssumption
    <3> QED BY <3>5, <3>6 DEF Keeps
  <2> QED BY <1>11, <1>14, <2>1, <2>3, <2>5, <2>6, <2>7
<1> QED BY <1>1, <1>12, <1>13, <1>14 DEF fat_cache_add

LEMMA AllocCopies ==
    ASSUME NEW ch, InvOf(ch), CopiesInv, NEW t \in Threads, CacheAlloc(t)
    PROVE  CopiesInv'
<1>1. PICK l, f, m, c, id : l = loc[t] /\ f = l.f /\ m = msdos_i[f] /\ c = cache[f]
                            /\ id = m.cache_valid_id
    OBVIOUS
<1>2. pc[t] = "add_alloc" /\ pc[t] # "idle"  BY DEF CacheAlloc
<1>3. l \in LocType /\ f \in Files /\ OpOK(t, pc[t], l, m.i_mutex) /\ m \in InodeType
    BY <1>1, <1>2, ThreadFacts
<1>4. c \in Seq(EntryType) /\ id \in Int /\ l.cid.n \in Int
    BY <1>1, <1>3, FileTypes DEF LocType, CidType
<1>5. DOMAIN pc = Threads /\ DOMAIN loc = Threads /\ DOMAIN cache = Files /\ DOMAIN msdos_i = Files
    BY DEF InvOf, SysOK
<1>6. l.ret \notin {"walk", "add"}
  <2>1. l.ret \in RetPcs  BY <1>2, <1>3 DEF OpOK, GetPcs
  <2> QED BY <2>1 DEF RetPcs
<1>7. /\ loc' = loc /\ pc'[t] \notin {"walk", "add"}
      /\ \A u \in Threads : u # t => pc'[u] = pc[u]
    BY <1>1, <1>5, <1>6 DEF CacheAlloc, Goto
<1>9. msdos_i' = msdos_i \/ msdos_i' = [msdos_i EXCEPT ![f].nr_caches = @ - 1]
    BY <1>1 DEF CacheAlloc
<1>10. /\ msdos_i'[f].cache_valid_id = id
       /\ \A g \in Files : g # f => msdos_i'[g] = msdos_i[g]
  <2>1. msdos_i' = msdos_i \/ msdos_i'[f] = [m EXCEPT !.nr_caches = @ - 1]
      BY <1>1, <1>3, <1>5, <1>9
  <2>2. msdos_i'[f].cache_valid_id = id  BY <1>1, <1>3, <2>1 DEF InodeType
  <2> QED BY <1>9, <1>5, <2>2
<1>11. ASSUME NEW c2 \in Seq(EntryType), (cache' = cache /\ c2 = c) \/ cache' = [cache EXCEPT ![f] = c2],
              Keeps(id, id, c, c2)
       PROVE  CopiesInv'
  <2>1. cache'[f] = c2 /\ \A g \in Files : g # f => cache'[g] = cache[g]  BY <1>1, <1>3, <1>5, <1>11
  <2> QED BY <1>1, <1>3, <1>4, <1>7, <1>10, <1>11, <2>1, ListStep
<1>12. CASE cache' = cache  BY <1>4, <1>11, <1>12, KeepsSame
<1>13. CASE SameStart(c, l.cid) # {} /\ cache' = [cache EXCEPT ![f] = fat_cache_merge(c, l.cid)]
  <2>1. PICK c2 : c2 = fat_cache_merge(c, l.cid)  OBVIOUS
  <2>2. Covers(c, c2) /\ Len(c2) = Len(c) /\ c2 \in Seq(EntryType)
      BY <1>4, <1>13, <2>1, MergeCovers
  <2>3. Keeps(id, id, c, c2)  BY <1>4, <2>2 DEF Keeps
  <2> QED BY <1>11, <1>13, <2>1, <2>2, <2>3
<1>14. CASE cache' = [cache EXCEPT ![f] = <<CacheEntry(l.cid)>> \o c]
  <2>1. PICK e : e = CacheEntry(l.cid)  OBVIOUS
  <2>2. e \in EntryType  BY <1>3, <2>1 DEF CacheEntry, EntryType, LocType, CidType
  <2>3. PICK c2 : c2 = <<e>> \o c  OBVIOUS
  <2>4. c2 \in Seq(EntryType) /\ Len(c2) = Len(c) + 1  BY <1>4, <2>2, <2>3
  <2>5. Covers(c, c2)
    <3>1. ASSUME NEW k \in 1 .. Len(c) PROVE \E j \in 1 .. Len(c2) : c2[j].f = c[k].f
      <4>1. k + 1 \in 1 .. Len(c2) /\ k + 1 > 1 /\ (k + 1) - 1 = k  BY <1>4, <2>4
      <4>2. c2[k + 1] = c[k]  BY <1>4, <2>2, <2>3, <4>1
      <4> QED BY <4>1, <4>2
    <3> QED BY <3>1 DEF Covers
  <2>6. Keeps(id, id, c, c2)  BY <1>4, <2>4, <2>5 DEF Keeps
  <2> QED BY <1>11, <1>14, <2>1, <2>3, <2>4, <2>6
<1> QED BY <1>1, <1>12, <1>13, <1>14 DEF CacheAlloc

(* The inodes ms and the lists cs are those of the state, but for other    *)
(* fields and for files whose cache was invalidated.                       *)
HasId(m) == "cache_valid_id" \in DOMAIN m
IdsOf(ms, cs) ==
    /\ DOMAIN ms = Files /\ DOMAIN cs = Files
    /\ \A g \in Files :
        /\ HasId(ms[g]) /\ ms[g].cache_valid_id \in Int /\ cs[g] \in Seq(EntryType)
        /\ \/ ms[g].cache_valid_id = msdos_i[g].cache_valid_id /\ cs[g] = cache[g]
           \/ ms[g].cache_valid_id > msdos_i[g].cache_valid_id
LEMMA IdsNow == ASSUME NEW ch, InvOf(ch) PROVE IdsOf(msdos_i, cache)
<1>1. DOMAIN msdos_i = Files /\ DOMAIN cache = Files  BY DEF InvOf, SysOK
<1>2. ASSUME NEW g \in Files
      PROVE  HasId(msdos_i[g]) /\ msdos_i[g].cache_valid_id \in Int /\ cache[g] \in Seq(EntryType)
  <2>1. cache[g] \in Seq(EntryType) /\ msdos_i[g] \in InodeType  BY FileTypes
  <2> QED BY <2>1 DEF InodeType, HasId
<1> QED BY <1>1, <1>2 DEF IdsOf
LEMMA IdsPut ==
    ASSUME NEW ms, NEW cs, IdsOf(ms, cs), NEW f \in Files, NEW m,
           HasId(m), m.cache_valid_id = ms[f].cache_valid_id
    PROVE  IdsOf([ms EXCEPT ![f] = m], cs)
<1>1. PICK ms2 : ms2 = [ms EXCEPT ![f] = m]  OBVIOUS
<1>2. DOMAIN ms2 = Files /\ ms2[f] = m /\ \A g \in Files : g # f => ms2[g] = ms[g]
    BY <1>1 DEF IdsOf
<1>3. IdsOf(ms2, cs)  BY <1>2 DEF IdsOf
<1> QED BY <1>1, <1>3
LEMMA IdsFields ==
    ASSUME NEW ms, NEW cs, IdsOf(ms, cs), NEW f \in Files, NEW x
    PROVE  /\ IdsOf([ms EXCEPT ![f].i_mutex = x], cs)
           /\ IdsOf([ms EXCEPT ![f].i_size = x], cs)
           /\ IdsOf([ms EXCEPT ![f].mmu_private = x], cs)
           /\ IdsOf([ms EXCEPT ![f].i_start = x], cs)
           /\ IdsOf([ms EXCEPT ![f].i_blocks = x], cs)
<1>1. PICK m : m = ms[f] /\ HasId(m)  BY DEF IdsOf
<1>2. HasId([m EXCEPT !.i_mutex = x]) /\ [m EXCEPT !.i_mutex = x].cache_valid_id = m.cache_valid_id
    BY <1>1 DEF HasId
<1>3. HasId([m EXCEPT !.i_size = x]) /\ [m EXCEPT !.i_size = x].cache_valid_id = m.cache_valid_id
    BY <1>1 DEF HasId
<1>4. HasId([m EXCEPT !.mmu_private = x]) /\ [m EXCEPT !.mmu_private = x].cache_valid_id = m.cache_valid_id
    BY <1>1 DEF HasId
<1>5. HasId([m EXCEPT !.i_start = x]) /\ [m EXCEPT !.i_start = x].cache_valid_id = m.cache_valid_id
    BY <1>1 DEF HasId
<1>6. HasId([m EXCEPT !.i_blocks = x]) /\ [m EXCEPT !.i_blocks = x].cache_valid_id = m.cache_valid_id
    BY <1>1 DEF HasId
<1>7. IdsOf([ms EXCEPT ![f].i_mutex = x], cs)  BY <1>1, <1>2, IdsPut
<1>8. IdsOf([ms EXCEPT ![f].i_size = x], cs)  BY <1>1, <1>3, IdsPut
<1>9. IdsOf([ms EXCEPT ![f].mmu_private = x], cs)  BY <1>1, <1>4, IdsPut
<1>10. IdsOf([ms EXCEPT ![f].i_start = x], cs)  BY <1>1, <1>5, IdsPut
<1>11. IdsOf([ms EXCEPT ![f].i_blocks = x], cs)  BY <1>1, <1>6, IdsPut
<1> QED BY <1>7, <1>8, <1>9, <1>10, <1>11
LEMMA IdsInval ==
    ASSUME NEW ms, IdsOf(ms, cache), NEW f \in Files,
           \A g \in Files : msdos_i[g].cache_valid_id \in Int
    PROVE  IdsOf(fat_cache_inval_inode(f, ms), [cache EXCEPT ![f] = <<>>])
<1>1. PICK m : m = ms[f] /\ HasId(m) /\ m.cache_valid_id \in Int
               /\ m.cache_valid_id >= msdos_i[f].cache_valid_id
    BY DEF IdsOf
<1>2. PICK x, y : x = m.nr_caches - Len(cache[f]) /\ y = m.cache_valid_id + 1  OBVIOUS
<1>3. PICK m2 : m2 = [m EXCEPT !.nr_caches = x, !.cache_valid_id = y]  OBVIOUS
<1>4. HasId(m2) /\ m2.cache_valid_id = y  BY <1>1, <1>3 DEF HasId
<1>5. PICK ms2 : ms2 = fat_cache_inval_inode(f, ms)  OBVIOUS
<1>6. DOMAIN ms2 = Files /\ ms2[f] = m2 /\ \A g \in Files : g # f => ms2[g] = ms[g]
  <2>1. ms2 = [ms EXCEPT ![f].nr_caches = x, ![f].cache_valid_id = @ + 1]
      BY <1>1, <1>2, <1>5 DEF fat_cache_inval_inode, IdsOf
  <2>2. DOMAIN ms2 = Files /\ \A g \in Files : g # f => ms2[g] = ms[g]  BY <2>1 DEF IdsOf
  <2>3. [m EXCEPT !.nr_caches = x].cache_valid_id = m.cache_valid_id  BY <1>1 DEF HasId
  <2>4. ms2[f] = m2  BY <1>1, <1>2, <1>3, <2>1, <2>3 DEF IdsOf
  <2> QED BY <2>2, <2>4
<1>7. PICK cs : cs = [cache EXCEPT ![f] = <<>>]  OBVIOUS
<1>8. DOMAIN cs = Files /\ cs[f] = <<>> /\ \A g \in Files : g # f => cs[g] = cache[g]
    BY <1>7 DEF IdsOf
<1>9. <<>> \in Seq(EntryType)  OBVIOUS
<1>10. y \in Int /\ y > msdos_i[f].cache_valid_id  BY <1>1, <1>2
<1>11. IdsOf(ms2, cs)
  <2>1. SUFFICES ASSUME NEW g \in Files
                 PROVE  /\ HasId(ms2[g]) /\ ms2[g].cache_valid_id \in Int /\ cs[g] \in Seq(EntryType)
                        /\ \/ ms2[g].cache_valid_id = msdos_i[g].cache_valid_id /\ cs[g] = cache[g]
                           \/ ms2[g].cache_valid_id > msdos_i[g].cache_valid_id
      BY <1>6, <1>8 DEF IdsOf
  <2>2. CASE g = f  BY <1>4, <1>6, <1>8, <1>9, <1>10, <2>2
  <2>3. CASE g # f  BY <1>6, <1>8, <2>3 DEF IdsOf
  <2> QED BY <2>2, <2>3
<1> QED BY <1>5, <1>7, <1>11

Others(t) == \A u \in Threads : u # t => pc'[u] = pc[u] /\ loc'[u] = loc[u]
LEMMA Quiet ==
    ASSUME NEW ch, InvOf(ch), CopiesInv, NEW t \in Threads, Others(t),
           NEW ms, NEW cs, IdsOf(ms, cs), msdos_i' = ms, cache' = cs, pc'[t] \notin {"walk", "add"}
    PROVE  CopiesInv'
<1>1. \A g \in Files : cache[g] \in Seq(EntryType) /\ msdos_i[g].cache_valid_id \in Int  BY FileTypes
<1>2. \A g \in Files : msdos_i'[g].cache_valid_id \in Int /\ cache'[g] \in Seq(EntryType)  BY DEF IdsOf
<1>3. ASSUME NEW u \in Threads, u # t, pc[u] \in {"walk", "add"}, NEW g, g = loc[u].f
      PROVE  Keeps(msdos_i[g].cache_valid_id, msdos_i'[g].cache_valid_id, cache[g], cache'[g])
  <2>1. pc[u] # "idle"  BY <1>3
  <2>2. g \in Files  BY <1>3, <2>1, ThreadFacts
  <2>3. PICK i \in Int, d \in Seq(EntryType) : i = msdos_i[g].cache_valid_id /\ d = cache[g]
      BY <1>1, <2>2
  <2>4. CASE ms[g].cache_valid_id = i /\ cs[g] = d  BY <2>3, <2>4, KeepsSame
  <2>5. CASE ms[g].cache_valid_id > i  BY <2>3, <2>5 DEF Keeps
  <2> QED BY <2>2, <2>3, <2>4, <2>5 DEF IdsOf
<1>4. CopyAt(pc[t], loc[t], msdos_i[loc[t].f].cache_valid_id, cache[loc[t].f])'  BY DEF CopyAt
<1>5. \A u \in Threads : u # t => pc'[u] = pc[u] /\ loc'[u] = loc[u]  BY DEF Others
<1> QED BY <1>2, <1>3, <1>4, <1>5, CopiesKept

(* The end of a call, and the other ways in which a step ends.             *)
LEMMA ReturnQuiet ==
    ASSUME NEW ch, InvOf(ch), CopiesInv, NEW t \in Threads, pc[t] # "idle",
           NEW ms, IdsOf(ms, cache'), Return(t, ms)
    PROVE  CopiesInv'
<1>1. DOMAIN pc = Threads /\ DOMAIN loc = Threads  BY SysFacts
<1>2. loc[t].f \in Files  BY ThreadFacts
<1>3. pc' = [pc EXCEPT ![t] = "idle"] /\ loc' = [loc EXCEPT ![t] = NoLoc]  BY DEF Return, Goto, NoLoc
<1>4. Others(t) /\ pc'[t] = "idle"  BY <1>1, <1>3 DEF Others
<1>5. IdsOf(msdos_i', cache')
  <2>1. msdos_i' = [ms EXCEPT ![loc[t].f].i_mutex = None] \/ msdos_i' = ms  BY DEF Return
  <2>2. IdsOf([ms EXCEPT ![loc[t].f].i_mutex = None], cache')  BY <1>2, IdsFields
  <2> QED BY <2>1, <2>2
<1> QED BY <1>4, <1>5, Quiet
LEMMA MoveQuiet ==
    ASSUME NEW ch, InvOf(ch), CopiesInv, NEW t \in Threads, NEW p, Goto(t, p), p \notin {"walk", "add"},
           \A u \in Threads : u # t => loc'[u] = loc[u], IdsOf(msdos_i', cache')
    PROVE  CopiesInv'
<1>1. DOMAIN pc = Threads  BY SysFacts
<1>2. Others(t) /\ pc'[t] = p  BY <1>1 DEF Goto, Others
<1> QED BY <1>2, Quiet
LEMMA EnterQuiet ==
    ASSUME NEW ch, InvOf(ch), CopiesInv, NEW t \in Threads, NEW l, NEW n, NEW r \in RetPcs,
           fat_get_cluster(t, l, n, r), IdsOf(msdos_i', cache')
    PROVE  CopiesInv'
<1>1. DOMAIN pc = Threads /\ DOMAIN loc = Threads  BY SysFacts
<1>2. PICK p : p = (IF n = 0 THEN r ELSE "lookup")  OBVIOUS
<1>3. Goto(t, p)  BY <1>2 DEF fat_get_cluster
<1>4. p \notin {"walk", "add"}  BY <1>2 DEF RetPcs
<1>5. \A u \in Threads : u # t => loc'[u] = loc[u]  BY <1>1 DEF fat_get_cluster
<1> QED BY <1>3, <1>4, <1>5, MoveQuiet

(* The steps that keep the lists and the identifiers.                      *)
LEMMA StepQuiet ==
    ASSUME NEW ch, InvOf(ch), CopiesInv, NEW t \in Threads,
           \/ fat_alloc_clusters(t) \/ AllocMirror(t) \/ fat_free_clusters(t) \/ FreeMirror(t)
           \/ ChainPut(t) \/ ChainMirror(t) \/ ChainUndo(t)
    PROVE  CopiesInv'
<1>1. DOMAIN pc = Threads /\ DOMAIN loc = Threads  BY SysFacts
<1>2. IdsOf(msdos_i, cache)  BY IdsNow
<1>3. UNCHANGED <<msdos_i, cache>>
    BY DEF fat_alloc_clusters, AllocMirror, fat_free_clusters, FreeMirror, ChainPut, ChainMirror, ChainUndo
<1>4. IdsOf(msdos_i', cache')  BY <1>2, <1>3
<1>5. \A u \in Threads : u # t => loc'[u] = loc[u]
    BY <1>1 DEF fat_alloc_clusters, AllocMirror, fat_free_clusters, FreeMirror, ChainPut, ChainMirror,
                ChainUndo, Set
<1>6. pc[t] # "idle"
    BY DEF fat_alloc_clusters, AllocMirror, fat_free_clusters, FreeMirror, ChainPut, ChainMirror, ChainUndo
<1>7. OpOK(t, pc[t], loc[t], msdos_i[loc[t].f].i_mutex)  BY <1>6, ThreadFacts
<1>8. ASSUME NEW p, Goto(t, p), p \notin {"walk", "add"} PROVE CopiesInv'
    BY <1>4, <1>5, <1>8, MoveQuiet
<1>9. CASE fat_free_clusters(t) \/ FreeMirror(t)
  <2>1. pc[t] \in {"free", "free_mirror"}  BY <1>9 DEF fat_free_clusters, FreeMirror
  <2>2. loc[t].ret \notin {"walk", "add"}  BY <1>7, <2>1 DEF OpOK
  <2>3. Goto(t, loc[t].ret) \/ Goto(t, "free") \/ Goto(t, "free_mirror")
      BY <1>9 DEF fat_free_clusters, FreeMirror
  <2> QED BY <1>8, <2>2, <2>3
<1>10. CASE fat_alloc_clusters(t)
  <2>1. Goto(t, "write_failed") \/ Goto(t, "alloc_mirror") \/ Goto(t, "free")
      BY <1>10 DEF fat_alloc_clusters
  <2> QED BY <1>8, <2>1
<1>11. CASE AllocMirror(t) \/ ChainPut(t) \/ ChainMirror(t) \/ ChainUndo(t)
  <2>1. \/ Goto(t, "chain_add") \/ Goto(t, "free") \/ Goto(t, "chain_mirror") \/ Goto(t, "chain_undo")
        \/ Goto(t, "chain_done")
      BY <1>11 DEF AllocMirror, ChainPut, ChainMirror, ChainUndo
  <2> QED BY <1>8, <2>1
<1> QED BY <1>9, <1>10, <1>11

LEMMA ChainAddCopies ==
    ASSUME NEW ch, InvOf(ch), CopiesInv, NEW t \in Threads, fat_chain_add(t)
    PROVE  CopiesInv'
<1>1. PICK f : f = loc[t].f  OBVIOUS
<1>2. pc[t] # "idle"  BY DEF fat_chain_add
<1>3. f \in Files  BY <1>1, <1>2, ThreadFacts
<1>4. DOMAIN loc = Threads  BY SysFacts
<1>5. IdsOf(msdos_i, cache) /\ cache' = cache  BY IdsNow DEF fat_chain_add
<1>6. CASE msdos_i[f].i_start = 0
  <2>1. msdos_i' = [msdos_i EXCEPT ![f].i_start = loc[t].cl] /\ Set(t, "fclus", -1) /\ Goto(t, "chain_done")
      BY <1>1, <1>6 DEF fat_chain_add
  <2>2. IdsOf(msdos_i', cache')  BY <1>3, <1>5, <2>1, IdsFields
  <2>3. \A u \in Threads : u # t => loc'[u] = loc[u]  BY <1>4, <2>1 DEF Set
  <2>4. "chain_done" \notin {"walk", "add"}  OBVIOUS
  <2> QED BY <2>1, <2>2, <2>3, <2>4, MoveQuiet
<1>7. CASE msdos_i[f].i_start # 0
  <2>1. fat_get_cluster(t, loc[t], FAT_ENT_EOF, "chain_put") /\ msdos_i' = msdos_i
      BY <1>1, <1>7 DEF fat_chain_add
  <2>2. "chain_put" \in RetPcs /\ IdsOf(msdos_i', cache')  BY <1>5, <2>1 DEF RetPcs
  <2> QED BY <2>1, <2>2, EnterQuiet
<1> QED BY <1>6, <1>7

LEMMA ChainDoneCopies ==
    ASSUME NEW ch, InvOf(ch), CopiesInv, NEW t \in Threads, ChainDone(t)
    PROVE  CopiesInv'
<1>1. PICK l, f, m : l = loc[t] /\ f = l.f /\ m = msdos_i[f]  OBVIOUS
<1>2. pc[t] # "idle"  BY DEF ChainDone
<1>3. f \in Files  BY <1>1, <1>2, ThreadFacts
<1>4. \A g \in Files : msdos_i[g].cache_valid_id \in Int  BY FileTypes
<1>5. PICK bad \in BOOLEAN : bad = (l.fclus + 1 # m.i_blocks)  OBVIOUS
<1>6. PICK kept : kept = IF bad THEN fat_cache_inval_inode(f, msdos_i) ELSE msdos_i  OBVIOUS
<1>7. cache' = IF bad THEN [cache EXCEPT ![f] = <<>>] ELSE cache  BY <1>1, <1>5 DEF ChainDone
<1>8. IdsOf(kept, cache')
  <2>1. IdsOf(msdos_i, cache)  BY IdsNow
  <2>2. IdsOf(fat_cache_inval_inode(f, msdos_i), [cache EXCEPT ![f] = <<>>])  BY <1>3, <1>4, <2>1, IdsInval
  <2> QED BY <1>6, <1>7, <2>1, <2>2
<1>9. PICK a : a = [kept EXCEPT ![f].i_blocks = @ + l.nr]  OBVIOUS
<1>10. IdsOf(a, cache')
  <2>1. PICK x : x = kept[f].i_blocks + l.nr  OBVIOUS
  <2>2. a = [kept EXCEPT ![f].i_blocks = x]  BY <1>9, <2>1
  <2> QED BY <1>3, <1>8, <2>2, IdsFields
<1>11. PICK ms : ms = [a EXCEPT ![f].mmu_private = @ + l.nr]  OBVIOUS
<1>12. IdsOf(ms, cache')
  <2>1. PICK x : x = a[f].mmu_private + l.nr  OBVIOUS
  <2>2. ms = [a EXCEPT ![f].mmu_private = x]  BY <1>11, <2>1
  <2> QED BY <1>3, <1>10, <2>2, IdsFields
<1>13. ms = [kept EXCEPT ![f].i_blocks = @ + l.nr, ![f].mmu_private = @ + l.nr]  BY <1>9, <1>11
<1>14. CASE f \in Dirs
  <2>1. PICK x : x = ms[f].i_size + l.nr  OBVIOUS
  <2>2. PICK ms2 : ms2 = [ms EXCEPT ![f].i_size = x]  OBVIOUS
  <2>3. Return(t, ms2)  BY <1>1, <1>5, <1>6, <1>13, <1>14, <2>1, <2>2 DEF ChainDone
  <2>4. IdsOf(ms2, cache')  BY <1>3, <1>12, <2>2, IdsFields
  <2> QED BY <1>2, <2>3, <2>4, ReturnQuiet
<1>15. CASE f \notin Dirs
  <2>1. fat_get_cluster(t, l, m.mmu_private, "mapped") /\ msdos_i' = ms
      BY <1>1, <1>5, <1>6, <1>13, <1>15 DEF ChainDone
  <2>2. "mapped" \in RetPcs /\ IdsOf(msdos_i', cache')  BY <1>12, <2>1 DEF RetPcs
  <2> QED BY <2>1, <2>2, EnterQuiet
<1> QED BY <1>14, <1>15

LEMMA TruncateCopies ==
    ASSUME NEW ch, InvOf(ch), CopiesInv, NEW t \in Threads, fat_truncate_blocks(t)
    PROVE  CopiesInv'
<1>1. PICK f, skip, m : f = loc[t].f /\ skip = loc[t].skip /\ m = msdos_i[f]  OBVIOUS
<1>2. pc[t] # "idle"  BY DEF fat_truncate_blocks
<1>3. f \in Files  BY <1>1, <1>2, ThreadFacts
<1>4. (\A g \in Files : msdos_i[g].cache_valid_id \in Int) /\ DOMAIN loc = Threads  BY FileTypes, SysFacts
<1>5. IdsOf(msdos_i, cache)  BY IdsNow
<1>6. PICK cut : cut = [msdos_i EXCEPT ![f].mmu_private = IF @ > skip THEN skip ELSE @]  OBVIOUS
<1>7. IdsOf(cut, cache)
  <2>1. PICK x : x = IF msdos_i[f].mmu_private > skip THEN skip ELSE msdos_i[f].mmu_private  OBVIOUS
  <2>2. cut = [msdos_i EXCEPT ![f].mmu_private = x]  BY <1>6, <2>1
  <2> QED BY <1>3, <1>5, <2>2, IdsFields
<1>8. PICK ms, cs : ms = fat_cache_inval_inode(f, cut) /\ cs = [cache EXCEPT ![f] = <<>>]  OBVIOUS
<1>9. IdsOf(ms, cs)  BY <1>3, <1>4, <1>7, <1>8, IdsInval
<1>10. CASE Return(t, cut) /\ cache' = cache  BY <1>2, <1>7, <1>10, ReturnQuiet
<1>11. CASE Return(t, ms) /\ cache' = cs  BY <1>2, <1>9, <1>11, ReturnQuiet
<1>12. CASE /\ msdos_i' = [ms EXCEPT ![f].i_start = 0, ![f].i_blocks = 0] /\ cache' = cs
            /\ loc' = [loc EXCEPT ![t].cl = m.i_start, ![t].ret = "done", ![t].bhs = {}]
            /\ Goto(t, "free")
  <2>1. PICK a : a = [ms EXCEPT ![f].i_start = 0]  OBVIOUS
  <2>2. IdsOf(a, cs)  BY <1>3, <1>9, <2>1, IdsFields
  <2>3. PICK b : b = [a EXCEPT ![f].i_blocks = 0]  OBVIOUS
  <2>6. IdsOf(b, cs)  BY <1>3, <2>2, <2>3, IdsFields
  <2>4. IdsOf(msdos_i', cache')  BY <1>12, <2>1, <2>3, <2>6
  <2>5. (\A u \in Threads : u # t => loc'[u] = loc[u]) /\ "free" \notin {"walk", "add"}  BY <1>4, <1>12
  <2> QED BY <1>12, <2>4, <2>5, MoveQuiet
<1>13. CASE msdos_i' = ms /\ cache' = cs /\ fat_get_cluster(t, loc[t], skip - 1, "cut")
  <2>1. "cut" \in RetPcs /\ IdsOf(msdos_i', cache')  BY <1>9, <1>13 DEF RetPcs
  <2> QED BY <1>13, <2>1, EnterQuiet
<1> QED BY <1>1, <1>6, <1>8, <1>10, <1>11, <1>12, <1>13 DEF fat_truncate_blocks

LEMMA EndQuiet ==
    ASSUME NEW ch, InvOf(ch), CopiesInv, NEW t \in Threads,
           \/ Mapped(t) \/ fat_write_failed(t) \/ truncate_setsize(t) \/ Cut(t) \/ CutMirror(t)
           \/ Done(t) \/ fat_bmap_cluster(t)
    PROVE  CopiesInv'
<1>1. PICK f : f = loc[t].f  OBVIOUS
<1>2. pc[t] # "idle"
    BY DEF Mapped, fat_write_failed, truncate_setsize, Cut, CutMirror, Done, fat_bmap_cluster
<1>3. f \in Files /\ DOMAIN loc = Threads  BY <1>1, <1>2, ThreadFacts, SysFacts
<1>4. cache' = cache
    BY DEF Mapped, fat_write_failed, truncate_setsize, Cut, CutMirror, Done, fat_bmap_cluster
<1>5. IdsOf(msdos_i, cache')  BY <1>4, IdsNow
<1>6. ASSUME Return(t, msdos_i) PROVE CopiesInv'  BY <1>2, <1>5, <1>6, ReturnQuiet
<1>7. ASSUME NEW p \in {"write_failed", "truncate_blocks", "unmap", "cut_mirror", "free"}, Goto(t, p),
             IdsOf(msdos_i', cache'), \A u \in Threads : u # t => loc'[u] = loc[u]
      PROVE  CopiesInv'
    BY <1>7, MoveQuiet
<1>8. CASE Mapped(t)
  <2>1. CASE Return(t, [msdos_i EXCEPT ![f].i_size = msdos_i[f].mmu_private])
    <3>1. PICK ms : ms = [msdos_i EXCEPT ![f].i_size = msdos_i[f].mmu_private]  OBVIOUS
    <3>2. IdsOf(ms, cache')  BY <1>3, <1>5, <3>1, IdsFields
    <3> QED BY <1>2, <2>1, <3>1, <3>2, ReturnQuiet
  <2>2. CASE Goto(t, "write_failed") /\ UNCHANGED <<msdos_i, loc>>  BY <1>5, <1>7, <2>2
  <2> QED BY <1>1, <1>8, <2>1, <2>2 DEF Mapped
<1>9. CASE fat_write_failed(t)
  <2>1. CASE Set(t, "skip", msdos_i[f].i_size) /\ Goto(t, "truncate_blocks") /\ UNCHANGED msdos_i
    <3>1. \A u \in Threads : u # t => loc'[u] = loc[u]  BY <1>3, <2>1 DEF Set
    <3> QED BY <1>5, <1>7, <2>1, <3>1
  <2> QED BY <1>1, <1>6, <1>9, <2>1 DEF fat_write_failed
<1>10. CASE truncate_setsize(t)
  <2>1. IdsOf(msdos_i', cache')
    <3>1. PICK ms : ms = [msdos_i EXCEPT ![f].i_size = loc[t].skip]  OBVIOUS
    <3>2. IdsOf(ms, cache')  BY <1>3, <1>5, <3>1, IdsFields
    <3>3. msdos_i' = ms \/ msdos_i' = msdos_i  BY <1>1, <1>10, <3>1 DEF truncate_setsize
    <3> QED BY <1>5, <3>2, <3>3
  <2>2. (Goto(t, "unmap") \/ Goto(t, "truncate_blocks")) /\ loc' = loc  BY <1>10 DEF truncate_setsize
  <2> QED BY <1>7, <2>1, <2>2
<1>11. CASE Cut(t)
  <2>1. CASE msdos_i' = msdos_i /\ Goto(t, "cut_mirror") /\ \E a, b : loc' = [loc EXCEPT ![t].cl = a, ![t].bhs = b]
    <3>1. \A u \in Threads : u # t => loc'[u] = loc[u]  BY <1>3, <2>1
    <3> QED BY <1>5, <1>7, <2>1, <3>1
  <2>2. Return(t, msdos_i) \/ (msdos_i' = msdos_i /\ Goto(t, "cut_mirror")
                              /\ \E a, b : loc' = [loc EXCEPT ![t].cl = a, ![t].bhs = b])
    <3>1. PICK a, b : a = Entry(fat, loc[t].dclus) /\ b = Bhs({loc[t].dclus})  OBVIOUS
    <3>2. Return(t, msdos_i) \/ (msdos_i' = msdos_i /\ Goto(t, "cut_mirror")
                              /\ loc' = [loc EXCEPT ![t].cl = a, ![t].bhs = b])
        BY <1>11, <3>1 DEF Cut
    <3> QED BY <3>2
  <2> QED BY <1>6, <2>1, <2>2
<1>12. CASE CutMirror(t)
  <2>1. CASE /\ msdos_i' = [msdos_i EXCEPT ![f].i_blocks = loc[t].skip]
             /\ loc' = [loc EXCEPT ![t].ret = "done", ![t].bhs = {}] /\ Goto(t, "free")
    <3>1. PICK ms : ms = [msdos_i EXCEPT ![f].i_blocks = loc[t].skip]  OBVIOUS
    <3>2. IdsOf(ms, cache')  BY <1>3, <1>5, <3>1, IdsFields
    <3>3. \A u \in Threads : u # t => loc'[u] = loc[u]  BY <1>3, <2>1
    <3> QED BY <1>7, <2>1, <3>1, <3>2, <3>3
  <2> QED BY <1>1, <1>6, <1>12, <2>1 DEF CutMirror
<1>13. CASE Done(t) \/ fat_bmap_cluster(t)  BY <1>6, <1>13 DEF Done, fat_bmap_cluster
<1> QED BY <1>8, <1>9, <1>10, <1>11, <1>12, <1>13

LEMMA CallQuiet ==
    ASSUME NEW ch, InvOf(ch), CopiesInv, NEW t \in Threads, NEW f \in Files,
           \/ \E nr \in 1 .. 2 : fat_write_begin(t, f, nr)
           \/ \E n \in 0 .. max_cluster : fat_setattr(t, f, n)
           \/ \E c \in 0 .. max_cluster, op \in {"read", "bmap"} : fat_bmap(t, f, c, op)
    PROVE  CopiesInv'
<1>1. DOMAIN loc = Threads  BY SysFacts
<1>2. cache' = cache  BY DEF fat_write_begin, fat_setattr, fat_bmap, Call
<1>3. IdsOf(msdos_i, cache')  BY <1>2, IdsNow
<1>4. PICK ms : ms = [msdos_i EXCEPT ![f].i_mutex = t]  OBVIOUS
<1>5. IdsOf(ms, cache')  BY <1>3, <1>4, IdsFields
<1>6. ASSUME NEW nr \in 1 .. 2, fat_write_begin(t, f, nr) PROVE CopiesInv'
  <2>1. msdos_i' = ms /\ Goto(t, "alloc") /\ "alloc" \notin {"walk", "add"}
      BY <1>4, <1>6 DEF fat_write_begin
  <2>2. \A u \in Threads : u # t => loc'[u] = loc[u]  BY <1>1, <1>6 DEF fat_write_begin
  <2> QED BY <1>5, <2>1, <2>2, MoveQuiet
<1>7. ASSUME NEW n \in 0 .. max_cluster, fat_setattr(t, f, n) PROVE CopiesInv'
  <2>1. msdos_i' = ms /\ Goto(t, "down_write") /\ "down_write" \notin {"walk", "add"}
      BY <1>4, <1>7 DEF fat_setattr
  <2>2. \A u \in Threads : u # t => loc'[u] = loc[u]  BY <1>1, <1>7 DEF fat_setattr
  <2> QED BY <1>5, <2>1, <2>2, MoveQuiet
<1>8. ASSUME NEW c \in 0 .. max_cluster, NEW op \in {"read", "bmap"}, fat_bmap(t, f, c, op) PROVE CopiesInv'
  <2>1. msdos_i' = msdos_i /\ fat_get_cluster(t, NewLoc(op, f), c, "bmap_cluster")
        /\ "bmap_cluster" \in RetPcs
      BY <1>8 DEF fat_bmap, RetPcs
  <2> QED BY <1>3, <2>1, EnterQuiet
<1> QED BY <1>6, <1>7, <1>8

LEMMA CopiesNext ==
    ASSUME NEW ch, InvOf(ch), CopiesInv, TwoOnAFile, [Next]_vars
    PROVE  CopiesInv'
<1>1. ASSUME NEW t \in Threads, Step(t) PROVE CopiesInv'
  <2>1. CASE Lookup(t) \/ Walk(t) \/ fat_cache_add(t) \/ CacheAlloc(t)
      BY <2>1, LookupCopies, WalkCopies, AddCopies, AllocCopies
  <2>2. CASE fat_chain_add(t) \/ ChainDone(t) \/ fat_truncate_blocks(t)
      BY <2>2, ChainAddCopies, ChainDoneCopies, TruncateCopies
  <2>3. CASE \/ fat_alloc_clusters(t) \/ AllocMirror(t) \/ fat_free_clusters(t) \/ FreeMirror(t)
             \/ ChainPut(t) \/ ChainMirror(t) \/ ChainUndo(t)
      BY <2>3, StepQuiet
  <2>4. CASE \/ Mapped(t) \/ fat_write_failed(t) \/ truncate_setsize(t) \/ Cut(t) \/ CutMirror(t)
             \/ Done(t) \/ fat_bmap_cluster(t)
      BY <2>4, EndQuiet
  <2> QED BY <1>1, <2>1, <2>2, <2>3, <2>4 DEF Step
<1>2. ASSUME NEW t \in Threads, NEW f \in Files,
             \/ \E nr \in 1 .. 2 : fat_write_begin(t, f, nr)
             \/ \E n \in 0 .. max_cluster : fat_setattr(t, f, n)
             \/ \E c \in 0 .. max_cluster, op \in {"read", "bmap"} : fat_bmap(t, f, c, op)
      PROVE  CopiesInv'
    BY <1>2, CallQuiet
<1>3. CASE fat_count_free_clusters \/ Finished \/ UNCHANGED vars
  <2>1. UNCHANGED <<pc, loc, msdos_i, cache>>  BY <1>3 DEF fat_count_free_clusters, Finished, vars
  <2> QED BY <2>1 DEF CopiesInv
<1> QED BY <1>1, <1>2, <1>3 DEF Next

(* In the state of these invariants there is no race.                      *)
LEMMA NoRace ==
    ASSUME NEW ch, InvOf(ch), CopiesInv, TwoOnAFile, FAT_MAX_CACHE > 1
    PROVE  ~CacheRace
<1>1. SUFFICES ASSUME NEW t \in Threads, NEW l, l = loc[t], NEW f, f = l.f, NEW m, m = msdos_i[f],
                      pc[t] = "add", l.cid.f # -1, SameStart(cache[f], l.cid) = {},
                      l.cid.id \in {FAT_CACHE_VALID, m.cache_valid_id},
                      IF m.nr_caches < FAT_MAX_CACHE THEN l.cid.id # FAT_CACHE_VALID ELSE cache[f] = <<>>
               PROVE  FALSE
    BY DEF CacheRace
<1>2. f \in Files /\ m \in InodeType  BY <1>1, ThreadFacts
<1>3. PICK n, R : n \in Nat /\ n = Len(cache[f]) /\ R = Reserving(f)  BY <1>2, CacheFacts
<1>4. IsFiniteSet(R)
  <2>1. R \subseteq Threads  BY <1>3 DEF Reserving
  <2> QED BY <2>1, ThreadAssumption, FS_Subset
<1>5. Cardinality(R) \in Nat /\ m.nr_caches = n + Cardinality(R) /\ m.nr_caches \in Int
    BY <1>1, <1>2, <1>3, <1>4, CacheFacts, FS_CardinalityType DEF InodeType
<1>6. CASE m.nr_caches < FAT_MAX_CACHE
  <2>1. CopyAt(pc[t], l, m.cache_valid_id, cache[f])  BY <1>1 DEF CopiesInv
  <2>2. l.cid.id = m.cache_valid_id  BY <1>1, <1>6
  <2>3. n >= FAT_MAX_CACHE  BY <1>1, <1>3, <2>1, <2>2 DEF CopyAt
  <2> QED BY <1>3, <1>5, <1>6, <2>3, BoundsAssumption
<1>7. CASE ~(m.nr_caches < FAT_MAX_CACHE)
  <2>1. n = 0  BY <1>1, <1>3, <1>7
  <2>2. Cardinality(R) > 1  BY <1>5, <1>7, <2>1, BoundsAssumption
  <2>3. PICK u : R \subseteq {u}
    <3>1. CASE R = {}  BY <3>1
    <3>2. CASE R # {}
      <4>1. PICK u \in R : TRUE  BY <3>2
      <4>2. ASSUME NEW w \in R PROVE w = u
        <5>1. /\ u \in Threads /\ w \in Threads /\ pc[u] = "add_alloc" /\ pc[w] = "add_alloc"
              /\ loc[u].f = f /\ loc[w].f = f
            BY <1>3 DEF Reserving
        <5> QED BY <1>1, <5>1 DEF TwoOnAFile
      <4> QED BY <4>2
    <3> QED BY <3>1, <3>2
  <2>4. Cardinality(R) <= 1
    <3>1. IsFiniteSet({u}) /\ Cardinality({u}) = 1  BY FS_Singleton
    <3>2. Cardinality(R) <= Cardinality({u})  BY <2>3, <3>1, FS_Subset
    <3> QED BY <3>1, <3>2
  <2> QED BY <1>5, <2>2, <2>4
<1> QED BY <1>6, <1>7

LEMMA NoRaceAlways ==
    ASSUME "chain_mirror" \notin FailKinds, FAT_MAX_CACHE > 1
    PROVE  Spec /\ []TwoOnAFile => []~CacheRace
<1>1. Init => Inv /\ CopiesInv
  <2>1. Init => CopiesInv
    <3>1. SUFFICES ASSUME Init, NEW t \in Threads
                   PROVE  CopyAt(pc[t], loc[t], msdos_i[loc[t].f].cache_valid_id, cache[loc[t].f])
        BY DEF CopiesInv
    <3>2. pc[t] = "idle"  BY <3>1 DEF Init
    <3> QED BY <3>2 DEF CopyAt
  <2> QED BY <2>1, InvInit
<1>2. Inv /\ CopiesInv /\ TwoOnAFile => ~CacheRace  BY NoRace DEF Inv
<1>3. Inv /\ CopiesInv /\ TwoOnAFile /\ [Next]_vars => (Inv /\ CopiesInv)'
  <2>1. ASSUME Inv, CopiesInv, TwoOnAFile, [Next]_vars PROVE Inv'  BY <1>2, <2>1, InvNext
  <2>2. ASSUME Inv, CopiesInv, TwoOnAFile, [Next]_vars PROVE CopiesInv'  BY <2>2, CopiesNext DEF Inv
  <2> QED BY <2>1, <2>2
<1> QED BY <1>1, <1>2, <1>3, PTL DEF Spec

-----------------------------------------------------------------------------
(* The theorems.  They do not cover a failure of the copy of the entry     *)
(* that links a chain (the clusters are then freed although they are       *)
(* linked), nor the race of fat_cache_add.                                 *)

(* The fields keep their types; an inode never counts fewer cache entries  *)
(* than it has, nor more than FAT_MAX_CACHE, although fat_cache_add        *)
(* reserves a place before it has the lock to use it.                      *)
THEOREM TypeOKHolds ==
    ASSUME "chain_mirror" \notin FailKinds
    PROVE  Spec /\ []~CacheRace => []TypeOK
<1>1. Inv => TypeOK  BY InvTypeOK
<1> QED BY <1>1, InvAlways, PTL

(* No cluster is in two chains or twice in one, and every chain ends,      *)
(* whatever fat_alloc_clusters, fat_chain_add, fat_free and                *)
(* fat_free_clusters of several threads are doing, and whatever fails.     *)
THEOREM ChainsSoundHolds ==
    ASSUME "chain_mirror" \notin FailKinds
    PROVE  Spec /\ []~CacheRace => []ChainsSound
<1>1. Inv => ChainsSound  BY InvChainsSound
<1> QED BY <1>1, InvAlways, PTL

(* What fat_alloc_clusters takes is linked or given back: with no call     *)
(* under way every cluster in use belongs to a file.                       *)
THEOREM NoClusterLostHolds ==
    ASSUME "chain_mirror" \notin FailKinds
    PROVE  Spec /\ []~CacheRace => []NoClusterLost
<1>1. Inv => NoClusterLost  BY InvNoClusterLost
<1> QED BY <1>1, InvAlways, PTL

(* A count that fat_count_free_clusters made stays exact.                  *)
THEOREM FreeCountExactHolds ==
    ASSUME "chain_mirror" \notin FailKinds
    PROVE  Spec /\ []~CacheRace => []FreeCountExact
<1>1. Inv => FreeCountExact  BY InvFreeCountExact
<1> QED BY <1>1, InvAlways, PTL

(* fat_mirror_bhs, which runs after fat_lock is released, leaves the copy  *)
(* of the FAT like the FAT once all calls have returned.                   *)
THEOREM MirrorCurrentHolds ==
    ASSUME "chain_mirror" \notin FailKinds
    PROVE  Spec /\ []~CacheRace => []MirrorCurrent
<1>1. Inv => MirrorCurrent  BY InvMirrorCurrent
<1> QED BY <1>1, InvAlways, PTL

(* What fat_cache_add puts into the cache of an inode stays true of its    *)
(* chain until the entry is dropped, while others truncate and extend it,  *)
(* as long as no more than two of any number of threads are in calls on a  *)
(* file at a time: two cannot bring about the race of fat_cache_add.       *)
THEOREM CacheCoherentHolds ==
    ASSUME "chain_mirror" \notin FailKinds, FAT_MAX_CACHE > 1
    PROVE  Spec /\ []TwoOnAFile => []CacheCoherent
<1>1. Inv => CacheCoherent  BY InvCacheCoherent
<1>2. Spec /\ []TwoOnAFile => []~CacheRace  BY NoRaceAlways
<1>3. Spec /\ []~CacheRace => []Inv  BY InvAlways
<1> QED BY <1>1, <1>2, <1>3, PTL

(* Under the same conditions fat_get_cluster gives fat_bmap the cluster of *)
(* the chain, and the checks the code makes of itself do not fail.         *)
THEOREM MapsRightClusterHolds ==
    ASSUME "chain_mirror" \notin FailKinds, FAT_MAX_CACHE > 1
    PROVE  Spec /\ []TwoOnAFile => []MapsRightCluster
<1>1. Inv => MapsRightCluster  BY InvMapsRightCluster
<1>2. Spec /\ []TwoOnAFile => []~CacheRace  BY NoRaceAlways
<1>3. Spec /\ []~CacheRace => []Inv  BY InvAlways
<1> QED BY <1>1, <1>2, <1>3, PTL

(* At most two calls on a file at a time cannot meet the race of           *)
(* fat_cache_add.                                                          *)
THEOREM NoCacheRace ==
    ASSUME "chain_mirror" \notin FailKinds, FAT_MAX_CACHE > 1
    PROVE  Spec /\ []TwoOnAFile => []~CacheRace
BY NoRaceAlways

(* With two threads all of the invariants hold, whatever their number of   *)
(* calls and the failures they meet.                                       *)
THEOREM TwoThreadsSafe ==
    ASSUME "chain_mirror" \notin FailKinds, FAT_MAX_CACHE > 1,
           \A t, u, w \in Threads : t = u \/ u = w \/ t = w
    PROVE  Spec => [](/\ TypeOK /\ ChainsSound /\ NoClusterLost /\ FreeCountExact
                     /\ MirrorCurrent /\ CacheCoherent /\ MapsRightCluster)
<1>1. TwoOnAFile  BY DEF TwoOnAFile
<1>2. Spec /\ []TwoOnAFile => []~CacheRace  BY NoRaceAlways
<1>3. Spec /\ []~CacheRace => []Inv  BY InvAlways
<1>4. Inv => /\ TypeOK /\ ChainsSound /\ NoClusterLost /\ FreeCountExact
             /\ MirrorCurrent /\ CacheCoherent /\ MapsRightCluster
    BY InvTypeOK, InvChainsSound, InvNoClusterLost, InvFreeCountExact, InvMirrorCurrent,
       InvCacheCoherent, InvMapsRightCluster
<1> QED BY <1>1, <1>2, <1>3, <1>4, PTL
=============================================================================
