--------------------------------- MODULE Fat --------------------------------
(***************************************************************************)
(* The cluster chains of vfat: allocation and freeing of clusters          *)
(* (fatent.c), the cache of each inode that finds a cluster of the chain   *)
(* (cache.c), the growth of a chain (misc.c, inode.c) and truncation       *)
(* (file.c), called by threads that interleave.                            *)
(*                                                                         *)
(* The locks are the inode's i_mutex (writes and truncations),             *)
(* truncate_lock (a truncation against bmap), the lock of the page that is *)
(* read, fat_lock, and cache_lru_lock, which is only held within one       *)
(* action.  A block and a page are a cluster (sec_per_clus is 1), and      *)
(* sizes count clusters.  Calls may fail where the code handles it.        *)
(***************************************************************************)
EXTENDS FatEnt, Sequences, FiniteSets, Functions

CONSTANTS
    Threads, Files,
    Dirs,            \* the files that are directories
    None,            \* no thread
    Volumes,         \* the volumes that may be mounted
    FAT_MAX_CACHE,   \* bound of the entries of an inode's cache
    MAX_BUF_PER_PAGE,   \* bound of the blocks of a batch
    FailKinds,       \* the calls that may fail
    MaxCalls, MaxFails   \* bounds of this instance

VARIABLES
    fat_bits,        \* sbi->fat_bits
    fat, mirror,     \* the bytes of the first FAT and of its copy
    fat_lock,        \* the holder of sbi->fat_lock
    free_clusters, free_clus_valid, prev_free,   \* the fields of sbi
    msdos_i,         \* the fields of each inode
    cache,           \* cache_lru of each inode, the last used entry first
    pc, loc,         \* the program counter and the locals of each thread
    fs_error,        \* fat_fs_error was called, or a BUG_ON met
    failed,          \* the kinds of failures that happened
    calls, fails     \* what is left of the bounds

sbi_vars == <<fat_lock, free_clusters, free_clus_valid, prev_free>>
env_vars == <<fat_bits, calls>>
vars == <<fat_bits, fat, mirror, sbi_vars, msdos_i, cache, pc, loc, fs_error, failed, calls, fails>>

Offsets == OffsetsOf(fat_bits)
FAT_CACHE_VALID == 0
Unknown == -1    \* free_clusters is not known
NoRes == [ok |-> TRUE, eof |-> FALSE]
Failed == [ok |-> FALSE, eof |-> FALSE]
AtEof == [ok |-> TRUE, eof |-> TRUE]

Entry(tab, c) == ent_get(fat_bits, tab, Pos(fat_bits, c))
Put(tab, c, new) == ent_put(fat_bits, tab, Pos(fat_bits, c), new)
FreeIn(tab) == {c \in Clusters : Entry(tab, c) = FAT_ENT_FREE}

(* The chain that begins at cluster c, cut after as many steps as there    *)
(* are clusters.                                                           *)
ChainFrom(tab, c) ==
    LET ch[k \in 0 .. max_cluster - FAT_START_ENT] ==
            IF k = 0 THEN <<>>
            ELSE LET s == ch[k - 1]
                     d == IF s = <<>> THEN c ELSE Entry(tab, s[Len(s)])
                 IN IF d \in Clusters THEN Append(s, d) ELSE s
    IN ch[max_cluster - FAT_START_ENT]
Chain(f) == ChainFrom(fat, msdos_i[f].i_start)

ASSUME ThreadAssumption ==
    /\ None \notin Threads /\ Threads \cap Files = {} /\ IsFiniteSet(Threads)
    /\ Dirs \subseteq Files
ASSUME BoundsAssumption ==
    /\ FAT_MAX_CACHE \in Nat \ {0}
    /\ MaxCalls \in Nat /\ MaxFails \in Nat
(* What fat_fill_super leaves, on a volume in order: no more clusters than *)
(* its entries can tell from the end of a chain (a FAT32 volume of exactly *)
(* MAX_FAT32 clusters has one more), chains that are disjoint and end, and *)
(* no other cluster in use.  The count of free clusters may be wrong, but  *)
(* not above all of them.                                                  *)
ASSUME VolumesAssumption ==
    \A v \in Volumes :
        LET entry(c) == ent_get(v.bits, v.fat, Pos(v.bits, c))
        IN /\ v.bits \in {12, 16, 32} /\ max_cluster <= BadEntry(v.bits)
           /\ v.fat \in Tables(v.bits)
           /\ v.chains \in [Files -> Seq(Clusters)]
           /\ \A f \in Files : \A k \in DOMAIN v.chains[f] :
                /\ entry(v.chains[f][k]) = IF k = Len(v.chains[f]) THEN FAT_ENT_EOF
                                            ELSE v.chains[f][k + 1]
                /\ \A g \in Files : \A j \in DOMAIN v.chains[g] :
                        v.chains[f][k] = v.chains[g][j] => f = g /\ k = j
           /\ \A c \in Clusters :
                entry(c) = FAT_ENT_FREE \/ \E f \in Files : c \in Range(v.chains[f])
           /\ v.free_clusters \in Unknown .. max_cluster - FAT_START_ENT
           /\ v.next_cluster \in Clusters

Goto(t, l) == pc' = [pc EXCEPT ![t] = l]
Set(t, field, v) == loc' = [loc EXCEPT ![t][field] = v]
Fails(kind) ==
    /\ kind \in FailKinds /\ fails > 0
    /\ fails' = fails - 1 /\ failed' = failed \cup {kind}
Works == UNCHANGED <<fails, failed>>

(* The end of a call: the locks that the thread holds are released.        *)
Return(t, ms) ==
    /\ Goto(t, "idle")
    /\ loc' = [loc EXCEPT ![t] = [op |-> "none"]]
    /\ msdos_i' = IF loc[t].op \in {"write", "truncate"}
                  THEN [ms EXCEPT ![loc[t].f].i_mutex = None] ELSE ms

(* fat_mirror_bhs: the blocks of the FAT tab are copied as they are now.   *)
fat_mirror_bhs(tab, bhs) ==
    mirror' = [o \in Offsets |-> IF o \div s_blocksize \in bhs THEN tab[o] ELSE mirror[o]]
Bhs(cs) == UNION {BhsOf(Pos(fat_bits, c)) : c \in cs}
-----------------------------------------------------------------------------
(* fat_cache_lookup: the entry of the cache c that is used to find fclus,  *)
(* or 0.  The list is searched until an entry reaches fclus.               *)
fat_cache_lookup(c, fclus) ==
    LET hit[k \in 0 .. Len(c)] ==
            IF k = 0 THEN 0
            ELSE LET h == hit[k - 1]
                     hf == IF h = 0 THEN 0 ELSE c[h].f
                 IN IF (h # 0 /\ hf + c[h].n >= fclus) \/ ~(c[k].f <= fclus /\ hf < c[k].f)
                    THEN h ELSE k
    IN hit[Len(c)]

fat_cache_update_lru(c, k) == <<c[k]>> \o SubSeq(c, 1, k - 1) \o SubSeq(c, k + 1, Len(c))

(* fat_cache_merge: the entry that begins at the same cluster of the file  *)
(* takes the longer run; a BUG_ON if it is at another place of the disk.   *)
SameStart(c, new) == {k \in DOMAIN c : c[k].f = new.f}
fat_cache_merge(c, new) ==
    LET k == CHOOSE k \in SameStart(c, new) : TRUE
    IN fat_cache_update_lru(
            [c EXCEPT ![k].n = IF new.n > @ THEN new.n ELSE @], k)
MergeBug(c, new) == \E k \in SameStart(c, new) : c[k].d # new.d
CacheEntry(cid) == [f |-> cid.f, d |-> cid.d, n |-> cid.n]

cache_init(fclus, dclus) == [id |-> FAT_CACHE_VALID, f |-> fclus, d |-> dclus, n |-> 0]
cache_contiguous(cid, dclus) == cid.d + cid.n + 1 = dclus

(* fat_get_cluster, which every caller enters here: the thread's locals    *)
(* are l, and it goes on at ret.                                           *)
fat_get_cluster(t, l, cluster, ret) ==
    /\ loc' = [loc EXCEPT ![t] = [l EXCEPT !.tgt = cluster, !.ret = ret, !.res = NoRes,
                                  !.fclus = 0, !.dclus = msdos_i[l.f].i_start]]
    /\ Goto(t, IF cluster = 0 THEN ret ELSE "lookup")

Lookup(t) ==
    LET l == loc[t]
        c == cache[l.f]
        k == fat_cache_lookup(c, l.tgt)
        off == IF c[k].f + c[k].n < l.tgt THEN c[k].n ELSE l.tgt - c[k].f
        fclus == IF k = 0 THEN 0 ELSE c[k].f + off
    IN /\ pc[t] = "lookup"
       /\ IF k = 0
          THEN Set(t, "cid", cache_init(-1, -1)) /\ UNCHANGED cache
          ELSE /\ loc' = [loc EXCEPT ![t].fclus = fclus, ![t].dclus = c[k].d + off,
                            ![t].cid = [id |-> msdos_i[l.f].cache_valid_id, f |-> c[k].f,
                                        d |-> c[k].d, n |-> c[k].n]]
               /\ cache' = [cache EXCEPT ![l.f] = fat_cache_update_lru(@, k)]
       /\ Goto(t, IF fclus < l.tgt THEN "walk" ELSE "add")
       /\ UNCHANGED <<env_vars, fat, mirror, sbi_vars, msdos_i, fs_error>> /\ Works

(* One turn of the loop of fat_get_cluster: fat_ent_read of dclus.         *)
Walk(t) ==
    LET l == loc[t]
        nr == Entry(fat, l.dclus)
        cid == IF cache_contiguous(l.cid, nr) THEN [l.cid EXCEPT !.n = @ + 1]
                                              ELSE cache_init(l.fclus + 1, nr)
    IN /\ pc[t] = "walk"
       /\ \/ /\ nr = FAT_ENT_FREE
             /\ Set(t, "res", Failed) /\ Goto(t, l.ret) /\ fs_error' = TRUE /\ Works
          \/ /\ nr = FAT_ENT_EOF
             /\ Set(t, "res", AtEof) /\ Goto(t, "add") /\ UNCHANGED fs_error /\ Works
          \/ /\ nr \in Clusters
             /\ loc' = [loc EXCEPT ![t].fclus = @ + 1, ![t].dclus = nr, ![t].cid = cid]
             /\ Goto(t, IF l.fclus + 1 < l.tgt THEN "walk" ELSE "add")
             /\ UNCHANGED fs_error /\ Works
          \/ /\ Fails("walk_read") /\ Set(t, "res", Failed) /\ Goto(t, l.ret)
             /\ UNCHANGED fs_error
       /\ UNCHANGED <<env_vars, fat, mirror, sbi_vars, msdos_i, cache>>

(* fat_cache_add, up to the allocation of a new entry: a place is reserved *)
(* in nr_caches, or the entry used least recently is taken.                *)
fat_cache_add(t) ==
    LET l == loc[t]
        m == msdos_i[l.f]
        c == cache[l.f]
    IN /\ pc[t] = "add"
       /\ IF l.cid.f = -1 \/ (l.cid.id # FAT_CACHE_VALID /\ l.cid.id # m.cache_valid_id)
          THEN Goto(t, l.ret) /\ UNCHANGED <<cache, msdos_i, fs_error>>
          ELSE IF SameStart(c, l.cid) # {}
          THEN /\ cache' = [cache EXCEPT ![l.f] = fat_cache_merge(c, l.cid)]
               /\ fs_error' = (fs_error \/ MergeBug(c, l.cid))
               /\ Goto(t, l.ret) /\ UNCHANGED msdos_i
          ELSE IF m.nr_caches < FAT_MAX_CACHE
          THEN /\ msdos_i' = [msdos_i EXCEPT ![l.f].nr_caches = @ + 1]
               /\ Goto(t, "add_alloc") /\ UNCHANGED <<cache, fs_error>>
          ELSE /\ cache' = [cache EXCEPT ![l.f] =
                                <<CacheEntry(l.cid)>> \o SubSeq(c, 1, Len(c) - 1)]
               /\ fs_error' = (fs_error \/ c = <<>>)   \* the list's head is no entry
               /\ Goto(t, l.ret) /\ UNCHANGED msdos_i
       /\ UNCHANGED <<env_vars, fat, mirror, sbi_vars, loc>> /\ Works

(* The rest of fat_cache_add, when the lock is taken again.                *)
CacheAlloc(t) ==
    LET l == loc[t]
        c == cache[l.f]
        merged == SameStart(c, l.cid) # {}
    IN /\ pc[t] = "add_alloc"
       /\ \/ /\ merged /\ cache' = [cache EXCEPT ![l.f] = fat_cache_merge(c, l.cid)]
             /\ fs_error' = (fs_error \/ MergeBug(c, l.cid))
             /\ msdos_i' = [msdos_i EXCEPT ![l.f].nr_caches = @ - 1] /\ Works
          \/ /\ ~merged /\ cache' = [cache EXCEPT ![l.f] = <<CacheEntry(l.cid)>> \o c]
             /\ UNCHANGED <<msdos_i, fs_error>> /\ Works
          \/ /\ Fails("cache_alloc")
             /\ msdos_i' = [msdos_i EXCEPT ![l.f].nr_caches = @ - 1]
             /\ UNCHANGED <<cache, fs_error>>
       /\ Goto(t, l.ret)
       /\ UNCHANGED <<env_vars, fat, mirror, sbi_vars, loc>>

(* As below, but the places reserved by others are forgotten too.          *)
fat_cache_inval_inode_ResetCount(f, ms) ==
    [ms EXCEPT ![f].nr_caches = 0, ![f].cache_valid_id = @ + 1]
(* As below, but copies of entries made before stay valid.                 *)
fat_cache_inval_inode_SameId(f, ms) == [ms EXCEPT ![f].nr_caches = @ - Len(cache[f])]
(* fat_cache_inval_inode: the fields of the inodes after it; the list is   *)
(* emptied.                                                                *)
fat_cache_inval_inode(f, ms) ==
    [ms EXCEPT ![f].nr_caches = @ - Len(cache[f]), ![f].cache_valid_id = @ + 1]
-----------------------------------------------------------------------------
(* As Inc, but the count is left as it was.                                *)
Inc_Forgotten(n) == n
(* One cluster more is free.                                               *)
Inc(n) == IF n = Unknown THEN n ELSE n + 1

(* What a loop over the positions all has found, before each turn: the     *)
(* positions of free entries, until there are nr.                          *)
FreeAmong(tab, all, nr) ==
    LET found[k \in 0 .. Len(all)] ==
            IF k = 0 THEN <<>>
            ELSE LET s == found[k - 1]
                 IN IF Len(s) < nr /\ ent_get(fat_bits, tab, all[k]) = FAT_ENT_FREE
                    THEN Append(s, all[k]) ELSE s
    IN found

(* The entries at the positions found, made a chain in this order.         *)
LinkAll(tab, found) ==
    LET lnk[k \in 0 .. Len(found)] ==
            IF k = 0 THEN tab
            ELSE LET a == ent_put(fat_bits, lnk[k - 1], found[k], FAT_ENT_EOF)
                 IN IF k = 1 THEN a ELSE ent_put(fat_bits, a, found[k - 1], found[k].entry)
    IN lnk[Len(found)]

(* fat_alloc_clusters, under fat_lock: the first nr free entries after     *)
(* prev_free are made a chain.  A block of the FAT may be unreadable.      *)
fat_alloc_clusters(t) ==
    LET l == loc[t]
        all == Visit(fat_bits, prev_free + 1)
        taken == FreeAmong(fat, all, l.nr)
        Apply(found, enospc) ==
            LET n == Len(found)
            IN /\ fat' = LinkAll(fat, found)
               /\ prev_free' = IF n = 0 THEN prev_free ELSE found[n].entry
               /\ free_clusters' = IF enospc THEN 0
                                   ELSE IF free_clusters \in 0 .. n - 1 THEN Unknown
                                   ELSE IF free_clusters = Unknown THEN Unknown
                                   ELSE free_clusters - n
               /\ free_clus_valid' = (free_clus_valid \/ enospc)
               /\ loc' = [loc EXCEPT ![t].cl = IF n = 0 THEN 0 ELSE found[1].entry,
                                     ![t].bhs = IF n < l.nr THEN {}
                                                ELSE Bhs({found[k].entry : k \in 1 .. n}),
                                     ![t].ret = "write_failed"]
               /\ Goto(t, IF n = l.nr THEN "alloc_mirror"
                          ELSE IF n = 0 THEN "write_failed" ELSE "free")
        known == free_clusters # Unknown /\ free_clus_valid
    IN /\ pc[t] = "alloc" /\ fat_lock = None
       /\ \/ /\ known /\ free_clusters < l.nr
             /\ Goto(t, "write_failed")
             /\ UNCHANGED <<fat, sbi_vars, loc>> /\ Works
          \/ /\ ~(known /\ free_clusters < l.nr)
             /\ Apply(taken[Len(all)], Len(taken[Len(all)]) < l.nr)
             /\ UNCHANGED fat_lock /\ Works
          \/ /\ ~(known /\ free_clusters < l.nr) /\ Fails("alloc_read")
             /\ \E k \in DOMAIN all :
                    /\ all[k].rd /\ Len(taken[k - 1]) < l.nr
                    /\ Apply(taken[k - 1], FALSE)
             /\ UNCHANGED fat_lock
       /\ UNCHANGED <<env_vars, mirror, msdos_i, cache, fs_error>>

(* As below, but the clusters stay allocated.                              *)
AllocMirror_NoUndo(t) ==
    /\ pc[t] = "alloc_mirror"
    /\ \/ fat_mirror_bhs(fat, loc[t].bhs) /\ Goto(t, "chain_add") /\ Works
       \/ Fails("alloc_mirror") /\ UNCHANGED mirror /\ Goto(t, "write_failed")
    /\ loc' = [loc EXCEPT ![t].bhs = {}, ![t].ret = "write_failed"]
    /\ UNCHANGED <<env_vars, fat, sbi_vars, msdos_i, cache, fs_error>>
(* The copies are written after fat_lock is released; if that fails the    *)
(* clusters are freed again.                                               *)
AllocMirror(t) ==
    /\ pc[t] = "alloc_mirror"
    /\ \/ fat_mirror_bhs(fat, loc[t].bhs) /\ Goto(t, "chain_add") /\ Works
       \/ Fails("alloc_mirror") /\ UNCHANGED mirror /\ Goto(t, "free")
    /\ loc' = [loc EXCEPT ![t].bhs = {}, ![t].ret = "write_failed"]
    /\ UNCHANGED <<env_vars, fat, sbi_vars, msdos_i, cache, fs_error>>

(* fat_free_clusters of the chain at cl, one entry at a time, under        *)
(* fat_lock; the thread goes on at ret.  When the blocks of the batch and  *)
(* of this entry are too many, the copies of the former are written.  A    *)
(* failure of that, or to read an entry, leaves the rest of the chain.     *)
fat_free_clusters(t) ==
    LET l == loc[t]
        next == Entry(fat, l.cl)
        full == Cardinality(l.bhs) + Cardinality(Bhs({l.cl})) > MAX_BUF_PER_PAGE
    IN /\ pc[t] = "free" /\ fat_lock \in {None, t}
       /\ \/ /\ next # FAT_ENT_FREE
             /\ fat' = Put(fat, l.cl, FAT_ENT_FREE)
             /\ free_clusters' = Inc(free_clusters)
             /\ UNCHANGED fs_error
             /\ \/ /\ IF full THEN fat_mirror_bhs(fat', l.bhs) ELSE UNCHANGED mirror
                   /\ fat_lock' = t
                   /\ loc' = [loc EXCEPT ![t].cl = next,
                                         ![t].bhs = (IF full THEN {} ELSE @) \cup Bhs({l.cl})]
                   /\ Goto(t, IF next = FAT_ENT_EOF THEN "free_mirror" ELSE "free") /\ Works
                \/ /\ full /\ Fails("free_read")
                   /\ fat_lock' = None /\ Goto(t, l.ret)
                   /\ UNCHANGED <<mirror, loc>>
          \/ /\ next = FAT_ENT_FREE
             /\ fs_error' = TRUE
             /\ fat_lock' = None /\ Goto(t, l.ret)
             /\ UNCHANGED <<fat, mirror, free_clusters, loc>> /\ Works
          \/ /\ Fails("free_read")
             /\ fat_lock' = None /\ Goto(t, l.ret)
             /\ UNCHANGED <<fat, mirror, free_clusters, loc, fs_error>>
       /\ UNCHANGED <<env_vars, free_clus_valid, prev_free, msdos_i, cache>>

FreeMirror(t) ==
    /\ pc[t] = "free_mirror"
    /\ \/ fat_mirror_bhs(fat, loc[t].bhs) /\ Works
       \/ Fails("free_mirror") /\ UNCHANGED mirror
    /\ fat_lock' = None
    /\ Set(t, "bhs", {}) /\ Goto(t, loc[t].ret)
    /\ UNCHANGED <<env_vars, fat, free_clusters, free_clus_valid, prev_free, msdos_i, cache, fs_error>>

(* fat_count_free_clusters, called by fat_statfs when the count is not     *)
(* known to be right.                                                      *)
fat_count_free_clusters ==
    /\ free_clusters = Unknown \/ ~free_clus_valid
    /\ fat_lock = None
    /\ LET all == Visit(fat_bits, FAT_START_ENT)
       IN free_clusters' =
            Cardinality({k \in DOMAIN all : ent_get(fat_bits, fat, all[k]) = FAT_ENT_FREE})
    /\ free_clus_valid' = TRUE
    /\ UNCHANGED <<env_vars, fat, mirror, fat_lock, prev_free, msdos_i, cache, pc, loc, fs_error>>
    /\ Works
-----------------------------------------------------------------------------
(* fat_chain_add: the end of the file's chain is found, unless it has      *)
(* none, and the new clusters are linked there.                            *)
fat_chain_add(t) ==
    LET f == loc[t].f
    IN /\ pc[t] = "chain_add"
       /\ IF msdos_i[f].i_start = 0
          THEN /\ msdos_i' = [msdos_i EXCEPT ![f].i_start = loc[t].cl]
               /\ Set(t, "fclus", -1) /\ Goto(t, "chain_done")
          ELSE fat_get_cluster(t, loc[t], FAT_ENT_EOF, "chain_put") /\ UNCHANGED msdos_i
       /\ UNCHANGED <<env_vars, fat, mirror, sbi_vars, cache, fs_error>> /\ Works

(* fat_ent_write of the last entry, and then of the copy of its block.     *)
ChainPut(t) ==
    /\ pc[t] = "chain_put"
    /\ \/ /\ loc[t].res.ok
          /\ fat' = Put(fat, loc[t].dclus, loc[t].cl)
          /\ Set(t, "bhs", Bhs({loc[t].dclus})) /\ Goto(t, "chain_mirror") /\ Works
       \/ /\ loc[t].res.ok /\ Fails("walk_read")
          /\ Goto(t, "chain_undo") /\ UNCHANGED <<fat, loc>>
       \/ /\ ~loc[t].res.ok
          /\ Goto(t, "chain_undo") /\ UNCHANGED <<fat, loc>> /\ Works
    /\ UNCHANGED <<env_vars, mirror, sbi_vars, msdos_i, cache, fs_error>>

ChainMirror(t) ==
    /\ pc[t] = "chain_mirror"
    /\ \/ fat_mirror_bhs(fat, loc[t].bhs) /\ Goto(t, "chain_done") /\ Works
       \/ Fails("chain_mirror") /\ UNCHANGED mirror /\ Goto(t, "chain_undo")
    /\ Set(t, "bhs", {})
    /\ UNCHANGED <<env_vars, fat, sbi_vars, msdos_i, cache, fs_error>>

(* The callers of fat_chain_add free the new clusters when it fails.       *)
ChainUndo(t) ==
    /\ pc[t] = "chain_undo"
    /\ loc' = [loc EXCEPT ![t].ret = "write_failed", ![t].bhs = {}] /\ Goto(t, "free")
    /\ UNCHANGED <<env_vars, fat, mirror, sbi_vars, msdos_i, cache, fs_error>> /\ Works

(* The end of fat_chain_add.  A file's new cluster is then looked up       *)
(* (__fat_get_block); a directory's size grows (fat_add_entries).          *)
ChainDone(t) ==
    LET l == loc[t]
        m == msdos_i[l.f]
        bad == l.fclus + 1 # m.i_blocks   \* "clusters badly computed"
        kept == IF bad THEN fat_cache_inval_inode(l.f, msdos_i) ELSE msdos_i
        ms == [kept EXCEPT ![l.f].i_blocks = @ + l.nr, ![l.f].mmu_private = @ + l.nr]
    IN /\ pc[t] = "chain_done"
       /\ fs_error' = (fs_error \/ bad)
       /\ cache' = IF bad THEN [cache EXCEPT ![l.f] = <<>>] ELSE cache
       /\ IF l.f \in Dirs
          THEN Return(t, [ms EXCEPT ![l.f].i_size = @ + l.nr])
          ELSE fat_get_cluster(t, l, m.mmu_private, "mapped") /\ msdos_i' = ms
       /\ UNCHANGED <<env_vars, fat, mirror, sbi_vars>> /\ Works

(* The second fat_bmap of __fat_get_block has its result: fat_write_end    *)
(* sets the size, unless the data cannot be copied.                        *)
Mapped(t) ==
    LET l == loc[t]
        f == l.f
        beyond == l.res.ok /\ l.res.eof   \* "request beyond EOF"
    IN /\ pc[t] = "mapped"
       /\ fs_error' = (fs_error \/ beyond)
       /\ \/ /\ l.res.ok /\ ~beyond
             /\ Return(t, [msdos_i EXCEPT ![f].i_size = msdos_i[f].mmu_private]) /\ Works
          \/ /\ ~l.res.ok \/ beyond
             /\ Goto(t, "write_failed") /\ UNCHANGED <<msdos_i, loc>> /\ Works
          \/ /\ l.res.ok /\ ~beyond /\ Fails("copy")
             /\ Goto(t, "write_failed") /\ UNCHANGED <<msdos_i, loc>>
       /\ UNCHANGED <<env_vars, fat, mirror, sbi_vars, cache>>

(* fat_write_failed truncates a file to its size; fat_add_entries only     *)
(* returns.                                                                *)
fat_write_failed(t) ==
    LET f == loc[t].f
    IN /\ pc[t] = "write_failed"
       /\ IF f \in Dirs
          THEN Return(t, msdos_i)
          ELSE /\ Set(t, "skip", msdos_i[f].i_size) /\ Goto(t, "truncate_blocks")
               /\ UNCHANGED msdos_i
       /\ UNCHANGED <<env_vars, fat, mirror, sbi_vars, cache, fs_error>> /\ Works
-----------------------------------------------------------------------------
(* fat_truncate_blocks and the start of fat_free: the cache is emptied     *)
(* before the chain is cut.  When fat_sync_inode fails the start of the    *)
(* file is restored and nothing is cut.                                    *)
fat_truncate_blocks(t) ==
    LET f == loc[t].f
        skip == loc[t].skip
        m == msdos_i[f]
        cut == [msdos_i EXCEPT ![f].mmu_private = IF @ > skip THEN skip ELSE @]
        ms == fat_cache_inval_inode(f, cut)
    IN /\ pc[t] = "truncate_blocks"
       /\ \/ /\ m.i_start = 0 /\ Return(t, cut) /\ UNCHANGED cache /\ Works
          \/ /\ m.i_start # 0 /\ skip = 0
             /\ msdos_i' = [ms EXCEPT ![f].i_start = 0, ![f].i_blocks = 0]
             /\ loc' = [loc EXCEPT ![t].cl = m.i_start, ![t].ret = "done", ![t].bhs = {}]
             /\ Goto(t, "free")
             /\ cache' = [cache EXCEPT ![f] = <<>>] /\ Works
          \/ /\ m.i_start # 0 /\ Fails("sync_inode")
             /\ Return(t, ms) /\ cache' = [cache EXCEPT ![f] = <<>>]
          \/ /\ m.i_start # 0 /\ skip # 0
             /\ msdos_i' = ms /\ cache' = [cache EXCEPT ![f] = <<>>]
             /\ fat_get_cluster(t, loc[t], skip - 1, "cut") /\ Works
       /\ UNCHANGED <<env_vars, fat, mirror, sbi_vars, fs_error>>

(* As Cut, but the new last entry is not written.                          *)
Cut_NoEof(t) ==
    LET l == loc[t]
        next == Entry(fat, l.dclus)
    IN /\ pc[t] = "cut"
       /\ IF ~l.res.ok \/ l.res.eof \/ next \in {FAT_ENT_EOF, FAT_ENT_FREE}
          THEN Return(t, msdos_i)
          ELSE /\ loc' = [loc EXCEPT ![t].cl = next, ![t].bhs = Bhs({l.dclus})]
               /\ Goto(t, "cut_mirror") /\ UNCHANGED msdos_i
       /\ UNCHANGED <<env_vars, fat, mirror, sbi_vars, cache, fs_error>> /\ Works
(* The rest of fat_free: the new last entry, its copy, and the entries     *)
(* behind it.                                                              *)
Cut(t) ==
    LET l == loc[t]
        next == Entry(fat, l.dclus)
        ends == ~l.res.ok \/ l.res.eof \/ next \in {FAT_ENT_EOF, FAT_ENT_FREE}
    IN /\ pc[t] = "cut"
       /\ \/ /\ ends
             /\ Return(t, msdos_i) /\ UNCHANGED fat
             /\ fs_error' = (fs_error \/ (l.res = NoRes /\ next = FAT_ENT_FREE)) /\ Works
          \/ /\ ~ends
             /\ fat' = Put(fat, l.dclus, FAT_ENT_EOF)
             /\ loc' = [loc EXCEPT ![t].cl = next, ![t].bhs = Bhs({l.dclus})]
             /\ Goto(t, "cut_mirror") /\ UNCHANGED <<msdos_i, fs_error>> /\ Works
          \/ /\ l.res = NoRes /\ Fails("walk_read")
             /\ Return(t, msdos_i) /\ UNCHANGED <<fat, fs_error>>
       /\ UNCHANGED <<env_vars, mirror, sbi_vars, cache>>

CutMirror(t) ==
    /\ pc[t] = "cut_mirror"
    /\ \/ /\ fat_mirror_bhs(fat, loc[t].bhs) /\ Works
          /\ msdos_i' = [msdos_i EXCEPT ![loc[t].f].i_blocks = loc[t].skip]
          /\ loc' = [loc EXCEPT ![t].ret = "done", ![t].bhs = {}] /\ Goto(t, "free")
       \/ Fails("cut_mirror") /\ UNCHANGED mirror /\ Return(t, msdos_i)
    /\ UNCHANGED <<env_vars, fat, sbi_vars, cache, fs_error>>

Done(t) ==
    /\ pc[t] = "done" /\ Return(t, msdos_i)
    /\ UNCHANGED <<env_vars, fat, mirror, sbi_vars, cache, fs_error>> /\ Works
-----------------------------------------------------------------------------
(* The calls.                                                              *)
NewLoc(op, f) ==
    [op |-> op, f |-> f, nr |-> 1, cl |-> 0, skip |-> 0, bhs |-> {}, res |-> NoRes, ret |-> "",
     tgt |-> 0, fclus |-> 0, dclus |-> 0, cid |-> cache_init(-1, -1)]
Call(t) ==
    /\ pc[t] = "idle" /\ calls > 0 /\ calls' = calls - 1
    /\ UNCHANGED <<fat_bits, fat, mirror, sbi_vars, cache, fs_error>> /\ Works

(* fat_write_begin of a cluster behind the end of a file (a write into the *)
(* file finds its clusters as a read does), or fat_add_new_entries of a    *)
(* directory, which may need nr clusters.                                  *)
fat_write_begin(t, f, nr) ==
    /\ Call(t) /\ msdos_i[f].i_mutex = None /\ (f \notin Dirs => nr = 1)
    /\ msdos_i' = [msdos_i EXCEPT ![f].i_mutex = t]
    /\ loc' = [loc EXCEPT ![t] = [NewLoc("write", f) EXCEPT !.nr = nr]]
    /\ Goto(t, "alloc")

(* fat_setattr to a smaller size.  truncate_setsize sets the size and then *)
(* waits for each page behind it.                                          *)
fat_setattr(t, f, n) ==
    /\ Call(t) /\ f \notin Dirs /\ n < msdos_i[f].i_size /\ msdos_i[f].i_mutex = None
    /\ msdos_i' = [msdos_i EXCEPT ![f].i_mutex = t]
    /\ loc' = [loc EXCEPT ![t] = [NewLoc("truncate", f) EXCEPT !.skip = n]]
    /\ Goto(t, "down_write")
InPage(f, n) == \E t \in Threads : loc[t].op = "read" /\ loc[t].f = f /\ loc[t].tgt >= n
InBmap(f) == \E t \in Threads : loc[t].op = "bmap" /\ loc[t].f = f
Truncating(f) == \E t \in Threads : loc[t].op = "truncate" /\ loc[t].f = f /\ pc[t] # "down_write"
(* As below, but nobody waits for the pages.                               *)
truncate_setsize_NoWait(t) ==
    /\ pc[t] \in {"down_write", "unmap"}
    /\ msdos_i' = [msdos_i EXCEPT ![loc[t].f].i_size = loc[t].skip]
    /\ Goto(t, IF pc[t] = "unmap" THEN "truncate_blocks" ELSE "unmap")
    /\ UNCHANGED <<env_vars, fat, mirror, sbi_vars, cache, loc, fs_error>> /\ Works
truncate_setsize(t) ==
    LET l == loc[t]
    IN /\ \/ /\ pc[t] = "down_write" /\ ~InBmap(l.f)
             /\ msdos_i' = [msdos_i EXCEPT ![l.f].i_size = l.skip] /\ Goto(t, "unmap")
          \/ /\ pc[t] = "unmap" /\ ~InPage(l.f, l.skip)
             /\ Goto(t, "truncate_blocks") /\ UNCHANGED msdos_i
       /\ UNCHANGED <<env_vars, fat, mirror, sbi_vars, cache, loc, fs_error>> /\ Works

(* fat_bmap: for a page that is read, and locked, or for _fat_bmap, which  *)
(* holds truncate_lock.                                                    *)
fat_bmap(t, f, c, op) ==
    /\ Call(t) /\ f \notin Dirs /\ c < msdos_i[f].i_size /\ msdos_i[f].i_start # 0
    /\ IF op = "bmap" THEN ~Truncating(f)
       ELSE \A u \in Threads : ~(loc[u].op = "read" /\ loc[u].f = f /\ loc[u].tgt = c)
    /\ fat_get_cluster(t, NewLoc(op, f), c, "bmap_cluster")
    /\ UNCHANGED msdos_i
fat_bmap_cluster(t) ==
    /\ pc[t] = "bmap_cluster"
    /\ fs_error' = (fs_error \/ loc[t].res.eof)   \* "request beyond EOF"
    /\ Return(t, msdos_i)
    /\ UNCHANGED <<env_vars, fat, mirror, sbi_vars, cache>> /\ Works
-----------------------------------------------------------------------------
Inode(ch) ==
    [i_start |-> IF ch = <<>> THEN 0 ELSE ch[1],
     i_size |-> Len(ch), mmu_private |-> Len(ch), i_blocks |-> Len(ch),
     i_mutex |-> None, cache_valid_id |-> 1, nr_caches |-> 0]

(* A volume after fat_fill_super.  FAT32 keeps a count of free clusters,   *)
(* which may be wrong, and the cluster allocated last.                     *)
Init ==
    /\ \E v \in Volumes :
        /\ fat_bits = v.bits
        /\ fat = v.fat /\ msdos_i = [f \in Files |-> Inode(v.chains[f])]
        /\ free_clusters = v.free_clusters /\ prev_free = v.next_cluster
    /\ mirror = fat /\ fat_lock = None /\ free_clus_valid = FALSE
    /\ cache = [f \in Files |-> <<>>]
    /\ pc = [t \in Threads |-> "idle"] /\ loc = [t \in Threads |-> [op |-> "none"]]
    /\ fs_error = FALSE /\ failed = {} /\ calls = MaxCalls /\ fails = MaxFails

(* A step of the call that thread t is in.                                 *)
Step(t) ==
    \/ Lookup(t) \/ Walk(t) \/ fat_cache_add(t) \/ CacheAlloc(t)
    \/ fat_alloc_clusters(t) \/ AllocMirror(t) \/ fat_free_clusters(t) \/ FreeMirror(t)
    \/ fat_chain_add(t) \/ ChainPut(t) \/ ChainMirror(t) \/ ChainUndo(t) \/ ChainDone(t)
    \/ Mapped(t) \/ fat_write_failed(t)
    \/ truncate_setsize(t) \/ fat_truncate_blocks(t) \/ Cut(t) \/ CutMirror(t) \/ Done(t)
    \/ fat_bmap_cluster(t)

(* The clients make no more calls.                                         *)
Idle == \A t \in Threads : pc[t] = "idle"
Finished == Idle /\ calls = 0 /\ UNCHANGED vars

Next ==
    \/ \E t \in Threads :
        \/ Step(t)
        \/ \E f \in Files :
            \/ \E nr \in 1 .. 2 : fat_write_begin(t, f, nr)
            \/ \E n \in 0 .. max_cluster : fat_setattr(t, f, n)
            \/ \E c \in 0 .. max_cluster, op \in {"read", "bmap"} : fat_bmap(t, f, c, op)
    \/ fat_count_free_clusters
    \/ Finished

Spec == Init /\ [][Next]_vars

-----------------------------------------------------------------------------
(* The variables have the types of the structures they stand for; an inode *)
(* never counts fewer cache entries than it has (fat_cache_add reserves    *)
(* one before it allocates it).                                            *)
TypeOK ==
    /\ fat \in [Offsets -> 0 .. 255] /\ mirror \in [Offsets -> 0 .. 255]
    /\ fat_lock \in Threads \cup {None}
    /\ free_clusters \in Unknown .. 2 * max_cluster /\ prev_free \in Clusters
    /\ \A f \in Files :
        /\ msdos_i[f].i_start \in Clusters \cup {0}
        /\ msdos_i[f].nr_caches \in Len(cache[f]) .. FAT_MAX_CACHE

(* No cluster is in the chains of two files or twice in one, and no chain  *)
(* leads to a free cluster, whatever the threads that allocate, link, cut  *)
(* and free are doing.                                                     *)
ChainsSound ==
    LET ch == [f \in Files |-> Chain(f)]
    IN /\ \A f \in Files : ch[f] # <<>> =>
            /\ Entry(fat, ch[f][Len(ch[f])]) = FAT_ENT_EOF
            /\ Cardinality(Range(ch[f])) = Len(ch[f])
       /\ \A f, g \in Files : f # g => Range(ch[f]) \cap Range(ch[g]) = {}

(* When no call is under way, every cluster that is not free belongs to a  *)
(* file: the clusters of a call that failed half-way were given back.      *)
(* (The calls that free clusters may themselves fail.)                     *)
NoClusterLost ==
    Idle /\ failed \cap {"free_read", "cut_mirror", "walk_read", "sync_inode"} = {} =>
        Clusters \ FreeIn(fat) = UNION {Range(Chain(f)) : f \in Files}

(* Once the count of free clusters is known to be right it stays exact,    *)
(* also through a failed allocation and what that gives back, and when the *)
(* count read from the volume was wrong.                                   *)
FreeCountExact ==
    fat_lock = None /\ free_clus_valid /\ free_clusters # Unknown =>
        free_clusters = Cardinality(FreeIn(fat))

(* When no call is under way the copy of the FAT is like the FAT, although *)
(* the copies are written after fat_lock is released and in any order.     *)
MirrorCurrent ==
    Idle /\ failed \cap {"free_read", "free_mirror", "cut_mirror"} = {} => mirror = fat

(* The cache of an inode never promises a cluster that the chain does not  *)
(* have at that place, although entries are added after the walk that      *)
(* found them, while others truncate and extend the file.                  *)
CacheCoherent ==
    \A f \in Files : cache[f] # <<>> =>
        LET ch == Chain(f)
        IN \A e \in Range(cache[f]) : \A n \in 0 .. e.n :
                e.f + n < Len(ch) /\ ch[e.f + n + 1] = e.d + n

(* A read or bmap of a cluster of the file gets the cluster of the chain,  *)
(* and none of the checks that the code makes of itself ("invalid cluster  *)
(* chain", "clusters badly computed", "request beyond EOF", "deleting FAT  *)
(* entry beyond EOF", the BUG_ONs) ever fails.                             *)
MapsRightCluster ==
    /\ failed \cap {"free_read", "cut_mirror", "walk_read", "sync_inode"} = {} => ~fs_error
    /\ \A t \in Threads :
        pc[t] \in {"bmap_cluster", "mapped"} /\ loc[t].res = NoRes =>
            LET ch == Chain(loc[t].f)
            IN loc[t].tgt < Len(ch) /\ loc[t].dclus = ch[loc[t].tgt + 1]
=============================================================================
