------------------------------- MODULE FatDir -------------------------------
(***************************************************************************)
(* The name operations of vfat: create, mkdir, lookup, unlink and rmdir    *)
(* (super.cogent), rename (module.c), on the directory slots of dir.c, and *)
(* the inodes found by the position of their entry (inode.c).              *)
(*                                                                         *)
(* The VFS holds the directory's i_mutex and the operations s_lock, so     *)
(* that one of them runs at a time: `op'.  Beside it, and only with        *)
(* inode_hash_lock, run the write-back of an inode (__fat_write_inode) and *)
(* its eviction.  The blocks that buffers hold are `slots', those on the   *)
(* disk `disk'.  A write that fails leaves the block on the disk, and the  *)
(* buffer, no longer uptodate, is read again.  The disk is told apart from *)
(* the buffers on a DIRSYNC mount, where every write waits.                *)
(***************************************************************************)
EXTENDS FatSlots

CONSTANTS
    Volumes,         \* the volumes at first: their slots and the names they hold
    ClusterSlots,    \* the slots of a cluster
    Places,          \* the names that calls make, and where: a bound
    LooksUpCached,   \* a lookup may meet an inode that is still in memory
    UndoRaces,       \* a write-back may meet a rename that fails
    MaxObj, MaxCalls, MaxFails, MaxDrops   \* bounds of this instance

VARIABLES
    dirsync,         \* IS_DIRSYNC
    slots, disk,     \* the slots of each directory, by its first cluster
    inode,           \* the inodes in memory
    dcache,          \* the dentries: the inode of a name
    op,              \* the operation that runs
    wb,              \* the write-back that runs
    tree,            \* what the callers were told: the object of a name
    data,            \* the objects that have a first cluster
    obj, calls, fails, drops   \* the objects made, and what is left of the bounds

blocks == <<slots, disk, fails>>
ghosts == <<tree, data>>
bounds == <<dirsync, obj, calls, drops>>
vars == <<dirsync, slots, disk, inode, dcache, op, wb, tree, data, obj, calls, fails, drops>>

Root == 0
None == -1
Objs == 1 .. MaxObj          \* an object's number is also its first cluster
Dirs == {Root} \cup Objs
Inos == 1 .. MaxObj + 1
NoPos == <<None, 0>>         \* i_pos is 0: not hashed
NoInode == [st |-> "free", obj |-> None, dir |-> FALSE, start |-> 0,
            i_pos |-> NoPos, dirty |-> FALSE, linked |-> FALSE]
NoRec == [at |-> 0, nr_slots |-> 0, long |-> "none"]
NoOp == [pc |-> "idle", res |-> "ok", call |-> "none", d |-> Root, n |-> "none",
         od |-> Root, on |-> "none", obj |-> None, ino |-> None, new |-> None,
         ents |-> <<>>, pos |-> 0, free |-> 0, i_pos |-> NoPos, corrupt |-> FALSE,
         rec |-> NoRec, rmd |-> Root, rm |-> NoRec, next |-> "idle", ko |-> "idle"]
NoWb == [ino |-> None, i_pos |-> NoPos]
Return(o, res) == [NoOp EXCEPT !.res = res]
Goto(o, pc) == [o EXCEPT !.pc = pc]

Entry(s, i_pos) == s[i_pos[1]][i_pos[2]]
Parent(tr, o) == {p \in Dirs : \E n \in Names : tr[p][n] = o}
Reached(d) == d = Root \/ Parent(tree, d) # {}
Above(d) ==      \* d and the directories it lies in
    LET up[k \in 0 .. MaxObj] ==
            IF k = 0 THEN {d} ELSE up[k - 1] \cup UNION {Parent(tree, o) : o \in up[k - 1]}
    IN up[MaxObj]
Dentry(i) == \E d \in Dirs, n \in Names : dcache[d][n] = i
Opened(d) == d = Root \/ \E i \in Inos : inode[i].obj = d /\ Dentry(i)
InUse(i) == op.pc # "idle" /\ (i \in {op.ino, op.new} \/ inode[i].obj \in {op.d, op.od, op.rmd})
Pinned(i) == inode[i].dir /\ \E n \in Names : dcache[inode[i].obj][n] # None

(***************************************************************************)
(* Blocks: a directory's new slots, of which the blocks bs are written.    *)
(***************************************************************************)
Merge(old, new, bs) == [p \in DOMAIN old |-> IF Block(p) \in bs THEN new[p] ELSE old[p]]
BlocksOf(ps) == {Block(p) : p \in ps}

(* mark_buffer_dirty_inode and, on a DIRSYNC mount, sync_dirty_buffer or   *)
(* fat_sync_bhs: the operation goes on as ok or, after an error, as ko.    *)
Put(d, new, bs, ok, ko) ==
    \/ /\ slots' = [slots EXCEPT ![d] = new]
       /\ disk' = IF dirsync THEN [disk EXCEPT ![d] = Merge(disk[d], new, bs)] ELSE slots'
       /\ op' = ok
       /\ UNCHANGED fails
    \/ /\ dirsync /\ fails > 0
       /\ \E bad \in (SUBSET bs) \ {{}} :
             /\ slots' = [slots EXCEPT ![d] = Merge(new, disk[d], bad)]
             /\ disk' = [disk EXCEPT ![d] = Merge(disk[d], new, bs \ bad)]
       /\ op' = ko
       /\ fails' = fails - 1

(***************************************************************************)
(* The inodes by i_pos.                                                    *)
(***************************************************************************)
Attach(ins, i, i_pos) == [ins EXCEPT ![i].i_pos = i_pos]
Detach(ins, i) == [ins EXCEPT ![i].i_pos = NoPos]
(* As fat_iget, but it finds nothing.                                      *)
fat_iget_Miss(i_pos) == {}
fat_iget(i_pos) == {i \in Inos : inode[i].st = "live" /\ inode[i].i_pos = i_pos}
Unused == {i \in Inos : inode[i].st = "free"}

(* new_inode, fat_fill_inode and fat_attach.                               *)
FilledInode(de, o, i_pos) ==
    [st |-> "live", obj |-> o, dir |-> de.dir, start |-> de.start,
     i_pos |-> i_pos, dirty |-> FALSE, linked |-> TRUE]

(***************************************************************************)
(* vfat_add_entry and fat_add_entries.                                     *)
(***************************************************************************)
(* The slots that are filled first, and in the second stage: all but those *)
(* of the block that takes the short entry.                                *)
FilledSlots(o) == o.pos .. o.pos + o.free - 1
LongPart(o) ==
    {p \in FilledSlots(o) :
        o.free < Len(o.ents) \/ Block(p) # Block(o.pos + o.free - 1)}
NewSlots(o, ps) ==
    [p \in DOMAIN slots[o.d] |-> IF p \in ps THEN o.ents[p - o.pos + 1] ELSE slots[o.d][p]]

(* vfat_build_slots and the first stage.                                   *)
AddEntry(o, is_dir, cluster) ==
    LET s == slots[o.d]
        alias == vfat_create_shortname(s, o.n)
        ents == vfat_build_slots(o.n, CHOOSE a \in alias : TRUE, is_dir, cluster)
        run == FreeRun(s, Len(ents))
        placed == [o EXCEPT !.ents = ents, !.pos = run.pos, !.free = run.free,
                            !.i_pos = <<o.d, run.pos + Len(ents) - 1>>]
    IN IF alias = {} \/ (run.free < Len(ents) /\ o.d = Root) THEN Goto(o, "failed")
       ELSE IF LongPart(placed) # {} THEN Goto(placed, "long")
       ELSE Goto(placed, IF run.free = 0 THEN "grow" ELSE "short")

(* error_remove.                                                           *)
ErrorRemove(o) ==
    IF o.free = 0 THEN Goto(o, "failed")
    ELSE [o EXCEPT !.pc = "remove", !.rmd = o.d, !.next = "failed",
                   !.rm = [NoRec EXCEPT !.at = o.pos, !.nr_slots = o.free]]

FillLong ==
    /\ op.pc = "long"
    /\ Put(op.d, NewSlots(op, LongPart(op)), BlocksOf(LongPart(op)),
           Goto(op, IF op.free = Len(op.ents) THEN "short" ELSE "grow"), ErrorRemove(op))
    /\ UNCHANGED <<bounds, inode, dcache, wb, ghosts>>

FillShort ==
    /\ op.pc = "short"
    /\ Put(op.d, NewSlots(op, FilledSlots(op)), {Block(op.i_pos[2])},
           Goto(op, op.next), ErrorRemove(op))
    /\ UNCHANGED <<bounds, inode, dcache, wb, ghosts>>

(* Third stage: fat_add_new_entries and fat_chain_add.                     *)
Grown(s, rest) ==
    s \o rest \o [i \in 1 .. (-Len(rest)) % ClusterSlots |-> Free]
fat_add_new_entries ==
    /\ op.pc = "grow"
    /\ LET rest == SubSeq(op.ents, op.free + 1, Len(op.ents))
       IN \/ /\ slots' = [slots EXCEPT ![op.d] = Grown(@, rest)]
             /\ disk' = [disk EXCEPT ![op.d] = Grown(@, rest)]
             /\ op' = Goto(op, op.next)
             /\ UNCHANGED fails
          \/ /\ fails > 0
             /\ fails' = fails - 1
             /\ op' = ErrorRemove(op)
             /\ UNCHANGED <<slots, disk>>
    /\ UNCHANGED <<bounds, inode, dcache, wb, ghosts>>

(***************************************************************************)
(* fat_remove_entries: the short entry and what lies in its block, then    *)
(* the other blocks (__fat_remove_entries), whose errors are not returned. *)
(***************************************************************************)
FirstStage(rec) ==
    {p \in rec.at - rec.nr_slots + 1 .. rec.at : Block(p) = Block(rec.at)}
RemoveFrom(o, d, rec, next, ko) ==
    [o EXCEPT !.pc = "remove_first", !.rmd = d, !.rec = rec, !.next = next, !.ko = ko]

RemoveFirst ==
    /\ op.pc = "remove_first"
    /\ LET ps == FirstStage(op.rec)
           left == op.rec.nr_slots - Cardinality(ps)
           rm == [NoRec EXCEPT !.at = op.rec.at - op.rec.nr_slots + 1, !.nr_slots = left]
       IN Put(op.rmd, Delete(slots[op.rmd], ps), {Block(op.rec.at)},
              IF left = 0 THEN Goto(op, op.next) ELSE [op EXCEPT !.pc = "remove", !.rm = rm],
              Goto(op, op.ko))
    /\ UNCHANGED <<bounds, inode, dcache, wb, ghosts>>

RemoveRest ==
    /\ op.pc = "remove"
    /\ LET ps == {p \in op.rm.at .. op.rm.at + op.rm.nr_slots - 1 :
                     Block(p) = Block(op.rm.at)}
           rm == [op.rm EXCEPT !.at = @ + Cardinality(ps), !.nr_slots = @ - Cardinality(ps)]
       IN Put(op.rmd, Delete(slots[op.rmd], ps), {Block(op.rm.at)},
              [op EXCEPT !.rm = rm, !.pc = IF rm.nr_slots = 0 THEN op.next ELSE "remove"],
              Goto(op, op.next))
    /\ UNCHANGED <<bounds, inode, dcache, wb, ghosts>>

(***************************************************************************)
(* The operations of super.cogent.                                         *)
(***************************************************************************)
Found(d, n) == fat_search_long(slots[d], n)
Begin(call, d, n) == [NoOp EXCEPT !.call = call, !.d = d, !.n = n]
Call == op.pc = "idle" /\ calls > 0 /\ calls' = calls - 1 /\ UNCHANGED <<dirsync, drops>>

(* A name is looked up before it is made: it is not there.                 *)
NewName(d, n) == <<d, n>> \in Places /\ Opened(d) /\ dcache[d][n] = None /\ Found(d, n) = {} /\ obj < MaxObj

vfat_create(d, n) ==
    /\ Call /\ NewName(d, n)
    /\ obj' = obj + 1
    /\ op' = AddEntry([Begin("create", d, n) EXCEPT !.obj = obj + 1, !.next = "build"], FALSE, 0)
    /\ UNCHANGED <<blocks, inode, dcache, wb, ghosts>>

(* fat_alloc_new_dir comes first: a cluster with "." and "..".             *)
NewDir(o, d) == Dots(o, d) \o [i \in 1 .. ClusterSlots - 2 |-> Free]
vfat_mkdir(d, n) ==
    /\ Call /\ NewName(d, n)
    /\ obj' = obj + 1
    /\ \/ /\ slots' = [slots EXCEPT ![obj + 1] = NewDir(obj + 1, d)]
          /\ disk' = [disk EXCEPT ![obj + 1] = NewDir(obj + 1, d)]
          /\ op' = AddEntry([Begin("mkdir", d, n) EXCEPT !.obj = obj + 1, !.next = "build"],
                            TRUE, obj + 1)
          /\ UNCHANGED fails
       \/ /\ fails > 0
          /\ fails' = fails - 1
          /\ op' = Return(op, "error")
          /\ UNCHANGED <<slots, disk>>
    /\ UNCHANGED <<inode, dcache, wb, ghosts>>

(* fat_build_inode for the new entry.  When there is no memory the call    *)
(* fails, and the entry stays in the directory.                            *)
NewObject(d, n, o) ==
    /\ tree' = [tree EXCEPT ![d][n] = o]
    /\ data' = IF slots[o] # <<>> THEN data \cup {o} ELSE data
fat_build_inode ==
    /\ op.pc = "build"
    /\ NewObject(op.d, op.n, op.obj)
    /\ \/ \E i \in Unused :
             /\ fat_iget(op.i_pos) = {}
             /\ i = Min(Unused)
             /\ inode' = [inode EXCEPT ![i] = FilledInode(Entry(slots, op.i_pos), op.obj, op.i_pos)]
             /\ dcache' = [dcache EXCEPT ![op.d][op.n] = i]
             /\ op' = Return(op, "ok")
             /\ UNCHANGED fails
       \/ /\ fails > 0 \/ fat_iget(op.i_pos) # {}
          /\ fails' = IF fails > 0 THEN fails - 1 ELSE 0
          /\ op' = Return(op, "error")
          /\ UNCHANGED <<inode, dcache>>
    /\ UNCHANGED <<bounds, slots, disk, wb>>

(* As Fail, but the cluster stays.                                         *)
Fail_KeepsCluster ==
    /\ op.pc = "failed"
    /\ op' = Return(op, "error")
    /\ UNCHANGED <<bounds, blocks, inode, dcache, wb, ghosts>>
(* A call that fails: mkdir gives its cluster back.                        *)
Fail ==
    /\ op.pc = "failed"
    /\ op' = Return(op, "error")
    /\ LET gone == IF op.call = "mkdir" THEN [slots EXCEPT ![op.obj] = <<>>] ELSE slots
       IN slots' = gone /\ disk' = [d \in Dirs |-> IF gone[d] = <<>> THEN <<>> ELSE disk[d]]
    /\ UNCHANGED <<bounds, fails, inode, dcache, wb, ghosts>>

(* An inode that is already in memory is returned as the error of          *)
(* fat_build_inode_cog, and vfat_lookup_ac returns it as a dentry.         *)
vfat_lookup(d, n) ==
    /\ op.pc = "idle" /\ Opened(d) /\ dcache[d][n] = None
    /\ \E rec \in Found(d, n) :
          LET i_pos == <<d, rec.at>>
          IN \/ /\ fat_iget(i_pos) = {} /\ Unused # {}
                /\ LET i == Min(Unused)
                   IN /\ inode' = [inode EXCEPT ![i] = FilledInode(Entry(slots, i_pos), tree[d][n], i_pos)]
                      /\ dcache' = [dcache EXCEPT ![d][n] = i]
                /\ op' = Return(op, "ok")
             \/ /\ fat_iget(i_pos) # {} /\ LooksUpCached
                /\ op' = Return(op, "an inode")
                /\ UNCHANGED <<inode, dcache>>
    /\ UNCHANGED <<bounds, blocks, wb, ghosts>>

vfat_unlink(d, n) ==
    /\ Call /\ dcache[d][n] # None
    /\ ~inode[dcache[d][n]].dir
    /\ \E rec \in Found(d, n) :
          op' = RemoveFrom([Begin("unlink", d, n) EXCEPT !.ino = dcache[d][n]],
                           d, rec, "unlinked", "failed")
    /\ UNCHANGED <<obj, blocks, inode, dcache, wb, ghosts>>

vfat_rmdir(d, n) ==
    /\ Call /\ dcache[d][n] # None
    /\ inode[dcache[d][n]].dir
    /\ fat_dir_empty(slots[inode[dcache[d][n]].obj])
    /\ \E rec \in Found(d, n) :
          op' = RemoveFrom([Begin("rmdir", d, n) EXCEPT !.ino = dcache[d][n]],
                           d, rec, "unlinked", "failed")
    /\ UNCHANGED <<obj, blocks, inode, dcache, wb, ghosts>>

(* clear_nlink and fat_detach, once the entry is removed.                  *)
Unlinked ==
    /\ op.pc = "unlinked"
    /\ inode' = [Detach(inode, op.ino) EXCEPT ![op.ino].linked = FALSE]
    /\ dcache' = [dcache EXCEPT ![op.d][op.n] = None]
    /\ tree' = [tree EXCEPT ![op.d][op.n] = None]
    /\ op' = Return(op, "ok")
    /\ UNCHANGED <<bounds, blocks, wb, data>>

(***************************************************************************)
(* vfat_rename: od, on become d, n.                                        *)
(***************************************************************************)
(* What the VFS allows: the names differ, a directory replaces a           *)
(* directory and does not move into itself.                                *)
MayRename(od, on, d, n) ==
    LET i == dcache[od][on]
        j == dcache[d][n]
    IN /\ i # None /\ i # j /\ Opened(d) /\ <<d, n>> \in Places
       /\ j = None => Found(d, n) = {}
       /\ j # None => inode[i].dir = inode[j].dir
       /\ inode[i].dir => inode[i].obj \notin Above(d)
       /\ j # None /\ inode[j].dir => fat_dir_empty(slots[inode[j].obj])

(* The entry of the new name: that of the inode it replaces, which is      *)
(* detached, or a new one.                                                 *)
vfat_rename(od, on, d, n) ==
    /\ Call /\ MayRename(od, on, d, n)
    /\ LET i == dcache[od][on]
           j == dcache[d][n]
       IN \E rec \in Found(od, on) :
             LET o == [Begin("rename", d, n) EXCEPT !.od = od, !.on = on, !.ino = i, !.new = j,
                                                    !.obj = inode[i].obj, !.rec = rec]
             IN IF j # None
                THEN /\ inode' = Detach(inode, j)
                     /\ op' = [o EXCEPT !.i_pos = inode[j].i_pos, !.pc = "detach"]
                ELSE /\ op' = AddEntry([o EXCEPT !.next = "detach"], inode[i].dir, 0)
                     /\ UNCHANGED inode
    /\ UNCHANGED <<obj, blocks, dcache, wb, ghosts>>

RenameDetach ==
    /\ op.pc = "detach"
    /\ inode' = Detach(inode, op.ino)
    /\ op' = Goto(op, "attach")
    /\ UNCHANGED <<bounds, blocks, dcache, wb, ghosts>>

RenameAttach ==
    /\ op.pc = "attach"
    /\ LET moved == Attach(inode, op.ino, op.i_pos)
       IN inode' = IF dirsync THEN moved ELSE [moved EXCEPT ![op.ino].dirty = TRUE]
    /\ op' = Goto(op, IF dirsync THEN "sync" ELSE "dotdot")
    /\ UNCHANGED <<bounds, blocks, dcache, wb, ghosts>>

(* What __fat_write_inode stores in the slot it finds at i_pos.  The first *)
(* byte of the name stays, the attributes of a long slot would not.        *)
Stored(slot, i) ==
    IF slot.k = "long" THEN Short(Plain("garbage"), inode[i].dir, inode[i].start)
    ELSE IF IsShort(slot) THEN [slot EXCEPT !.dir = inode[i].dir, !.start = inode[i].start]
    ELSE slot
Written(i, i_pos) == [slots[i_pos[1]] EXCEPT ![i_pos[2]] = Stored(@, i)]

(* As RenameSync, but the inode is not written.                            *)
RenameSync_Skipped ==
    /\ op.pc = "sync"
    /\ op' = Goto(op, "dotdot")
    /\ UNCHANGED <<bounds, blocks, inode, dcache, wb, ghosts>>
(* fat_sync_inode of the inode at its new place.                           *)
RenameSync ==
    /\ op.pc = "sync"
    /\ Put(op.d, Written(op.ino, op.i_pos), {Block(op.i_pos[2])},
           Goto(op, "dotdot"), Goto(op, "error_inode"))
    /\ UNCHANGED <<bounds, inode, dcache, wb, ghosts>>

UpdateDotdot == inode[op.ino].dir /\ op.od # op.d
WithDotdot(o, parent) ==
    [slots[o] EXCEPT ![CHOOSE p \in fat_get_dotdot_entry(slots[o]) : TRUE].start = parent]
RemoveOld(o) == RemoveFrom(o, o.od, o.rec, "moved", "error_dotdot")
RenameDotdot ==
    /\ op.pc = "dotdot"
    /\ IF UpdateDotdot
       THEN Put(op.obj, WithDotdot(op.obj, op.d), {0}, RemoveOld(op), Goto(op, "error_dotdot"))
       ELSE op' = RemoveOld(op) /\ UNCHANGED blocks
    /\ UNCHANGED <<bounds, inode, dcache, wb, ghosts>>

Renamed ==
    /\ op.pc = "moved"
    /\ inode' = IF op.new = None THEN inode ELSE [inode EXCEPT ![op.new].linked = FALSE]
    /\ dcache' = [dcache EXCEPT ![op.od][op.on] = None, ![op.d][op.n] = op.ino]
    /\ tree' = [tree EXCEPT ![op.od][op.on] = None, ![op.d][op.n] = op.obj]
    /\ op' = Return(op, "ok")
    /\ UNCHANGED <<bounds, blocks, wb, data>>

(* As UndoDotdot, but ".." stays.                                          *)
UndoDotdot_Kept ==
    /\ op.pc = "error_dotdot"
    /\ op' = [op EXCEPT !.pc = "error_inode", !.corrupt = TRUE]
    /\ UNCHANGED <<bounds, blocks, inode, dcache, wb, ghosts>>
(* error_dotdot, error_inode.                                              *)
UndoDotdot ==
    /\ op.pc = "error_dotdot"
    /\ LET o == [op EXCEPT !.pc = "error_inode", !.corrupt = TRUE]
       IN IF UpdateDotdot THEN Put(op.obj, WithDotdot(op.obj, op.od), {0}, o, o)
          ELSE op' = o /\ UNCHANGED blocks
    /\ UNCHANGED <<bounds, inode, dcache, wb, ghosts>>
UndoDetach ==
    /\ op.pc = "error_inode"
    /\ inode' = Detach(inode, op.ino)
    /\ op' = Goto(op, "reattach")
    /\ UNCHANGED <<bounds, blocks, dcache, wb, ghosts>>
UndoAttach ==
    /\ op.pc = "reattach"
    /\ LET back == Attach(inode, op.ino, <<op.od, op.rec.at>>)
           new == [NoRec EXCEPT !.at = op.i_pos[2], !.nr_slots = Len(op.ents)]
       IN IF op.new # None
          THEN /\ inode' = Attach(back, op.new, op.i_pos)
               /\ op' = Goto(op, IF op.corrupt THEN "resync" ELSE "failed")
          ELSE /\ inode' = back
               /\ op' = RemoveFrom(op, op.d, new, "failed", "failed")
    /\ UNCHANGED <<bounds, blocks, dcache, wb, ghosts>>
UndoSync ==
    /\ op.pc = "resync"
    /\ Put(op.d, Written(op.new, op.i_pos), {Block(op.i_pos[2])},
           Goto(op, "failed"), Goto(op, "failed"))
    /\ UNCHANGED <<bounds, inode, dcache, wb, ghosts>>

(***************************************************************************)
(* Beside the operations: data that gives an inode its first cluster, the  *)
(* write-back and the eviction of inodes, and blocks that reach the disk.  *)
(***************************************************************************)
Write(i) ==
    /\ inode[i].st = "live" /\ ~inode[i].dir /\ inode[i].start = 0
    /\ inode' = [inode EXCEPT ![i].start = inode[i].obj, ![i].dirty = TRUE]
    /\ data' = data \cup {inode[i].obj}
    /\ UNCHANGED <<bounds, blocks, dcache, op, wb, tree>>

(* __fat_write_inode: i_pos is read, the block is read, and unless i_pos   *)
(* has changed meanwhile the entry is written.                             *)
WriteInode(i) ==
    /\ wb = NoWb
    /\ inode[i].st = "live" /\ inode[i].dirty
    /\ inode' = [inode EXCEPT ![i].dirty = FALSE]
    /\ wb' = IF inode[i].i_pos = NoPos THEN NoWb ELSE [ino |-> i, i_pos |-> inode[i].i_pos]
    /\ UNCHANGED <<bounds, blocks, dcache, op, ghosts>>
(* As WriteEntry, but the inode may have moved.                            *)
WriteEntry_NoCheck ==
    /\ wb # NoWb
    /\ slots' = [slots EXCEPT ![wb.i_pos[1]] = Written(wb.ino, wb.i_pos)]
    /\ disk' = IF dirsync THEN disk ELSE slots'
    /\ wb' = NoWb
    /\ UNCHANGED <<bounds, fails, inode, dcache, op, ghosts>>
WriteEntry ==
    /\ wb # NoWb
    /\ UndoRaces \/ wb.ino # op.ino \/ op.pc \notin {"sync", "error_inode"}
    /\ IF inode[wb.ino].i_pos = wb.i_pos
       THEN /\ slots' = [slots EXCEPT ![wb.i_pos[1]] = Written(wb.ino, wb.i_pos)]
            /\ disk' = IF dirsync THEN disk ELSE slots'
            /\ wb' = NoWb
       ELSE /\ wb' = IF inode[wb.ino].i_pos = NoPos THEN NoWb
                     ELSE [wb EXCEPT !.i_pos = inode[wb.ino].i_pos]
            /\ UNCHANGED <<slots, disk>>
    /\ UNCHANGED <<bounds, fails, inode, dcache, op, ghosts>>

Flush(d, b) ==
    /\ slots[d] # disk[d]
    /\ disk' = [disk EXCEPT ![d] = Merge(@, slots[d], {b})]
    /\ disk' # disk
    /\ UNCHANGED <<bounds, fails, slots, inode, dcache, op, wb, ghosts>>

(* The VFS drops a dentry, and an inode that is clean or unlinked: igrab   *)
(* fails at once, fat_detach follows.                                      *)
Shrink(d, n) ==
    /\ dcache[d][n] # None /\ drops > 0 /\ op.pc = "idle"
    /\ ~InUse(dcache[d][n]) /\ ~Pinned(dcache[d][n])
    /\ dcache' = [dcache EXCEPT ![d][n] = None]
    /\ drops' = drops - 1
    /\ UNCHANGED <<dirsync, obj, calls, blocks, inode, op, wb, ghosts>>
Evictable(i) == inode[i].st = "live" /\ ~Dentry(i) /\ ~InUse(i) /\ wb.ino # i
Evict(i) ==
    /\ Evictable(i) /\ inode[i].linked /\ ~inode[i].dirty
    /\ inode' = [inode EXCEPT ![i].st = "freeing"]
    /\ UNCHANGED <<bounds, blocks, dcache, op, wb, ghosts>>
fat_evict_inode(i) ==
    /\ inode[i].st = "freeing" \/ (Evictable(i) /\ ~inode[i].linked)
    /\ inode' = [inode EXCEPT ![i] = NoInode]
    /\ LET free(s) == IF inode[i].dir /\ ~inode[i].linked
                      THEN [s EXCEPT ![inode[i].obj] = <<>>] ELSE s
       IN slots' = free(slots) /\ disk' = free(disk)
    /\ UNCHANGED <<bounds, fails, dcache, op, wb, ghosts>>

Finished ==
    /\ calls = 0 /\ op.pc = "idle" /\ wb = NoWb
    /\ UNCHANGED vars

(* A mounted volume, its objects looked up.                                *)
Init ==
    /\ dirsync \in BOOLEAN
    /\ \E v \in Volumes :
          LET used == {o \in Objs : Parent(v.tree, o) # {}}
              place(o) == CHOOSE dn \in Dirs \X Names : v.tree[dn[1]][dn[2]] = o
              at(o) == (CHOOSE r \in fat_search_long(v.slots[place(o)[1]], place(o)[2]) : TRUE).at
              pos(o) == <<place(o)[1], at(o)>>
          IN /\ slots = v.slots /\ disk = v.slots /\ tree = v.tree
             /\ inode = [i \in Inos |-> IF i \in used
                                        THEN FilledInode(Entry(v.slots, pos(i)), i, pos(i))
                                        ELSE NoInode]
             /\ dcache = v.tree
             /\ data = used
             /\ obj = Cardinality(used)
    /\ op = NoOp /\ wb = NoWb
    /\ calls = MaxCalls /\ fails = MaxFails /\ drops = MaxDrops

Next ==
    \/ \E d \in Dirs, n \in Names :
          \/ vfat_create(d, n) \/ vfat_mkdir(d, n) \/ vfat_lookup(d, n)
          \/ vfat_unlink(d, n) \/ vfat_rmdir(d, n) \/ Shrink(d, n)
          \/ \E od \in Dirs, on \in Names : vfat_rename(od, on, d, n)
    \/ FillLong \/ FillShort \/ fat_add_new_entries \/ RemoveFirst \/ RemoveRest
    \/ fat_build_inode \/ Fail \/ Unlinked
    \/ RenameDetach \/ RenameAttach \/ RenameSync \/ RenameDotdot \/ Renamed
    \/ UndoDotdot \/ UndoDetach \/ UndoAttach \/ UndoSync
    \/ \E i \in Inos : Write(i) \/ WriteInode(i) \/ Evict(i) \/ fat_evict_inode(i)
    \/ WriteEntry
    \/ \E d \in Dirs, b \in 0 .. 5 : Flush(d, b)
    \/ Finished

Spec == Init /\ [][Next]_vars
-----------------------------------------------------------------------------
(* The variables have the types of the structures they stand for: a        *)
(* dentry's inode is alive, an inode's i_pos is a slot, and the clusters   *)
(* of a directory are there as long as it is named, in memory or made.     *)
TypeOK ==
    /\ dirsync \in BOOLEAN
    /\ \A d \in Dirs : DOMAIN slots[d] = DOMAIN disk[d]
    /\ \A i \in Inos : /\ inode[i].st \in {"free", "live", "freeing"}
                       /\ inode[i].st = "live" /\ inode[i].i_pos # NoPos
                             => inode[i].i_pos[2] \in DOMAIN slots[inode[i].i_pos[1]]
    /\ \A d \in Dirs, n \in Names : dcache[d][n] # None => inode[dcache[d][n]].st = "live"
    /\ \A o \in Objs : slots[o] # <<>> =>
          Reached(o) \/ op.obj = o \/ \E i \in Inos : inode[i].obj = o

(* Between calls, a directory lists each of its names once and no other,   *)
(* whatever slots a failed or interrupted call has left behind, and a      *)
(* search finds them (fat_search_long, __fat_readdir, fat_add_entries,     *)
(* fat_remove_entries).                                                    *)
NamesMatch ==
    op.pc = "idle" =>
        \A d \in {d \in Dirs : Reached(d)} :
            LET listing == fat_readdir(slots[d])
                named == {n \in Names : tree[d][n] # None}
                listed == {i \in DOMAIN listing : listing[i] \notin DotNames}
            IN /\ {listing[i] : i \in listed} = {Plain(n) : n \in named}
               /\ Cardinality(listed) = Cardinality(named)
               /\ \A n \in named : Found(d, n) # {}

(* Aliases are unique: no two short entries of a directory have the same   *)
(* name, though long names share their first letters                       *)
(* (vfat_create_shortname).                                                *)
AliasesUnique ==
    \A d \in Dirs : \A p, q \in Shorts(slots[d]) :
        slots[d][p].name = slots[d][q].name => p = q

(* An entry in a directory has at most one inode: two would write their    *)
(* own first cluster over each other's (fat_iget, fat_attach, fat_detach). *)
OneInodePerEntry ==
    \A i, j \in Inos :
        inode[i].st = "live" /\ inode[j].st = "live" /\ inode[i].i_pos = inode[j].i_pos
            => i = j \/ inode[i].i_pos = NoPos

Clean(o) == \A i \in Inos : inode[i].obj = o => ~inode[i].dirty /\ wb.ino # i

(* Between calls, the entry of an object whose inode is not dirty holds    *)
(* its first cluster: no write-back went to the place of another entry, or *)
(* was lost in a rename (__fat_write_inode, vfat_rename).  A block that    *)
(* could not be written may have taken a write-back with it.               *)
EntryCurrent ==
    op.pc = "idle" /\ (dirsync => fails = MaxFails) =>
        \A d \in Dirs, n \in Names : \A r \in Found(d, n) :
            LET o == tree[d][n]
            IN Reached(d) /\ o # None /\ Clean(o)
                  => slots[d][r.at].start = IF o \in data THEN o ELSE 0

(* A directory's ".." is its parent, also after a rename that failed.      *)
DotdotMatches ==
    op.pc = "idle" =>
        \A o \in Objs : \A p \in Parent(tree, o) :
            slots[o] # <<>> => \A q \in fat_get_dotdot_entry(slots[o]) : slots[o][q].start = p

AtFirst == {o \in Objs : \A v \in Volumes : Parent(v.tree, o) # {}}
OnDisk(d, n, o) ==
    \E r \in fat_search_long(disk[d], n) :
        disk[d][r.at].start \in (IF o \in AtFirst THEN {o} ELSE {0, o})

(* On a DIRSYNC mount the disk never loses a name: at every moment, in the *)
(* middle of calls, it holds every name the callers know with its object,  *)
(* and the object that a rename moves under its old or its new name.  The  *)
(* first cluster of a file made meanwhile may not have been written yet.   *)
DiskKeepsNames ==
    dirsync =>
        \A d \in Dirs, n \in Names :
            LET o == tree[d][n]
                removed == op.call \in {"unlink", "rmdir"} /\ <<op.d, op.n>> = <<d, n>>
                replaced == op.call = "rename" /\ <<op.d, op.n>> = <<d, n>>
                moved == op.call = "rename" /\ <<op.od, op.on>> = <<d, n>>
            IN o # None /\ ~removed /\ ~replaced =>
                  OnDisk(d, n, o) \/ (moved /\ OnDisk(op.d, op.n, o))

(* A lookup answers with a dentry, also when it finds the inode in memory: *)
(* "lookup() and readdir() do igrab() if they find a F-d-c entry".         *)
LookupAnswers == op.res # "an inode"
=============================================================================
