------------------------------- MODULE Ostore -------------------------------
(***************************************************************************)
(* The object store of BilbyFs (ostore.c) with the garbage collector       *)
(* (gc.c): transactional writes of lists of objects through a write buffer *)
(* to a log of erase-blocks, synchronisation, summaries, mounting by       *)
(* scanning the log, and garbage collection.                               *)
(*                                                                         *)
(* Every file system operation holds one semaphore, so at most one call is *)
(* active: pc is where it stands.  Each loop of the code is an action that *)
(* does one iteration.  What interleaves with a call is the power failure. *)
(***************************************************************************)
EXTENDS Fsm, Index, Wbuf

CONSTANTS
    Txns,            \* the lists of objects clients write: [objs, flag]
    RootTxn,         \* the list fsop_format_default writes: the root inode
    no_summary,      \* bi->no_summary
    MaxFails,        \* bound: requests that memory or the flash refuse
    MayTear,         \* whether a power failure may interrupt a flash write
    MaxTxns,         \* bound: client writes
    MaxCrashes,      \* bound: power failures
    MaxUnmounts      \* bound: orderly unmounts

TxnObj == [type : IndexedTypes \cup {DEL}, id : Ids, len : Nat \ {0}]
Txn == [objs : Seq(TxnObj) \ {<<>>}, flag : {"NONE", "DEL"}]

ASSUME ClientAssumption ==
    /\ Txns \subseteq Txn /\ RootTxn \in Txn
    /\ no_summary \in BOOLEAN /\ MayTear \in BOOLEAN
    /\ MaxFails \in Nat /\ MaxTxns \in Nat /\ MaxCrashes \in Nat /\ MaxUnmounts \in Nat

VARIABLES
    super,        \* sequence number of the super object on the flash, 0: none
    super_sqnum,  \* bi->super.sqnum
    formatting,   \* fsop_format_default is writing the root inode
    next_sqnum,   \* bi->next_sqnum: the last number given out
    summary,      \* bi->summary->entries
    pc,           \* where the active call stands
    op,           \* the active ostore_write_obj_list
    caller,       \* the write that waits in fsm_alloc_eb for the collector
    sforce,       \* argument of the active ostore_sync
    sret,         \* where the active ostore_sync returns to
    gc_lnum, gc_list, gc_valid,    \* locals of gc_garbage_collect
    scan,         \* objects of an LEB still to be scanned
    tot_used,     \* mount_proc_sum: bytes the entries account for
    mq,           \* mount: addresses of the transaction, or of the summary
    del_list,     \* mount: deletion objects met, last one first
    mlnum,        \* mount: the LEB being scanned
    dcur, del,    \* proc_obj of a deletion object: position and object
    dret,         \* where that proc_obj returns to
    hist,         \* the store's content after each client write
    nsync,        \* hist[nsync] was reported to be on the flash
    stale,        \* mounted with a next_sqnum below a number on the flash
    ntxn, ncrash, nunmount, nfail  \* how often each bounded event happened

mount_vars == <<scan, mq, tot_used, del_list, mlnum>>
del_vars == <<dcur, del, dret>>
gc_vars == <<gc_lnum, gc_list, gc_valid>>
sync_vars == <<sforce, sret>>
op_vars == <<op, caller>>
super_vars == <<super, super_sqnum, formatting>>
bounds == <<ntxn, ncrash, nunmount, nfail>>
ghosts == <<hist, nsync, stale>>
vars == <<flash, wbuf_vars, fsm_vars, index_vars, super_vars, next_sqnum,
          summary, pc, op_vars, sync_vars, gc_vars, mount_vars, del_vars,
          ghosts, bounds>>

(* An address to process: of an object, or of a summary entry (count).     *)
Job == [type : Types, id : Ids \cup {NIL_ID}, addr : Addr, count : Nat]
NoJob == [type |-> PAD, id |-> NIL_ID, addr |-> NoAddr, count |-> 0]

(* A call of ostore_write_obj_list: the objects, the flag ("GC" stands for *)
(* OSW_GC | OSW_SYNC), the loop index, the offset of the next object to    *)
(* index, the size of the list and which fsm_alloc_eb is active.           *)
Op == [objs : Seq(Item), flag : {"NONE", "DEL", "GC"}, i : Nat, offs : Nat,
       serial_sz : Nat, second : BOOLEAN]
NewOp(objs, flag) == [objs |-> objs, flag |-> flag, i |-> 1, offs |-> 0,
                      serial_sz |-> 0, second |-> FALSE]
NoOp == NewOp(<<>>, "NONE")

ClientItem(o, v) ==
    [type |-> o.type, id |-> o.id, len |-> o.len, offs |-> 0, sqnum |-> 0,
     trans |-> 0, val |-> IF o.type = DEL THEN 0 ELSE v, ents |-> <<>>]
ClientOp(t, v) ==
    NewOp([k \in DOMAIN t.objs |-> ClientItem(t.objs[k], v)], t.flag)

----------------------------------------------------------------------------
(* What the store holds, for the properties: 0 for no object.              *)

(* ostore_read_obj: the version of id, 0 if it is not in the index, -1 if  *)
(* the address holds something else.                                       *)
ReadObj(id) ==
    LET a == idx[id]
        s == IF a.lnum = fsm_lnum THEN buf ELSE flash[a.lnum]
        here == {k \in DOMAIN s : s[k].offs = a.offs}
    IN IF ~Present(id) THEN 0
       ELSE IF here = {} THEN -1
       ELSE LET o == s[CHOOSE k \in here : TRUE]
            IN IF o.id = id /\ o.type \in IndexedTypes THEN o.val ELSE -1
View == [x \in Ids |-> ReadObj(x)]

SqnumsOnFlash == UNION {{flash[l][k].sqnum : k \in DOMAIN flash[l]} : l \in Lnums}

----------------------------------------------------------------------------
(* The memory of a file system that is not mounted.                        *)
Init ==
    /\ flash = [l \in Lnums |-> <<>>] /\ super = 0
    /\ wbuf_init /\ fsm_init /\ idx = idx_init /\ gim = gim_init
    /\ super_sqnum = 0 /\ formatting = FALSE
    /\ next_sqnum = 1 /\ summary = <<>>
    /\ pc = "off" /\ op = NoOp /\ caller = <<>>
    /\ sforce = FALSE /\ sret = "idle"
    /\ gc_lnum = 0 /\ gc_list = <<>> /\ gc_valid = <<>>
    /\ scan = <<>> /\ mq = <<>> /\ tot_used = 0 /\ del_list = <<>> /\ mlnum = 0
    /\ dcur = NIL_ID /\ del = NoJob /\ dret = "idle"
    /\ hist = <<[x \in Ids |-> 0]>> /\ nsync = 1 /\ stale = FALSE
    /\ ntxn = 0 /\ ncrash = 0 /\ nunmount = 0 /\ nfail = 0

(* Everything in memory is lost.                                           *)
LoseMemory ==
    /\ wbuf_reset /\ fsm_reset /\ idx' = idx_init /\ gim' = gim_init
    /\ super_sqnum' = 0 /\ formatting' = FALSE
    /\ next_sqnum' = 1 /\ summary' = <<>>
    /\ pc' = "off" /\ op' = NoOp /\ caller' = <<>>
    /\ sforce' = FALSE /\ sret' = "idle"
    /\ gc_lnum' = 0 /\ gc_list' = <<>> /\ gc_valid' = <<>>
    /\ scan' = <<>> /\ mq' = <<>> /\ tot_used' = 0 /\ del_list' = <<>>
    /\ mlnum' = 0
    /\ dcur' = NIL_ID /\ del' = NoJob /\ dret' = "idle"

----------------------------------------------------------------------------
(* Calls and returns                                                       *)

(* ostore_write_obj_list by a file system operation.                       *)
WriteCall(t) ==
    /\ pc = "idle" /\ ntxn < MaxTxns
    /\ op' = ClientOp(t, ntxn + 2)
    /\ ntxn' = ntxn + 1
    /\ pc' = "enter"
    /\ UNCHANGED <<flash, wbuf_vars, fsm_vars, index_vars, super_vars,
                   next_sqnum, summary, caller, sync_vars, gc_vars, mount_vars,
                   del_vars, ghosts, ncrash, nunmount, nfail>>

(* fsop_sync_fs with wait set: ostore_sync(bi, false).                     *)
SyncFs ==
    /\ pc = "idle"
    /\ pc' = "sync" /\ sforce' = FALSE /\ sret' = "idle"
    /\ UNCHANGED <<flash, wbuf_vars, fsm_vars, index_vars, super_vars,
                   next_sqnum, summary, op_vars, gc_vars, mount_vars, del_vars,
                   ghosts, bounds>>

(* The active write fails: the error goes to the client; if it was the     *)
(* collector's write, the waiting fsm_alloc_eb fails and so does its write.*)
(* If it was the root inode, the mount fails.                              *)
ReturnError ==
    /\ pc' = IF formatting THEN "mfail" ELSE "idle"
    /\ op' = NoOp /\ caller' = <<>>

(* Memory or the flash refuses a request.                                  *)
Refused == nfail < MaxFails /\ nfail' = nfail + 1

(* The active write succeeds.                                              *)
WriteDone ==
    /\ pc = "index" /\ op.i > Len(op.objs)
    /\ IF caller = <<>>
       THEN /\ pc' = "idle" /\ op' = NoOp /\ formatting' = FALSE
            /\ hist' = Append(hist, Apply(hist[Len(hist)], op.objs))
       ELSE /\ pc' = "gcerase" /\ UNCHANGED <<op, formatting, hist>>
    /\ UNCHANGED <<flash, wbuf_vars, fsm_vars, index_vars, super,
                   super_sqnum, next_sqnum, summary, caller, sync_vars, gc_vars, mount_vars,
                   del_vars, nsync, stale, bounds>>

----------------------------------------------------------------------------
(* ostore_write_obj_list                                                   *)

Enter ==
    /\ pc = "enter"
    /\ pc' = IF fsm_lnum = 0 \/ avail = 0 THEN "alloc" ELSE "presync"
    /\ UNCHANGED <<flash, wbuf_vars, fsm_vars, index_vars, super_vars,
                   next_sqnum, summary, op_vars, sync_vars, gc_vars, mount_vars,
                   del_vars, ghosts, bounds>>

(* fsm_alloc_eb, once there is enough free space: take the first LEB that  *)
(* is free, start the buffer, and go on behind the call.                   *)
AllocTake ==
    /\ fsm_take_first_free /\ wbuf_start
    /\ IF op.second THEN pc' = "write" /\ op' = [op EXCEPT !.i = 1, !.offs = 0]
                    ELSE pc' = "presync" /\ UNCHANGED op
    /\ UNCHANGED caller

(* fsm_alloc_eb.  It forgets the LEB that was being filled; without enough *)
(* free space the collector runs, unless it is the collector that writes:  *)
(* then fsm_check_free_space never refuses, but no LEB may be left.        *)
Alloc ==
    /\ pc = "alloc"
    /\ \/ fsm_check_free_space(op.flag) /\ AllocTake
       \/ /\ fsm_lnum' = 0
          /\ \/ fsm_check_free_space(op.flag) /\ FreeLebs = {} /\ ReturnError
             \/ /\ ~fsm_check_free_space(op.flag)
                /\ pc' = "gc" /\ UNCHANGED op_vars
          /\ UNCHANGED <<dirty_list, used_leb_list, fsm_nb_free_eb, wbuf_vars>>
    /\ UNCHANGED <<flash, index_vars, super_vars, next_sqnum, summary, sync_vars,
                   gc_vars, mount_vars, del_vars, ghosts, bounds>>

(* With OSW_SYNC the buffer is synchronised before the objects are packed. *)
Presync ==
    /\ pc = "presync"
    /\ IF op.flag = "GC" THEN pc' = "sync" /\ sforce' = FALSE /\ sret' = "pack"
                         ELSE pc' = "pack" /\ UNCHANGED sync_vars
    /\ UNCHANGED <<flash, wbuf_vars, fsm_vars, index_vars, super_vars,
                   next_sqnum, summary, op_vars, gc_vars, mount_vars, del_vars,
                   ghosts, bounds>>

(* pack_obj_header for the next object, and its share of the list's size.  *)
(* Until it is in the buffer, an object's offs is its offset in the list.  *)
Pack ==
    /\ pc = "pack" /\ op.i <= Len(op.objs)
    /\ op' = [op EXCEPT !.objs[op.i].sqnum = next_sqnum + 1,
                        !.objs[op.i].trans = get_obj_trans(Len(op.objs), op.i),
                        !.objs[op.i].offs = op.serial_sz,
                        !.serial_sz = op.serial_sz + op.objs[op.i].len,
                        !.i = op.i + 1]
    /\ next_sqnum' = next_sqnum + 1
    /\ UNCHANGED <<flash, wbuf_vars, fsm_vars, index_vars, super_vars, summary,
                   pc, caller, sync_vars, gc_vars, mount_vars, del_vars, ghosts,
                   bounds>>

(* What the list needs in the LEB, the summary that will describe it too.  *)
\* Mutant: the entries of the list itself are not counted.
Mutant_SpaceNeeded ==
    op.serial_sz + IF no_summary THEN 0 ELSE obj_sum_size(Len(summary))
SpaceNeeded ==
    op.serial_sz +
        IF no_summary THEN 0
        ELSE obj_sum_size_with_extra(Len(summary), Len(op.objs))

(* The list goes behind the buffered objects if it fits; otherwise the LEB *)
(* is closed with its summary and a new one is allocated.                  *)
SpaceCheck ==
    /\ pc = "pack" /\ op.i > Len(op.objs)
    /\ IF avail < SpaceNeeded
       THEN /\ pc' = "sync" /\ sforce' = TRUE /\ sret' = "alloc"
            /\ op' = [op EXCEPT !.second = TRUE]
       ELSE /\ pc' = "write" /\ op' = [op EXCEPT !.i = 1, !.offs = used]
            /\ UNCHANGED sync_vars
    /\ UNCHANGED <<flash, wbuf_vars, fsm_vars, index_vars, super_vars,
                   next_sqnum, summary, caller, gc_vars, mount_vars, del_vars,
                   ghosts, bounds>>

(* wbuf_write_obj for the next object; -EINVAL when the buffer is full.    *)
WriteObj ==
    /\ pc = "write" /\ op.i <= Len(op.objs)
    /\ IF avail < op.objs[op.i].len
       THEN ReturnError /\ UNCHANGED wbuf_vars
       ELSE /\ wbuf_write_obj(op.objs[op.i])
            /\ op' = [op EXCEPT !.i = op.i + 1]
            /\ UNCHANGED <<pc, caller>>
    /\ UNCHANGED <<flash, fsm_vars, index_vars, super_vars, next_sqnum, summary,
                   sync_vars, gc_vars, mount_vars, del_vars, ghosts, bounds>>

\* Mutant: the collector's write is not synchronised.
Mutant_Postsync ==
    /\ pc = "write" /\ op.i > Len(op.objs)
    /\ pc' = "pool"
    /\ UNCHANGED <<flash, wbuf_vars, fsm_vars, index_vars, super_vars,
                   next_sqnum, summary, op_vars, sync_vars, gc_vars, mount_vars,
                   del_vars, ghosts, bounds>>
Postsync ==
    /\ pc = "write" /\ op.i > Len(op.objs)
    /\ IF op.flag = "GC" THEN pc' = "sync" /\ sforce' = FALSE /\ sret' = "pool"
                         ELSE pc' = "pool" /\ UNCHANGED sync_vars
    /\ UNCHANGED <<flash, wbuf_vars, fsm_vars, index_vars, super_vars,
                   next_sqnum, summary, op_vars, gc_vars, mount_vars, del_vars,
                   ghosts, bounds>>

(* allocpool_alloc: the nodes the indexes may need are allocated before    *)
(* the indexes change; the objects are in the buffer already.              *)
Pool ==
    /\ pc = "pool"
    /\ \/ pc' = "index" /\ op' = [op EXCEPT !.i = 1] /\ UNCHANGED <<caller, nfail>>
       \/ Refused /\ ReturnError
    /\ UNCHANGED <<flash, wbuf_vars, fsm_vars, index_vars, super_vars,
                   next_sqnum, summary, sync_vars, gc_vars, mount_vars,
                   del_vars, ghosts, ntxn, ncrash, nunmount>>

----------------------------------------------------------------------------
(* sum_obj: the summary entry of an object just written.  A deletion entry *)
(* may take the place of an entry it makes superfluous, an object the      *)
(* place of its older version.                                             *)

(* Whether the loop over the entries stops at e.                           *)
SumStops(e, o, addr) ==
    LET oid_type == type_from_id(o.id)
    IN IF o.type = DEL /\ oid_type # DENTARR
       THEN /\ inum_from_id(e.id) = inum_from_id(o.id) /\ e.id > o.id
            /\ e.sqnum < addr.sqnum
       ELSE /\ e.id = o.id
            /\ o.type # DEL /\ oid_type # DENTARR => ~e.del

sum_obj(o, addr) ==
    LET slot == SelectInSeq(summary, LAMBDA e : SumStops(e, o, addr))
        entry(count) == [id |-> o.id, sqnum |-> addr.sqnum, len |-> addr.len,
                         offs |-> addr.offs, del |-> o.type = DEL,
                         count |-> count]
    IN IF slot = 0 THEN Append(summary, entry(0))
       ELSE IF summary[slot].sqnum > addr.sqnum THEN summary
       ELSE [summary EXCEPT ![slot] = entry((@.count + 1) % U16)]

(* The part of proc_obj that concerns the free space manager: the bytes of *)
(* the address given are garbage as soon as the object had a node.         *)
proc_dirty(id, addr) ==
    IF Present(id) THEN fsm_mark_dirty(dirty_list, addr.lnum, addr.len)
                   ELSE dirty_list

(* proc_obj.  For a deletion object it only starts the loop of DelStep,    *)
(* which returns to ret.                                                   *)
proc_obj(type, id, addr, ret) ==
    \/ /\ type = PAD
       /\ dirty_list' = fsm_mark_dirty(dirty_list, addr.lnum, addr.len)
       /\ pc' = ret
       /\ UNCHANGED <<index_vars, del_vars>>
    \/ /\ type \in IndexedTypes
       /\ idx' = proc_idx(id, addr)
       /\ gim' = proc_gim(id, addr)
       /\ dirty_list' = proc_dirty(id, addr)
       /\ pc' = ret
       /\ UNCHANGED del_vars
    \/ /\ type = DEL
       /\ del' = [type |-> DEL, id |-> id, addr |-> addr, count |-> 0]
       /\ dcur' = id /\ dret' = ret
       /\ pc' = "del"
       /\ UNCHANGED <<index_vars, dirty_list>>

(* One object of the list goes into the index and the summary.             *)
IndexObj ==
    /\ pc = "index" /\ op.i <= Len(op.objs)
    /\ LET o == op.objs[op.i]
           addr == [lnum |-> fsm_lnum, offs |-> op.offs, len |-> o.len,
                    sqnum |-> o.sqnum]
       IN /\ proc_obj(o.type, o.id, addr, "index")
          /\ summary' = IF no_summary THEN summary ELSE sum_obj(o, addr)
          /\ op' = [op EXCEPT !.i = op.i + 1, !.offs = op.offs + o.len]
    /\ UNCHANGED <<flash, wbuf_vars, used_leb_list, fsm_nb_free_eb, fsm_lnum,
                   super_vars, next_sqnum, caller, sync_vars, gc_vars,
                   mount_vars, ghosts, bounds>>

(* proc_obj of a deletion object, one identifier: an older version leaves  *)
(* the index and becomes garbage.                                          *)
DelStep ==
    /\ pc = "del" /\ dcur # NIL_ID
    /\ LET old == idx[dcur]
       IN IF Present(dcur) /\ old.sqnum < del.addr.sqnum
          THEN /\ idx' = [idx EXCEPT ![dcur] = NoAddr]
               /\ gim' = gim_mark_garbage(gim, dcur, old.sqnum)
               /\ dirty_list' = fsm_mark_dirty(dirty_list, old.lnum, old.len)
          ELSE UNCHANGED <<index_vars, dirty_list>>
    /\ IF type_from_id(del.id) = DENTARR \/ idx_greater(dcur) = {}
       THEN dcur' = NIL_ID
       ELSE \E x \in idx_greater(dcur) :
               (\A y \in idx_greater(dcur) : x <= y) /\ dcur' = x
    /\ UNCHANGED <<flash, wbuf_vars, used_leb_list, fsm_nb_free_eb, fsm_lnum,
                   super_vars, next_sqnum, summary, pc, op_vars, sync_vars,
                   gc_vars, mount_vars, del, dret, ghosts, bounds>>

(* The deletion object itself is garbage.                                  *)
DelDone ==
    /\ pc = "del" /\ dcur = NIL_ID
    /\ gim' = gim_mark_garbage(gim, del.id, del.addr.sqnum)
    /\ dirty_list' = fsm_mark_dirty(dirty_list, del.addr.lnum, del.addr.len)
    /\ pc' = dret
    /\ UNCHANGED <<flash, wbuf_vars, used_leb_list, fsm_nb_free_eb, fsm_lnum,
                   idx, super_vars, next_sqnum, summary, op_vars, sync_vars,
                   gc_vars, mount_vars, del_vars, ghosts, bounds>>

----------------------------------------------------------------------------
(* ostore_sync                                                             *)

SyncForced == sforce /\ ~no_summary
SyncNothing == (sync_offs = used /\ ~SyncForced) \/ avail = 0

(* The summary closes the LEB when it is asked for, and when the next page *)
(* would leave no room for one more object and its entry.                  *)
SyncWithSummary ==
    /\ ~no_summary
    /\ \/ SyncForced
       \/ ALIGN(used, MinIoSize) + obj_sum_size_with_extra(Len(summary), 1)
              + ChSz > LebSize

(* The objects that sync appends to the buffer, the padding it needed and  *)
(* the sequence numbers it used.                                           *)
\* Mutant of ostore_write_summary: room is left for an entry too many.
Mutant_SyncPadSize ==
    IF SyncWithSummary THEN avail - obj_sum_size(Len(summary) + 1)
                       ELSE CommitPadSize
SyncPadSize ==
    IF SyncWithSummary THEN avail - obj_sum_size(Len(summary)) ELSE CommitPadSize
SyncSqnum == next_sqnum + PadSqnums(SyncPadSize) + IF SyncWithSummary THEN 1 ELSE 0
SyncItems ==
    Padding(used, SyncPadSize, next_sqnum + 1) \o
        IF SyncWithSummary
        THEN <<SumItem(used + SyncPadSize, obj_sum_size(Len(summary)), SyncSqnum,
                       summary)>>
        ELSE <<>>
SyncUsed == IF SyncWithSummary THEN used + avail ELSE used + SyncPadSize

(* The assertions in front of the flash write (BUG_ON): the step is not    *)
(* possible when one fails.                                                *)
SyncAsserts ==
    /\ fsm_lnum # 0
    /\ SyncWithSummary => avail >= obj_sum_size(Len(summary))
    /\ ~SyncWithSummary => used > 0
    /\ sync_offs < SyncUsed
    /\ sync_offs = ALIGN(sync_offs, MinIoSize)
    /\ SyncUsed = ALIGN(SyncUsed, MinIoSize) /\ SyncUsed <= LebSize

(* ostore_sync has nothing to do, and reports success.                     *)
SyncNop ==
    /\ pc = "sync" /\ SyncNothing
    /\ pc' = sret
    /\ nsync' = Len(hist)
    /\ UNCHANGED <<flash, wbuf_vars, fsm_vars, index_vars, super_vars,
                   next_sqnum, summary, op_vars, sync_vars, gc_vars, mount_vars,
                   del_vars, hist, stale, bounds>>

(* What a sync does in memory before it writes.                            *)
\* Mutant of ostore_write_summary: the summary is not emptied.
Mutant_SyncFill ==
    /\ buf' = buf \o SyncItems
    /\ used' = SyncUsed
    /\ avail' = avail - (SyncUsed - used)
    /\ next_sqnum' = SyncSqnum
    /\ dirty_list' = fsm_mark_dirty(dirty_list, fsm_lnum, SyncPadSize)
    /\ UNCHANGED summary
SyncFill ==
    /\ buf' = buf \o SyncItems
    /\ used' = SyncUsed
    /\ avail' = avail - (SyncUsed - used)
    /\ summary' = IF SyncWithSummary THEN <<>> ELSE summary
    /\ next_sqnum' = SyncSqnum
    /\ dirty_list' = fsm_mark_dirty(dirty_list, fsm_lnum, SyncPadSize)

(* The pages from sync_offs on are programmed.                             *)
SyncWrite ==
    /\ pc = "sync" /\ ~SyncNothing /\ SyncAsserts
    /\ SyncFill
    /\ flash' = [flash EXCEPT ![fsm_lnum] = @ \o Pending(buf')]
    /\ sync_offs' = used' /\ sync_n' = Len(buf')
    /\ nsync' = Len(hist)
    /\ pc' = sret
    /\ UNCHANGED <<used_leb_list, fsm_nb_free_eb, fsm_lnum, index_vars,
                   super_vars, op_vars, sync_vars, gc_vars, mount_vars,
                   del_vars, hist, stale, bounds>>

(* ubi_leb_write fails: the buffer keeps its new length.  ostore_unmount   *)
(* ignores the error, every other caller gives up.                         *)
\* Mutant of wbuf_commit: sync_offs moves on although the write failed.
Mutant_SyncError ==
    /\ pc = "sync" /\ ~SyncNothing /\ SyncAsserts
    /\ Refused /\ SyncFill
    /\ sync_offs' = used' /\ sync_n' = Len(buf')
    /\ IF sret = "super" THEN pc' = "super" /\ UNCHANGED op_vars ELSE ReturnError
    /\ UNCHANGED <<flash, used_leb_list, fsm_nb_free_eb,
                   fsm_lnum, index_vars, super_vars, sync_vars, gc_vars,
                   mount_vars, del_vars, ghosts, ntxn, ncrash, nunmount>>
SyncError ==
    /\ pc = "sync" /\ ~SyncNothing /\ SyncAsserts
    /\ Refused /\ SyncFill
    /\ IF sret = "super" THEN pc' = "super" /\ UNCHANGED op_vars ELSE ReturnError
    /\ UNCHANGED <<flash, sync_offs, sync_n, used_leb_list, fsm_nb_free_eb,
                   fsm_lnum, index_vars, super_vars, sync_vars, gc_vars,
                   mount_vars, del_vars, ghosts, ntxn, ncrash, nunmount>>

----------------------------------------------------------------------------
(* gc_garbage_collect, called by fsm_alloc_eb.  Any failure of it makes    *)
(* fsm_alloc_eb, and the write that called it, fail.  The failures before  *)
(* the first write (two allocations, the reads) all happen in GcStart.     *)

GcStart ==
    /\ pc = "gc"
    /\ \/ \E l \in Lnums :
             /\ fsm_is_dirtiest(l)
             /\ gc_lnum' = l /\ scan' = flash[l]
             /\ gc_list' = <<>> /\ gc_valid' = <<>>
             /\ pc' = "gcscan" /\ UNCHANGED <<op_vars, nfail>>
       \/ /\ \/ Refused
             \/ (~\E l \in Lnums : fsm_is_dirtiest(l)) /\ UNCHANGED nfail
          /\ ReturnError /\ UNCHANGED <<gc_vars, scan>>
    /\ UNCHANGED <<flash, wbuf_vars, fsm_vars, index_vars, super_vars,
                   next_sqnum, summary, sync_vars, mq, tot_used, del_list, mlnum,
                   del_vars, ghosts, ntxn, ncrash, nunmount>>

(* ostore_scan_leb_obj and the loop that picks the objects to keep.  Runs  *)
(* of pad bytes are skipped; an object with a bad CRC, or one object too   *)
(* many for the list, makes the collection fail.                           *)
GcScan ==
    /\ pc = "gcscan" /\ scan # <<>>
    /\ LET o == Head(scan)
       IN \/ /\ o.type = RAW
             /\ scan' = Tail(scan)
             /\ UNCHANGED <<gc_vars, pc, op_vars>>
          \/ /\ o.type = TORN \/ (o.type # RAW /\ Len(gc_list) >= MaxObjPerTrans)
             /\ scan' = <<>>
             /\ ReturnError /\ UNCHANGED gc_vars
          \/ /\ o.type \notin {RAW, TORN} /\ Len(gc_list) < MaxObjPerTrans
             /\ scan' = Tail(scan)
             /\ gc_list' = Append(gc_list, o)
             /\ gc_valid' = IF gim_is_removable(o) THEN gc_valid
                                                   ELSE Append(gc_valid, o)
             /\ UNCHANGED <<gc_lnum, pc, op_vars>>
    /\ UNCHANGED <<flash, wbuf_vars, fsm_vars, index_vars, super_vars,
                   next_sqnum, summary, sync_vars, mq, tot_used, del_list, mlnum,
                   del_vars, ghosts, bounds>>

(* The valid objects are written as one transaction; the write that called *)
(* the collector waits in caller.  An LEB without objects is an error.     *)
GcCopy ==
    /\ pc = "gcscan" /\ scan = <<>>
    /\ IF gc_list = <<>> THEN ReturnError
       ELSE /\ caller' = <<op>>
            /\ op' = NewOp(gc_valid, "GC")
            /\ pc' = IF gc_valid = <<>> THEN "gcerase" ELSE "enter"
    /\ UNCHANGED <<flash, wbuf_vars, fsm_vars, index_vars, super_vars,
                   next_sqnum, summary, sync_vars, gc_vars, mount_vars,
                   del_vars, ghosts, bounds>>

(* ostore_erase                                                            *)
\* Mutant of ostore_erase: the LEB counts as erased although it was not.
Mutant_GcErase ==
    /\ pc = "gcerase"
    /\ fsm_mark_erased(gc_lnum)
    /\ \/ wbuf_erase(gc_lnum) /\ pc' = "gcgim" /\ UNCHANGED <<op_vars, nfail>>
       \/ Refused /\ ReturnError /\ UNCHANGED flash
    /\ UNCHANGED <<wbuf_vars, fsm_lnum, index_vars, super_vars, next_sqnum,
                   summary, sync_vars, gc_vars, mount_vars, del_vars, ghosts,
                   ntxn, ncrash, nunmount>>
GcErase ==
    /\ pc = "gcerase"
    /\ \/ /\ wbuf_erase(gc_lnum) /\ fsm_mark_erased(gc_lnum)
          /\ pc' = "gcgim" /\ UNCHANGED <<op_vars, nfail>>
       \/ /\ Refused /\ ReturnError
          /\ UNCHANGED <<flash, dirty_list, used_leb_list, fsm_nb_free_eb>>
    /\ UNCHANGED <<wbuf_vars, fsm_lnum, index_vars, super_vars, next_sqnum,
                   summary, sync_vars, gc_vars, mount_vars, del_vars, ghosts,
                   ntxn, ncrash, nunmount>>

\* Mutant of the last loop of gc_garbage_collect: it never advances.
Mutant_GcGim ==
    /\ pc = "gcgim" /\ gc_list # <<>>
    /\ gim' = gim_garbage_collected(gim, Head(gc_list))
    /\ UNCHANGED <<flash, wbuf_vars, fsm_vars, idx, super_vars, next_sqnum,
                   summary, pc, op_vars, sync_vars, gc_vars,
                   mount_vars, del_vars, ghosts, bounds>>
GcGim ==
    /\ pc = "gcgim" /\ gc_list # <<>>
    /\ gim' = gim_garbage_collected(gim, Head(gc_list))
    /\ gc_list' = Tail(gc_list)
    /\ UNCHANGED <<flash, wbuf_vars, fsm_vars, idx, super_vars, next_sqnum,
                   summary, pc, op_vars, sync_vars, gc_lnum, gc_valid,
                   mount_vars, del_vars, ghosts, bounds>>

(* The collector returns to fsm_alloc_eb, which checks the space again.    *)
GcReturn ==
    /\ pc = "gcgim" /\ gc_list = <<>>
    /\ op' = caller[1] /\ caller' = <<>>
    /\ pc' = "gcret"
    /\ UNCHANGED <<flash, wbuf_vars, fsm_vars, index_vars, super_vars,
                   next_sqnum, summary, sync_vars, gc_vars, mount_vars,
                   del_vars, ghosts, bounds>>

AllocAfterGc ==
    /\ pc = "gcret"
    /\ \/ fsm_check_free_space(op.flag) /\ AllocTake
       \/ /\ ~fsm_check_free_space(op.flag) \/ FreeLebs = {}
          /\ ReturnError
          /\ UNCHANGED <<fsm_vars, wbuf_vars>>
    /\ UNCHANGED <<flash, index_vars, super_vars, next_sqnum, summary, sync_vars,
                   gc_vars, mount_vars, del_vars, ghosts, bounds>>

----------------------------------------------------------------------------
(* ostore_mount and ostore_unmount                                         *)

(* An empty volume is formatted: the super object, then the root inode.    *)
(* init_inode has used a sequence number, the page of the super object is  *)
(* padded with a pad object.  If the flash refuses, the mount fails.       *)
Format ==
    /\ pc = "off" /\ super = 0
    /\ \/ /\ super' = next_sqnum + 2 /\ formatting' = TRUE
          /\ op' = ClientOp(RootTxn, 1) /\ pc' = "enter"
          /\ UNCHANGED nfail
       \/ /\ Refused /\ pc' = "mfail"
          /\ UNCHANGED <<super, formatting, op>>
    /\ next_sqnum' = next_sqnum + 3
    /\ UNCHANGED <<flash, wbuf_vars, fsm_vars, index_vars, super_sqnum, summary,
                   caller, sync_vars, gc_vars, mount_vars, del_vars, ghosts,
                   ntxn, ncrash, nunmount>>

(* mount_read_super: the sequence numbers go on from the super object's.   *)
MountStart ==
    /\ pc = "off" /\ super # 0
    /\ super_sqnum' = super
    /\ next_sqnum' = IF next_sqnum < super THEN super + 1 ELSE next_sqnum
    /\ mlnum' = LogFstLnum
    /\ pc' = "mleb"
    /\ UNCHANGED <<flash, wbuf_vars, fsm_vars, index_vars, super, formatting,
                   summary, op_vars, sync_vars, gc_vars, scan, mq, tot_used,
                   del_list, del_vars, ghosts, bounds>>

EntryJob(lnum, e) ==
    [type |-> IF e.del THEN DEL ELSE type_from_id(e.id), id |-> e.id,
     addr |-> [lnum |-> lnum, offs |-> e.offs, len |-> e.len, sqnum |-> e.sqnum],
     count |-> e.count]
ItemJob(lnum, o) ==
    [type |-> o.type, id |-> o.id,
     addr |-> [lnum |-> lnum, offs |-> o.offs, len |-> o.len, sqnum |-> o.sqnum],
     count |-> 0]

(* mount_scan, the next LEB: it is in use if it is mapped; its summary is  *)
(* used if it has one, otherwise its objects are scanned.                  *)
MountLeb ==
    /\ pc = "mleb" /\ mlnum < LebCnt
    /\ IF ~ubi_is_mapped(mlnum)
       THEN /\ mlnum' = mlnum + 1
            /\ UNCHANGED <<pc, used_leb_list, fsm_nb_free_eb, scan, mq, tot_used>>
       ELSE /\ fsm_mark_used(mlnum)
            /\ IF ~no_summary /\ HasSummary(mlnum)
               THEN LET ents == flash[mlnum][Len(flash[mlnum])].ents
                    IN /\ mq' = [k \in DOMAIN ents |-> EntryJob(mlnum, ents[k])]
                       /\ tot_used' = 0
                       /\ pc' = "msum" /\ UNCHANGED scan
               ELSE /\ scan' = flash[mlnum] /\ mq' = <<>>
                    /\ pc' = "mscan" /\ UNCHANGED tot_used
            /\ UNCHANGED mlnum
    /\ UNCHANGED <<flash, wbuf_vars, dirty_list, fsm_lnum, index_vars,
                   super_vars, next_sqnum, summary, op_vars, sync_vars, gc_vars,
                   del_list, del_vars, ghosts, bounds>>

(* mount_proc_sum, one entry: deletions are kept for later, the others go  *)
(* into the index; the garbage count of the entry is added in any case.    *)
MountSum ==
    /\ pc = "msum" /\ mq # <<>>
    /\ LET j == Head(mq)
           mark(g) == gim_mark_garbage_cnt(g, j.id, j.addr.sqnum, j.count)
       IN /\ IF j.type = DEL
             THEN /\ del_list' = <<j>> \o del_list
                  /\ gim' = mark(gim)
                  /\ UNCHANGED <<idx, dirty_list>>
             ELSE /\ idx' = proc_idx(j.id, j.addr)
                  /\ gim' = mark(proc_gim(j.id, j.addr))
                  /\ dirty_list' = proc_dirty(j.id, j.addr)
                  /\ UNCHANGED del_list
          /\ tot_used' = tot_used + j.addr.len
    /\ mq' = Tail(mq)
    /\ UNCHANGED <<flash, wbuf_vars, used_leb_list, fsm_nb_free_eb, fsm_lnum,
                   super_vars, next_sqnum, summary, pc, op_vars, sync_vars,
                   gc_vars, scan, mlnum, del_vars, ghosts, bounds>>

(* What the entries do not account for is garbage.                         *)
MountSumDone ==
    /\ pc = "msum" /\ mq = <<>>
    /\ dirty_list' = fsm_mark_dirty(dirty_list, mlnum, LebSize - tot_used)
    /\ mlnum' = mlnum + 1
    /\ pc' = "mleb"
    /\ UNCHANGED <<flash, wbuf_vars, used_leb_list, fsm_nb_free_eb, fsm_lnum,
                   index_vars, super_vars, next_sqnum, summary, op_vars,
                   sync_vars, gc_vars, scan, mq, tot_used, del_list, del_vars,
                   ghosts, bounds>>

(* mount_scan_rbuf, one object: the objects of a transaction are collected *)
(* in mq and processed when its last one is found; an object out of place  *)
(* drops what was collected, and a bad CRC makes the mount fail.           *)
MountScan ==
    /\ pc = "mscan" /\ scan # <<>>
    /\ LET o == Head(scan)
           last == check_trans_pos(Len(mq), o.trans)
           more == Append(mq, ItemJob(mlnum, o))
       IN \/ /\ o.type = RAW
             /\ UNCHANGED <<mq, pc>>
          \/ /\ o.type = TORN
             /\ pc' = "mfail" /\ UNCHANGED mq
          \/ /\ o.type \notin {RAW, TORN} /\ last = "invalid"
             /\ mq' = <<>> /\ UNCHANGED pc
          \/ /\ o.type \notin {RAW, TORN} /\ last = "more"
             /\ mq' = IF Len(more) = MaxObjPerTrans THEN <<>> ELSE more
             /\ UNCHANGED pc
          \/ /\ o.type \notin {RAW, TORN} /\ last = "last"
             /\ mq' = more /\ pc' = "mtrans"
    /\ scan' = Tail(scan)
    /\ UNCHANGED <<flash, wbuf_vars, fsm_vars, index_vars, super_vars,
                   next_sqnum, summary, op_vars, sync_vars, gc_vars, tot_used,
                   del_list, mlnum, del_vars, ghosts, bounds>>

(* A complete transaction, one object.                                     *)
MountTrans ==
    /\ pc = "mtrans" /\ mq # <<>>
    /\ LET j == Head(mq)
       IN IF j.type \in {DEL, SUM}
          THEN /\ del_list' = IF j.type = DEL THEN <<j>> \o del_list ELSE del_list
               /\ UNCHANGED <<pc, index_vars, dirty_list, del_vars>>
          ELSE proc_obj(j.type, j.id, j.addr, "mtrans") /\ UNCHANGED del_list
    /\ mq' = Tail(mq)
    /\ UNCHANGED <<flash, wbuf_vars, used_leb_list, fsm_nb_free_eb, fsm_lnum,
                   super_vars, next_sqnum, summary, op_vars, sync_vars, gc_vars,
                   scan, tot_used, mlnum, ghosts, bounds>>

MountTransDone ==
    /\ pc = "mtrans" /\ mq = <<>>
    /\ pc' = "mscan"
    /\ UNCHANGED <<flash, wbuf_vars, fsm_vars, index_vars, super_vars,
                   next_sqnum, summary, op_vars, sync_vars, gc_vars, mount_vars,
                   del_vars, ghosts, bounds>>

(* The end of the LEB: what is behind the last object is garbage, because  *)
(* the store never goes on filling an LEB it did not allocate itself.      *)
MountScanDone ==
    /\ pc = "mscan" /\ scan = <<>>
    /\ dirty_list' = fsm_mark_dirty(dirty_list, mlnum,
                                    LebSize - EndOffs(flash[mlnum]))
    /\ mlnum' = mlnum + 1 /\ mq' = <<>>
    /\ pc' = "mleb"
    /\ UNCHANGED <<flash, wbuf_vars, used_leb_list, fsm_nb_free_eb, fsm_lnum,
                   index_vars, super_vars, next_sqnum, summary, op_vars,
                   sync_vars, gc_vars, scan, tot_used, del_list, del_vars,
                   ghosts, bounds>>

(* After the last LEB the deletion objects are processed.                  *)
MountDel ==
    /\ pc = "mleb" /\ mlnum = LebCnt /\ del_list # <<>>
    /\ LET j == Head(del_list) IN proc_obj(DEL, j.id, j.addr, "mleb")
    /\ del_list' = Tail(del_list)
    /\ UNCHANGED <<flash, wbuf_vars, used_leb_list, fsm_nb_free_eb, fsm_lnum,
                   super_vars, next_sqnum, summary, op_vars, sync_vars, gc_vars,
                   scan, mq, tot_used, mlnum, ghosts, bounds>>

MountIndexed ==
    /\ pc = "mleb" /\ mlnum = LebCnt /\ del_list = <<>>
    /\ pc' = "mdone"
    /\ UNCHANGED <<flash, wbuf_vars, fsm_vars, index_vars, super_vars,
                   next_sqnum, summary, op_vars, sync_vars, gc_vars, mount_vars,
                   del_vars, ghosts, bounds>>

(* The file system is mounted.  What it holds now is the start of its      *)
(* history.                                                                *)
MountDone ==
    /\ pc = "mdone"
    /\ pc' = "idle"
    /\ hist' = <<View>> /\ nsync' = 1
    /\ stale' = (stale \/ \E s \in SqnumsOnFlash : s > next_sqnum)
    /\ UNCHANGED <<flash, wbuf_vars, fsm_vars, index_vars, super_vars,
                   next_sqnum, summary, op_vars, sync_vars, gc_vars, mount_vars,
                   del_vars, bounds>>

(* A read of the flash or an allocation fails.                             *)
MountRefused ==
    /\ pc \in {"mleb", "msum", "mscan", "mtrans"} /\ Refused
    /\ pc' = "mfail"
    /\ UNCHANGED <<flash, wbuf_vars, fsm_vars, index_vars, super_vars,
                   next_sqnum, summary, op_vars, sync_vars, gc_vars, mount_vars,
                   del_vars, ghosts, ntxn, ncrash, nunmount>>

(* The mount failed: the memory is released.  ostore_mount calls           *)
(* ostore_unmount, which writes nothing as no sequence number was used.    *)
MountFailed ==
    /\ pc = "mfail"
    /\ LoseMemory
    /\ UNCHANGED <<flash, super, ghosts, bounds>>

(* ostore_unmount: nothing to write if no sequence number was used since   *)
(* the super object was; otherwise the buffer is closed and a super object *)
(* is written.                                                             *)
Unmount ==
    /\ pc = "idle" /\ nunmount < MaxUnmounts
    /\ nunmount' = nunmount + 1
    /\ sforce' = TRUE /\ sret' = "super"
    /\ pc' = IF super_sqnum + 1 < next_sqnum THEN "sync" ELSE "bye"
    /\ UNCHANGED <<flash, wbuf_vars, fsm_vars, index_vars, super_vars,
                   next_sqnum, summary, op_vars, gc_vars, mount_vars, del_vars,
                   ghosts, ntxn, ncrash, nfail>>

(* ostore_write_super: the super object and the padding of its page.       *)
WriteSuper ==
    /\ pc = "super"
    /\ \/ super' = next_sqnum + 1 /\ UNCHANGED nfail
       \/ Refused /\ UNCHANGED super
    /\ next_sqnum' = next_sqnum + 2
    /\ pc' = "bye"
    /\ UNCHANGED <<flash, wbuf_vars, fsm_vars, index_vars, super_sqnum,
                   formatting, summary, op_vars, sync_vars, gc_vars, mount_vars,
                   del_vars, ghosts, ntxn, ncrash, nunmount>>

(* ostore_clean                                                            *)
Clean ==
    /\ pc = "bye"
    /\ LoseMemory
    /\ UNCHANGED <<flash, super, ghosts, bounds>>

----------------------------------------------------------------------------
(* Power failures                                                          *)

Crash ==
    /\ pc # "off" /\ ncrash < MaxCrashes
    /\ ncrash' = ncrash + 1
    /\ LoseMemory
    /\ UNCHANGED <<flash, super, ghosts, ntxn, nunmount, nfail>>

(* A power failure after some, not all, of the pages of a commit.          *)
TornCrash ==
    /\ pc = "sync" /\ ~SyncNothing /\ SyncAsserts
    /\ MayTear /\ ncrash < MaxCrashes
    /\ ncrash' = ncrash + 1
    /\ \E pages \in 1 .. ((SyncUsed - sync_offs) \div MinIoSize - 1) :
          flash' = [flash EXCEPT ![fsm_lnum] =
                       @ \o TornPrefix(Pending(buf \o SyncItems), pages)]
    /\ LoseMemory
    /\ UNCHANGED <<super, ghosts, ntxn, nunmount, nfail>>

----------------------------------------------------------------------------
WriteStep ==
    \/ Enter \/ Alloc \/ Presync \/ Pack \/ SpaceCheck \/ WriteObj \/ Postsync
    \/ Pool \/ IndexObj \/ DelStep \/ DelDone \/ WriteDone
SyncStep == SyncNop \/ SyncWrite \/ SyncError
GcStep ==
    GcStart \/ GcScan \/ GcCopy \/ GcErase \/ GcGim \/ GcReturn \/ AllocAfterGc
MountStep ==
    \/ MountLeb \/ MountSum \/ MountSumDone \/ MountScan \/ MountTrans
    \/ MountTransDone \/ MountScanDone \/ MountDel \/ MountIndexed
    \/ MountDone \/ MountRefused \/ MountFailed
UnmountStep == WriteSuper \/ Clean

(* The steps of the thread that holds the semaphore.                       *)
Step == WriteStep \/ SyncStep \/ GcStep \/ MountStep \/ UnmountStep

Call ==
    \/ \E t \in Txns : WriteCall(t)
    \/ SyncFs \/ Unmount \/ Format \/ MountStart

Next == Step \/ Call \/ Crash \/ TornCrash

Spec == Init /\ [][Next]_vars

(* The thread that holds the semaphore is scheduled and never waits for    *)
(* another one, so a call that has begun goes on.                          *)
FairSpec == Spec /\ WF_vars(Step)

----------------------------------------------------------------------------
(* Properties                                                              *)

Labels == {"off", "idle", "enter", "alloc", "presync", "pack", "write", "pool",
           "index", "del", "sync", "gc", "gcscan", "gcerase", "gcgim", "gcret",
           "mleb", "msum", "mscan", "mtrans", "mdone", "mfail", "super", "bye"}

(* The variables keep their types.                                         *)
TypeOK ==
    /\ flash \in [Lnums -> Seq(Item)] /\ super \in Nat
    /\ buf \in Seq(Item) /\ used \in Nat /\ avail \in Nat
    /\ sync_offs \in Nat /\ sync_n \in Nat
    /\ dirty_list \in [Lnums -> Nat] /\ used_leb_list \in [Lnums -> BOOLEAN]
    /\ fsm_nb_free_eb \in Int /\ fsm_lnum \in Lnums \cup {0}
    /\ idx \in [Ids -> Addr] /\ gim \in [Ids -> GimNode]
    /\ super_sqnum \in Nat /\ formatting \in BOOLEAN
    /\ next_sqnum \in Nat /\ summary \in Seq(SumEntry)
    /\ pc \in Labels /\ op \in Op /\ caller \in Seq(Op) /\ Len(caller) <= 1
    /\ sforce \in BOOLEAN /\ sret \in Labels
    /\ gc_lnum \in Lnums \cup {0}
    /\ gc_list \in Seq(Item) /\ gc_valid \in Seq(Item)
    /\ scan \in Seq(Item) /\ mq \in Seq(Job) /\ tot_used \in Nat
    /\ del_list \in Seq(Job) /\ mlnum \in Nat
    /\ dcur \in Ids \cup {NIL_ID} /\ del \in Job /\ dret \in Labels
    /\ hist \in Seq([Ids -> Int]) /\ nsync \in Nat /\ stale \in BOOLEAN
    /\ ntxn \in Nat /\ ncrash \in Nat /\ nunmount \in Nat /\ nfail \in Nat

(* fsm.c counts free LEBs and remembers which are used in two places; they *)
(* agree through allocation, collection and mounting, and the LEB being    *)
(* filled is one that is in use.                                           *)
FsmAccounting ==
    /\ fsm_nb_free_eb = LebCnt - Cardinality({l \in Lnums : used_leb_list[l]})
    /\ fsm_lnum # 0 => used_leb_list[fsm_lnum]

(* An LEB the manager considers free has nothing on the flash that a mount *)
(* would find, so allocating it never writes over objects.                 *)
FreeLebsErased ==
    pc \notin {"off", "mleb", "msum", "mscan", "mtrans", "del", "mfail"} =>
        \A l \in Lnums : used_leb_list[l] \/ flash[l] = <<>>

(* The write buffer and the LEB it is for agree: what is below sync_offs   *)
(* is on the flash, used and avail add up, offsets are where the objects   *)
(* are (wbuf.c:98-118 asserts parts of it).                                *)
WbufMirrorsFlash ==
    fsm_lnum # 0 =>
        /\ used + avail = LebSize /\ sync_offs <= used
        /\ used = EndOffs(buf) /\ sync_offs = EndOffs(flash[fsm_lnum])
        /\ flash[fsm_lnum] = SubSeq(buf, 1, sync_n)

(* No BUG_ON of ostore_write_obj_list, ostore_write_summary or wbuf_commit *)
(* fires: whatever has been written, the summary of the LEB still fits.    *)
NoBugOn ==
    /\ pc = "presync" /\ ~no_summary => avail >= obj_sum_size(Len(summary))
    /\ pc = "pack" /\ ~no_summary => avail >= obj_sum_size(Len(summary))
    /\ pc = "pack" => op.serial_sz <= LebSize
    /\ pc = "sync" /\ ~SyncNothing => SyncAsserts

(* ostore_read_obj returns what the last write of the object wrote, after  *)
(* any mix of writes, deletions, synchronisation, mounting and power       *)
(* failures, unless the volume was mounted with reused sequence numbers.   *)
ReadYourWrites ==
    pc = "idle" /\ ~stale => View = hist[Len(hist)]

(* Mounting after a power failure gives the store as it was after one of   *)
(* the writes, and not an earlier one than the last that ostore_sync       *)
(* reported to be on the flash: transactions are atomic and durable.       *)
Recovered ==
    pc = "mdone" /\ ~stale => \E n \in nsync .. Len(hist) : View = hist[n]

(* The summary of an LEB describes that LEB: every entry is the identifier,*)
(* offset and sequence number of an object in it.                          *)
SummaryDescribesLeb ==
    \A l \in Lnums : ubi_is_mapped(l) /\ HasSummary(l) =>
        LET s == flash[l]
            ents == s[Len(s)].ents
        IN \A k \in DOMAIN ents : \E j \in DOMAIN s :
              /\ s[j].id = ents[k].id /\ s[j].offs = ents[k].offs
              /\ s[j].sqnum = ents[k].sqnum /\ ents[k].del = (s[j].type = DEL)

(* When the collector erases an LEB, the objects it decided to keep are on *)
(* the flash in another one: a power failure at any point loses none.      *)
GcCopiesDurable ==
    pc = "gcerase" => \A k \in DOMAIN gc_valid :
        \E l \in Lnums \ {gc_lnum} : \E j \in DOMAIN flash[l] :
            /\ flash[l][j].type = gc_valid[k].type
            /\ flash[l][j].id = gc_valid[k].id
            /\ flash[l][j].val = gc_valid[k].val

(* The flash is used as NAND allows: an LEB only grows, page after page,   *)
(* or is erased.                                                           *)
SequentialProgramming ==
    [][\A l \in Lnums :
          \/ flash'[l] = flash[l]
          \/ flash'[l] = <<>>
          \/ /\ IsPrefix(flash[l], flash'[l])
             /\ EndOffs(flash[l]) % MinIoSize = 0
             /\ flash'[l][Len(flash[l]) + 1].offs = EndOffs(flash[l])]_vars

(* Every call returns.                                                     *)
CallsReturn == pc \notin {"idle", "off"} ~> pc \in {"idle", "off"}

----------------------------------------------------------------------------
(* What the source says and the code does not do.                          *)

(* ostore.c:144, proc_obj: "Index: if the object is newer, update the      *)
(* index with the object": a client reads what it wrote last, whenever the *)
(* file system was mounted.                                                *)
NewestIndexed == pc = "idle" => View = hist[Len(hist)]

(* gc.c:70: "Copy valid objects to new erase-block": what the index refers *)
(* to is not erased.                                                       *)
GcKeepsLive == pc = "gcerase" => \A x \in Ids : idx[x].lnum # gc_lnum
=============================================================================
