---------------------------- MODULE OstoreProofs ----------------------------
(***************************************************************************)
(* Proofs about the object store, for every geometry, every set of client  *)
(* transactions and every number of failures.                              *)
(*                                                                         *)
(* FsmAccounting and FreeLebsErased are not inductive: erasing an LEB only *)
(* keeps them when the LEB was in use and is not the one being filled, and *)
(* marking one as used at mount only when it was not marked before.  The   *)
(* invariant LogInv says so, in parts: where the active call can return    *)
(* to, what the collector holds, how far the mount has come, and what is   *)
(* on the flash.                                                           *)
(***************************************************************************)
EXTENDS Ostore, FiniteSetTheorems, TLAPS

UsedLebs == {l \in Lnums : used_leb_list[l]}

(* The free space manager itself.                                          *)
AccountInv ==
    /\ used_leb_list \in [Lnums -> BOOLEAN]
    /\ fsm_lnum \in Lnums \cup {0}
    /\ fsm_nb_free_eb = LebCnt - Cardinality(UsedLebs)
    /\ fsm_lnum # 0 => used_leb_list[fsm_lnum]

(* Where ostore_sync and the loop of proc_obj return to.                   *)
ReturnInv ==
    /\ pc = "sync" => sret \in {"idle", "pack", "alloc", "pool", "super"}
    /\ pc = "del" => dret \in {"index", "mtrans", "mleb"}

(* The LEB under collection is in use and is not the one being filled.     *)
GcHolds ==
    gc_lnum \in Lnums /\ used_leb_list[gc_lnum] /\ gc_lnum # fsm_lnum
GcInv ==
    /\ pc = "gcscan" => GcHolds
    /\ caller # <<>> /\ pc # "gcgim" => GcHolds
    /\ pc = "gcerase" => caller # <<>>

(* Below LEB n, what is on the flash is marked as used; from LEB n on,     *)
(* nothing is marked as used yet.                                          *)
Scanned(n) == \A l \in Lnums : l < n => used_leb_list[l] \/ flash[l] = <<>>
Fresh(n) == \A l \in Lnums : l >= n => ~used_leb_list[l]

(* The mount is inside the LEB mlnum.                                      *)
InLeb == pc \in {"msum", "mscan", "mtrans"} \/ (pc = "del" /\ dret = "mtrans")
MountInv ==
    /\ mlnum \in Nat
    /\ pc = "off" => Fresh(0)
    /\ pc = "mleb" => /\ LogFstLnum <= mlnum /\ mlnum <= LebCnt
                      /\ Scanned(mlnum) /\ Fresh(mlnum)
    /\ InLeb => /\ LogFstLnum <= mlnum /\ mlnum < LebCnt
                /\ Scanned(mlnum + 1) /\ Fresh(mlnum + 1)
    /\ pc = "del" /\ dret = "mleb" => mlnum = LebCnt /\ Fresh(mlnum)

(* f has one content for each LEB.                                         *)
IsFlash(f) == f = [l \in Lnums |-> f[l]]

(* The flash has one content per LEB; it is empty until the super object   *)
(* is written; outside of mounting every LEB with content is in use.       *)
FlashInv ==
    /\ IsFlash(flash)
    /\ super \in Nat /\ next_sqnum \in Nat
    /\ pc \notin {"off", "mfail"} => super # 0
    /\ super = 0 => \A l \in Lnums : flash[l] = <<>>
    /\ pc \notin {"off", "mleb", "mfail"} /\ ~InLeb => Scanned(LebCnt)

LogInv == AccountInv /\ ReturnInv /\ GcInv /\ MountInv /\ FlashInv

----------------------------------------------------------------------------
(* The number of LEBs in use is a natural number, one more when an LEB is  *)
(* marked as used, one less when one is marked as erased.                  *)
LEMMA LnumsFinite == IsFiniteSet(Lnums)
BY GeometryAssumption, FS_Interval DEF Lnums

(* The LEBs of the log are natural numbers other than 0, below LebCnt.     *)
LEMMA LnumsNat ==
    /\ Lnums \subseteq Nat /\ 0 \notin Lnums
    /\ \A l \in Lnums : LogFstLnum <= l /\ l < LebCnt
BY GeometryAssumption DEF Lnums

(* fsm_mark_used on an LEB that was not in use keeps the counter right.    *)
LEMMA MarkUsedCounts ==
    ASSUME NEW l \in Lnums, AccountInv, ~used_leb_list[l], fsm_mark_used(l)
    PROVE  /\ used_leb_list' \in [Lnums -> BOOLEAN]
           /\ fsm_nb_free_eb' = LebCnt - Cardinality(UsedLebs')
           /\ \A k \in Lnums : used_leb_list'[k] <=> (k = l \/ used_leb_list[k])
<1>1. /\ used_leb_list' \in [Lnums -> BOOLEAN]
      /\ \A k \in Lnums : used_leb_list'[k] <=> (k = l \/ used_leb_list[k])
    BY DEF AccountInv, fsm_mark_used
<1>2. UsedLebs' = UsedLebs \cup {l}
    BY <1>1 DEF UsedLebs
<1>3. IsFiniteSet(UsedLebs) /\ l \notin UsedLebs
    BY LnumsFinite, FS_Subset DEF UsedLebs
<1>4. Cardinality(UsedLebs') = Cardinality(UsedLebs) + 1 /\ Cardinality(UsedLebs) \in Nat
    BY <1>2, <1>3, FS_AddElement, FS_CardinalityType
<1> QED
    BY <1>1, <1>4, GeometryAssumption DEF AccountInv, fsm_mark_used

(* fsm_mark_erased on an LEB that was in use keeps the counter right.      *)
LEMMA MarkErasedCounts ==
    ASSUME NEW l \in Lnums, AccountInv, used_leb_list[l], fsm_mark_erased(l)
    PROVE  /\ used_leb_list' \in [Lnums -> BOOLEAN]
           /\ fsm_nb_free_eb' = LebCnt - Cardinality(UsedLebs')
           /\ \A k \in Lnums : used_leb_list'[k] <=> (k # l /\ used_leb_list[k])
<1>1. /\ used_leb_list' \in [Lnums -> BOOLEAN]
      /\ \A k \in Lnums : used_leb_list'[k] <=> (k # l /\ used_leb_list[k])
    BY DEF AccountInv, fsm_mark_erased
<1>2. UsedLebs' = UsedLebs \ {l}
    BY <1>1 DEF UsedLebs
<1>3. IsFiniteSet(UsedLebs) /\ l \in UsedLebs
    BY LnumsFinite, FS_Subset DEF UsedLebs
<1>4. Cardinality(UsedLebs') = Cardinality(UsedLebs) - 1 /\ Cardinality(UsedLebs) \in Nat
    BY <1>2, <1>3, FS_RemoveElement, FS_CardinalityType
<1> QED
    BY <1>1, <1>4, GeometryAssumption DEF AccountInv, fsm_mark_erased

(* The store before the first mount satisfies the invariant.               *)
LEMMA InitLogInv == Init => LogInv
<1> SUFFICES ASSUME Init PROVE LogInv
    OBVIOUS
<1>1. UsedLebs = {} /\ used_leb_list \in [Lnums -> BOOLEAN] /\ Fresh(0)
    BY DEF Init, fsm_init, UsedLebs, Fresh
<1>2. AccountInv
    BY <1>1, FS_EmptySet, GeometryAssumption DEF Init, fsm_init, AccountInv
<1>3. FlashInv
    BY DEF Init, FlashInv, IsFlash
<1> QED
    BY <1>1, <1>2, <1>3 DEF Init, LogInv, ReturnInv, GcInv, MountInv, InLeb

(* A store that has lost its memory satisfies the invariant, whatever the  *)
(* flash holds once a super object has been written.                       *)
LEMMA LoseMemoryLogInv ==
    ASSUME LoseMemory, IsFlash(flash'), super' \in Nat,
           super' = 0 => \A l \in Lnums : flash'[l] = <<>>
    PROVE  LogInv'
<1>1. UsedLebs' = {} /\ used_leb_list' \in [Lnums -> BOOLEAN] /\ Fresh(0)'
    BY DEF LoseMemory, fsm_reset, UsedLebs, Fresh
<1>2. AccountInv'
    BY <1>1, FS_EmptySet, GeometryAssumption DEF LoseMemory, fsm_reset, AccountInv
<1>3. FlashInv'
    BY DEF LoseMemory, FlashInv
<1> QED
    BY <1>1, <1>2, <1>3 DEF LoseMemory, LogInv, ReturnInv, GcInv, MountInv, InLeb

----------------------------------------------------------------------------
(* Steps that leave the free space manager and the flash alone.            *)
Quiet ==
    UNCHANGED <<used_leb_list, fsm_nb_free_eb, fsm_lnum, flash>>

(* Such a step keeps what does not depend on where the call stands.        *)
LEMMA QuietKeeps ==
    ASSUME AccountInv, Quiet
    PROVE  /\ AccountInv'
           /\ gc_lnum' = gc_lnum => (GcHolds' <=> GcHolds)
           /\ \A n \in Nat : (Scanned(n) => Scanned(n)') /\ (Fresh(n) => Fresh(n)')
BY DEF AccountInv, Quiet, UsedLebs, GcHolds, Scanned, Fresh

(* The steps of ostore_write_obj_list keep the invariant.                  *)
LEMMA WriteStepLogInv == LogInv /\ WriteStep => LogInv'
<1> SUFFICES ASSUME LogInv, WriteStep PROVE LogInv'
    OBVIOUS
<1> USE LnumsNat, GeometryAssumption
        DEF fsm_vars, wbuf_vars, index_vars, super_vars, sync_vars, op_vars,
            gc_vars, mount_vars, del_vars
<1>a. AccountInv /\ ReturnInv /\ GcInv /\ MountInv /\ FlashInv
    BY DEF LogInv
<1>1. CASE Enter
    <2>1. Quiet /\ pc = "enter" /\ pc' \in {"alloc", "presync"}
        BY <1>1 DEF Enter, Quiet
    <2> QED
        BY <1>a, <1>1, <2>1, QuietKeeps
        DEF Enter, LogInv, ReturnInv, GcInv, MountInv, InLeb, FlashInv
<1>2. CASE Alloc
    <2>1. CASE fsm_take_first_free
        <3>1. PICK l \in Lnums : /\ ~used_leb_list[l] /\ fsm_mark_used(l)
                                 /\ fsm_lnum' = l
            BY <2>1 DEF fsm_take_first_free, FreeLebs
        <3>2. /\ used_leb_list' \in [Lnums -> BOOLEAN]
              /\ fsm_nb_free_eb' = LebCnt - Cardinality(UsedLebs')
              /\ \A k \in Lnums : used_leb_list'[k] <=> (k = l \/ used_leb_list[k])
            BY <1>a, <3>1, MarkUsedCounts
        <3>3. AccountInv'
            BY <3>1, <3>2 DEF AccountInv
        <3>4. pc' \in {"presync", "write", "idle", "mfail", "gc"} /\ pc = "alloc"
            BY <1>2 DEF Alloc, AllocTake, ReturnError
        <3>5. caller' # <<>> => caller # <<>>
            BY <1>2 DEF Alloc, AllocTake, ReturnError
        <3>6. GcInv'
            BY <1>a, <1>2, <3>1, <3>2, <3>4, <3>5 DEF Alloc, GcInv, GcHolds
        <3> QED
            BY <1>a, <1>2, <3>2, <3>3, <3>4, <3>6
            DEF Alloc, LogInv, ReturnInv, MountInv, InLeb, FlashInv, Scanned
    <2>2. CASE ~fsm_take_first_free
        <3>1. /\ UNCHANGED <<used_leb_list, fsm_nb_free_eb, flash>> /\ fsm_lnum' = 0
              /\ pc = "alloc" /\ pc' \in {"idle", "mfail", "gc"}
              /\ caller' # <<>> => caller' = caller
            BY <1>2, <2>2 DEF Alloc, AllocTake, ReturnError
        <3>2. AccountInv'
            BY <1>a, <3>1 DEF AccountInv, UsedLebs
        <3>3. GcInv'
            BY <1>a, <1>2, <3>1 DEF Alloc, GcInv, GcHolds
        <3> QED
            BY <1>a, <1>2, <3>1, <3>2, <3>3
            DEF Alloc, LogInv, ReturnInv, MountInv, InLeb, FlashInv, Scanned
    <2> QED
        BY <2>1, <2>2
<1>3. CASE Presync
    <2>1. Quiet /\ pc = "presync" /\ pc' \in {"sync", "pack"}
        BY <1>a, <1>3 DEF Presync, Quiet, ReturnInv
    <2> QED
        BY <1>a, <1>3, <2>1, QuietKeeps
        DEF Presync, LogInv, ReturnInv, GcInv, MountInv, InLeb, FlashInv
<1>4. CASE Pack
    <2>1. /\ Quiet /\ pc = "pack" /\ pc' = "pack" /\ next_sqnum' = next_sqnum + 1
          /\ UNCHANGED <<flash, super, caller, gc_lnum, mlnum>>
        BY <1>4 DEF Pack, Quiet
    <2> QED
        BY <1>a, <2>1, QuietKeeps
        DEF LogInv, ReturnInv, GcInv, MountInv, InLeb, FlashInv
<1>5. CASE SpaceCheck
    <2>1. Quiet /\ pc = "pack" /\ pc' \in {"sync", "write"}
        BY <1>a, <1>5 DEF SpaceCheck, Quiet, ReturnInv
    <2> QED
        BY <1>a, <1>5, <2>1, QuietKeeps
        DEF SpaceCheck, LogInv, ReturnInv, GcInv, MountInv, InLeb, FlashInv
<1>6. CASE WriteObj
    <2>1. Quiet /\ pc = "write" /\ pc' \in {"write", "idle", "mfail"}
        BY <1>a, <1>6 DEF WriteObj, ReturnError, Quiet, ReturnInv
    <2> QED
        BY <1>a, <1>6, <2>1, QuietKeeps
        DEF WriteObj, ReturnError, LogInv, ReturnInv, GcInv, MountInv, InLeb, FlashInv
<1>7. CASE Postsync
    <2>1. Quiet /\ pc = "write" /\ pc' \in {"sync", "pool"}
        BY <1>a, <1>7 DEF Postsync, Quiet, ReturnInv
    <2> QED
        BY <1>a, <1>7, <2>1, QuietKeeps
        DEF Postsync, LogInv, ReturnInv, GcInv, MountInv, InLeb, FlashInv
<1>8. CASE Pool
    <2>1. Quiet /\ pc = "pool" /\ pc' \in {"index", "idle", "mfail"}
        BY <1>a, <1>8 DEF Pool, ReturnError, Quiet, ReturnInv
    <2> QED
        BY <1>a, <1>8, <2>1, QuietKeeps
        DEF Pool, ReturnError, LogInv, ReturnInv, GcInv, MountInv, InLeb, FlashInv
<1>9. CASE IndexObj
    <2>1. Quiet /\ pc = "index" /\ pc' \in {"index", "del"}
        BY <1>a, <1>9 DEF IndexObj, proc_obj, Quiet, ReturnInv
    <2> QED
        BY <1>a, <1>9, <2>1, QuietKeeps
        DEF IndexObj, proc_obj, LogInv, ReturnInv, GcInv, MountInv, InLeb, FlashInv
<1>10. CASE DelStep
    <2>1. /\ Quiet /\ pc = "del" /\ pc' = "del"
          /\ UNCHANGED <<flash, super, next_sqnum, caller, gc_lnum, mlnum, dret>>
        BY <1>10 DEF DelStep, Quiet
    <2> QED
        BY <1>a, <2>1, QuietKeeps
        DEF LogInv, ReturnInv, GcInv, MountInv, InLeb, FlashInv
<1>11. CASE DelDone
    <2>1. /\ Quiet /\ pc = "del" /\ pc' = dret /\ dret \in {"index", "mtrans", "mleb"}
          /\ UNCHANGED <<flash, super, next_sqnum, caller, gc_lnum, mlnum>>
        BY <1>a, <1>11 DEF DelDone, Quiet, ReturnInv
    <2> QED
        BY <1>a, <2>1, QuietKeeps
        DEF LogInv, ReturnInv, GcInv, MountInv, InLeb, FlashInv
<1>12. CASE WriteDone
    <2>1. Quiet /\ pc = "index" /\ pc' \in {"idle", "gcerase"}
        BY <1>a, <1>12 DEF WriteDone, Quiet, ReturnInv
    <2> QED
        BY <1>a, <1>12, <2>1, QuietKeeps
        DEF WriteDone, LogInv, ReturnInv, GcInv, MountInv, InLeb, FlashInv
<1> QED
    BY <1>1, <1>2, <1>3, <1>4, <1>5, <1>6, <1>7, <1>8, <1>9, <1>10, <1>11, <1>12
    DEF WriteStep

(* The number of sequence numbers a sync uses is a natural number.         *)
LEMMA SyncSqnumNat == next_sqnum \in Nat => SyncSqnum \in Nat
BY DEF SyncSqnum, PadSqnums

(* Replacing the content of one LEB leaves the others as they are.         *)
LEMMA FlashUpdate ==
    ASSUME NEW l \in Lnums, NEW c, IsFlash(flash),
           flash' = [flash EXCEPT ![l] = c]
    PROVE  /\ IsFlash(flash') /\ flash'[l] = c
           /\ \A k \in Lnums : k # l => flash'[k] = flash[k]
BY DEF IsFlash

(* The steps of ostore_sync keep the invariant.                            *)
LEMMA SyncStepLogInv == LogInv /\ SyncStep => LogInv'
<1> SUFFICES ASSUME LogInv, SyncStep PROVE LogInv'
    OBVIOUS
<1> USE LnumsNat, GeometryAssumption
        DEF fsm_vars, wbuf_vars, index_vars, super_vars, sync_vars, op_vars,
            gc_vars, mount_vars, del_vars
<1>a. AccountInv /\ ReturnInv /\ GcInv /\ MountInv /\ FlashInv
    BY DEF LogInv
<1>1. CASE SyncNop
    <2>1. /\ Quiet /\ pc' \in {"idle", "pack", "alloc", "pool", "super"}
          /\ pc = "sync"
          /\ UNCHANGED <<flash, super, next_sqnum, caller, gc_lnum, mlnum>>
        BY <1>a, <1>1 DEF SyncNop, Quiet, ReturnInv
    <2> QED
        BY <1>a, <2>1, QuietKeeps
        DEF LogInv, ReturnInv, GcInv, MountInv, InLeb, FlashInv
<1>2. CASE SyncWrite
    <2>1. /\ UNCHANGED <<used_leb_list, fsm_nb_free_eb, fsm_lnum>>
          /\ pc' \in {"idle", "pack", "alloc", "pool", "super"} /\ pc = "sync"
          /\ UNCHANGED <<super, caller, gc_lnum, mlnum>>
          /\ next_sqnum' = SyncSqnum /\ fsm_lnum # 0
          /\ flash' = [flash EXCEPT ![fsm_lnum] = @ \o Pending(buf')]
        BY <1>a, <1>2 DEF SyncWrite, SyncFill, SyncAsserts, ReturnInv
    <2>2. fsm_lnum \in Lnums /\ used_leb_list[fsm_lnum] /\ IsFlash(flash)
        BY <1>a, <2>1 DEF AccountInv, FlashInv
    <2>3. /\ IsFlash(flash')
          /\ \A k \in Lnums : k # fsm_lnum => flash'[k] = flash[k]
        BY <2>1, <2>2, FlashUpdate
    <2>4. AccountInv'
        BY <1>a, <2>1 DEF AccountInv, UsedLebs
    <2>5. GcInv' /\ ReturnInv'
        BY <1>a, <2>1 DEF GcInv, GcHolds, ReturnInv
    <2>6. FlashInv'
        BY <1>a, <2>1, <2>2, <2>3, SyncSqnumNat DEF FlashInv, Scanned, InLeb
    <2> QED
        BY <1>a, <2>1, <2>4, <2>5, <2>6 DEF LogInv, MountInv, InLeb
<1>3. CASE SyncError
    <2>1. /\ Quiet /\ pc = "sync" /\ pc' \in {"super", "idle", "mfail"}
          /\ UNCHANGED <<flash, super, gc_lnum, mlnum>>
          /\ caller' # <<>> => caller' = caller
          /\ next_sqnum' = SyncSqnum
        BY <1>3 DEF SyncError, SyncFill, ReturnError, Quiet
    <2> QED
        BY <1>a, <2>1, QuietKeeps, SyncSqnumNat
        DEF LogInv, ReturnInv, GcInv, MountInv, InLeb, FlashInv
<1> QED
    BY <1>1, <1>2, <1>3 DEF SyncStep

(* The steps of gc_garbage_collect keep the invariant: what it erases was  *)
(* in use and is not being filled.                                         *)
LEMMA GcStepLogInv == LogInv /\ GcStep => LogInv'
<1> SUFFICES ASSUME LogInv, GcStep PROVE LogInv'
    OBVIOUS
<1> USE LnumsNat, GeometryAssumption
        DEF fsm_vars, wbuf_vars, index_vars, super_vars, sync_vars, op_vars,
            gc_vars, mount_vars, del_vars
<1>a. AccountInv /\ ReturnInv /\ GcInv /\ MountInv /\ FlashInv
    BY DEF LogInv
<1>1. CASE GcStart
    <2>1. /\ Quiet /\ pc = "gc"
          /\ UNCHANGED <<flash, super, next_sqnum, mlnum>>
        BY <1>1 DEF GcStart, Quiet
    <2>2. \/ /\ pc' = "gcscan" /\ UNCHANGED caller
             /\ GcHolds'
          \/ pc' \in {"idle", "mfail"} /\ caller' = <<>>
        BY <1>1, <2>1 DEF GcStart, ReturnError, fsm_is_dirtiest, GcHolds, Quiet
    <2> QED
        BY <1>a, <2>1, <2>2, QuietKeeps
        DEF LogInv, ReturnInv, GcInv, MountInv, InLeb, FlashInv
<1>2. CASE GcScan
    <2>1. /\ Quiet /\ pc = "gcscan"
          /\ UNCHANGED <<flash, super, next_sqnum, gc_lnum, mlnum>>
          /\ \/ pc' = "gcscan" /\ UNCHANGED caller
             \/ pc' \in {"idle", "mfail"} /\ caller' = <<>>
        BY <1>2 DEF GcScan, ReturnError, Quiet
    <2> QED
        BY <1>a, <2>1, QuietKeeps
        DEF LogInv, ReturnInv, GcInv, MountInv, InLeb, FlashInv
<1>3. CASE GcCopy
    <2>1. /\ Quiet /\ pc = "gcscan"
          /\ UNCHANGED <<flash, super, next_sqnum, gc_lnum, mlnum>>
          /\ \/ pc' \in {"gcerase", "enter"} /\ caller' = <<op>>
             \/ pc' \in {"idle", "mfail"} /\ caller' = <<>>
        BY <1>3 DEF GcCopy, ReturnError, Quiet
    <2> QED
        BY <1>a, <2>1, QuietKeeps
        DEF LogInv, ReturnInv, GcInv, MountInv, InLeb, FlashInv
<1>4. CASE GcErase
    <2>1. GcHolds /\ pc = "gcerase"
        BY <1>a, <1>4 DEF GcErase, GcInv
    <2>2. CASE pc' = "gcgim"
        <3>1. /\ fsm_mark_erased(gc_lnum) /\ wbuf_erase(gc_lnum)
              /\ UNCHANGED <<fsm_lnum, super, next_sqnum, caller, gc_lnum, mlnum>>
            BY <1>4, <2>2 DEF GcErase, ReturnError
        <3>2. /\ used_leb_list' \in [Lnums -> BOOLEAN]
              /\ fsm_nb_free_eb' = LebCnt - Cardinality(UsedLebs')
              /\ \A k \in Lnums : used_leb_list'[k] <=> (k # gc_lnum /\ used_leb_list[k])
            BY <1>a, <2>1, <3>1, MarkErasedCounts DEF GcHolds
        <3>3. AccountInv'
            BY <1>a, <2>1, <3>1, <3>2 DEF AccountInv, GcHolds
        <3>4. /\ IsFlash(flash') /\ flash'[gc_lnum] = <<>>
              /\ \A k \in Lnums : k # gc_lnum => flash'[k] = flash[k]
            BY <1>a, <2>1, <3>1, FlashUpdate DEF GcHolds, wbuf_erase, FlashInv
        <3>5. FlashInv'
            BY <1>a, <2>1, <2>2, <3>1, <3>2, <3>4
            DEF FlashInv, Scanned, InLeb, GcHolds
        <3> QED
            BY <1>a, <2>1, <2>2, <3>1, <3>3, <3>5
            DEF LogInv, ReturnInv, GcInv, MountInv, InLeb
    <2>3. CASE pc' # "gcgim"
        <3>1. /\ Quiet /\ pc' \in {"idle", "mfail"} /\ caller' = <<>>
              /\ UNCHANGED <<flash, super, next_sqnum, gc_lnum, mlnum>>
            BY <1>4, <2>3 DEF GcErase, ReturnError, Quiet
        <3> QED
            BY <1>a, <2>1, <3>1, QuietKeeps
            DEF LogInv, ReturnInv, GcInv, MountInv, InLeb, FlashInv
    <2> QED
        BY <2>2, <2>3
<1>5. CASE GcGim
    <2>1. /\ Quiet /\ pc = "gcgim" /\ pc' \in {"gcgim"}
          /\ UNCHANGED <<flash, super, next_sqnum, caller, gc_lnum, mlnum>>
        BY <1>a, <1>5 DEF GcGim, Quiet, ReturnInv
    <2> QED
        BY <1>a, <2>1, QuietKeeps
        DEF LogInv, ReturnInv, GcInv, MountInv, InLeb, FlashInv
<1>6. CASE GcReturn
    <2>1. /\ Quiet /\ pc = "gcgim" /\ pc' \in {"gcret"} /\ caller' = <<>>
          /\ UNCHANGED <<flash, super, next_sqnum, gc_lnum, mlnum>>
        BY <1>a, <1>6 DEF GcReturn, Quiet, ReturnInv
    <2> QED
        BY <1>a, <2>1, QuietKeeps
        DEF LogInv, ReturnInv, GcInv, MountInv, InLeb, FlashInv
<1>7. CASE AllocAfterGc
    <2>1. CASE fsm_take_first_free
        <3>1. PICK l \in Lnums : /\ ~used_leb_list[l] /\ fsm_mark_used(l)
                                 /\ fsm_lnum' = l
            BY <2>1 DEF fsm_take_first_free, FreeLebs
        <3>2. /\ used_leb_list' \in [Lnums -> BOOLEAN]
              /\ fsm_nb_free_eb' = LebCnt - Cardinality(UsedLebs')
              /\ \A k \in Lnums : used_leb_list'[k] <=> (k = l \/ used_leb_list[k])
            BY <1>a, <3>1, MarkUsedCounts
        <3>3. AccountInv'
            BY <3>1, <3>2 DEF AccountInv
        <3>4. /\ pc' \in {"presync", "write", "idle", "mfail"} /\ pc = "gcret"
              /\ caller' # <<>> => caller' = caller
              /\ UNCHANGED <<flash, super, next_sqnum, gc_lnum, mlnum>>
            BY <1>7 DEF AllocAfterGc, AllocTake, ReturnError
        <3>5. GcInv'
            BY <1>a, <3>1, <3>2, <3>4 DEF GcInv, GcHolds
        <3> QED
            BY <1>a, <3>2, <3>3, <3>4, <3>5
            DEF LogInv, ReturnInv, MountInv, InLeb, FlashInv, Scanned
    <2>2. CASE ~fsm_take_first_free
        <3>1. /\ Quiet /\ pc = "gcret" /\ pc' \in {"idle", "mfail"} /\ caller' = <<>>
              /\ UNCHANGED <<flash, super, next_sqnum, gc_lnum, mlnum>>
            BY <1>7, <2>2 DEF AllocAfterGc, AllocTake, ReturnError, Quiet
        <3> QED
            BY <1>a, <3>1, QuietKeeps
            DEF LogInv, ReturnInv, GcInv, MountInv, InLeb, FlashInv
    <2> QED
        BY <2>1, <2>2
<1> QED
    BY <1>1, <1>2, <1>3, <1>4, <1>5, <1>6, <1>7 DEF GcStep

(* The steps of ostore_mount keep the invariant: an LEB is marked as used  *)
(* once, and behind the last LEB everything on the flash is marked.        *)
LEMMA MountStepLogInv == LogInv /\ MountStep => LogInv'
<1> SUFFICES ASSUME LogInv, MountStep PROVE LogInv'
    OBVIOUS
<1> USE LnumsNat, GeometryAssumption
        DEF fsm_vars, wbuf_vars, index_vars, super_vars, sync_vars, op_vars,
            gc_vars, mount_vars, del_vars
<1>a. AccountInv /\ ReturnInv /\ GcInv /\ MountInv /\ FlashInv
    BY DEF LogInv
<1>1. CASE MountLeb
    <2>1. /\ pc = "mleb" /\ mlnum < LebCnt /\ mlnum \in Lnums
          /\ Scanned(mlnum) /\ Fresh(mlnum)
          /\ UNCHANGED <<flash, fsm_lnum, super, next_sqnum, caller, gc_lnum>>
        BY <1>a, <1>1 DEF MountLeb, MountInv, Lnums
    <2>2. CASE ~ubi_is_mapped(mlnum)
        <3>1. /\ Quiet /\ pc' = "mleb" /\ mlnum' = mlnum + 1 /\ flash[mlnum] = <<>>
            BY <1>1, <2>1, <2>2 DEF MountLeb, ubi_is_mapped, Quiet
        <3>2. \A l \in Lnums : /\ l < mlnum + 1 => l < mlnum \/ l = mlnum
                               /\ l >= mlnum + 1 => l >= mlnum
            BY <2>1
        <3>3. Scanned(mlnum)'
            BY <2>1, <3>1, <3>2 DEF Scanned, Quiet
        <3>4. Fresh(mlnum)'
            BY <2>1, <3>1, <3>2 DEF Fresh, Quiet
        <3> QED
            BY <1>a, <2>1, <3>1, <3>3, <3>4, QuietKeeps
            DEF LogInv, ReturnInv, GcInv, MountInv, InLeb, FlashInv
    <2>3. CASE ubi_is_mapped(mlnum)
        <3>1. /\ fsm_mark_used(mlnum) /\ pc' \in {"msum", "mscan"} /\ mlnum' = mlnum
            BY <1>1, <2>3 DEF MountLeb
        <3>2. /\ used_leb_list' \in [Lnums -> BOOLEAN]
              /\ fsm_nb_free_eb' = LebCnt - Cardinality(UsedLebs')
              /\ \A k \in Lnums : used_leb_list'[k] <=> (k = mlnum \/ used_leb_list[k])
            BY <1>a, <2>1, <3>1, MarkUsedCounts DEF Fresh
        <3>3. AccountInv'
            BY <1>a, <2>1, <3>2 DEF AccountInv
        <3>4. GcInv' /\ ReturnInv' /\ FlashInv'
            BY <1>a, <2>1, <3>1, <3>2
            DEF GcInv, GcHolds, ReturnInv, FlashInv, InLeb
        <3>a. \A l \in Lnums : /\ l < mlnum + 1 => l < mlnum \/ l = mlnum
                               /\ l >= mlnum + 1 => l >= mlnum /\ l # mlnum
            BY <2>1, LnumsNat
        <3>b. Scanned(mlnum + 1)'
            BY <2>1, <3>1, <3>2, <3>a DEF Scanned
        <3>c. Fresh(mlnum + 1)'
            BY <2>1, <3>1, <3>2, <3>a DEF Fresh
        <3>5. Scanned(mlnum + 1)' /\ Fresh(mlnum + 1)'
            BY <3>b, <3>c
        <3> QED
            BY <1>a, <2>1, <3>1, <3>3, <3>4, <3>5 DEF LogInv, MountInv, InLeb
    <2> QED
        BY <2>2, <2>3
<1>2. CASE MountSum
    <2>1. /\ Quiet /\ pc = "msum" /\ pc' \in {"msum"}
          /\ UNCHANGED <<flash, super, next_sqnum, caller, gc_lnum, mlnum>>
        BY <1>a, <1>2 DEF MountSum, Quiet, ReturnInv
    <2> QED
        BY <1>a, <2>1, QuietKeeps
        DEF LogInv, ReturnInv, GcInv, MountInv, InLeb, FlashInv
<1>3. CASE MountSumDone
    <2>1. /\ Quiet /\ pc = "msum" /\ pc' \in {"mleb"} /\ mlnum' = mlnum + 1
          /\ UNCHANGED <<flash, super, next_sqnum, caller, gc_lnum>>
        BY <1>a, <1>3 DEF MountSumDone, Quiet, ReturnInv
    <2> QED
        BY <1>a, <2>1, QuietKeeps
        DEF LogInv, ReturnInv, GcInv, MountInv, InLeb, FlashInv
<1>8. CASE MountScanDone
    <2>1. /\ Quiet /\ pc = "mscan" /\ pc' \in {"mleb"} /\ mlnum' = mlnum + 1
          /\ UNCHANGED <<flash, super, next_sqnum, caller, gc_lnum>>
        BY <1>a, <1>8 DEF MountScanDone, Quiet, ReturnInv
    <2> QED
        BY <1>a, <2>1, QuietKeeps
        DEF LogInv, ReturnInv, GcInv, MountInv, InLeb, FlashInv
<1>4. CASE MountScan
    <2>1. /\ Quiet /\ pc = "mscan" /\ pc' \in {"mscan", "mtrans", "mfail"}
          /\ UNCHANGED <<flash, super, next_sqnum, caller, gc_lnum, mlnum>>
        BY <1>a, <1>4 DEF MountScan, Quiet, ReturnInv
    <2> QED
        BY <1>a, <2>1, QuietKeeps
        DEF LogInv, ReturnInv, GcInv, MountInv, InLeb, FlashInv
<1>5. CASE MountTrans
    <2>1. /\ Quiet /\ pc = "mtrans"
          /\ pc' = "mtrans" \/ (pc' = "del" /\ dret' = "mtrans")
          /\ UNCHANGED <<flash, super, next_sqnum, caller, gc_lnum, mlnum>>
        BY <1>5 DEF MountTrans, proc_obj, Quiet
    <2> QED
        BY <1>a, <2>1, QuietKeeps
        DEF LogInv, ReturnInv, GcInv, MountInv, InLeb, FlashInv
<1>6. CASE MountTransDone
    <2>1. /\ Quiet /\ pc = "mtrans" /\ pc' \in {"mscan"}
          /\ UNCHANGED <<flash, super, next_sqnum, caller, gc_lnum, mlnum>>
        BY <1>a, <1>6 DEF MountTransDone, Quiet, ReturnInv
    <2> QED
        BY <1>a, <2>1, QuietKeeps
        DEF LogInv, ReturnInv, GcInv, MountInv, InLeb, FlashInv
<1>7. CASE MountDel
    <2>1. /\ Quiet /\ pc = "mleb" /\ pc' = "del" /\ dret' = "mleb" /\ mlnum = LebCnt
          /\ UNCHANGED <<flash, super, next_sqnum, caller, gc_lnum, mlnum>>
        BY <1>7 DEF MountDel, proc_obj, Quiet, DEL, PAD, IndexedTypes, INODE, DATA, DENTARR
    <2> QED
        BY <1>a, <2>1, QuietKeeps
        DEF LogInv, ReturnInv, GcInv, MountInv, InLeb, FlashInv
<1>9. CASE MountIndexed
    <2>1. /\ Quiet /\ pc = "mleb" /\ pc' \in {"mdone"} /\ mlnum = LebCnt
          /\ UNCHANGED <<flash, super, next_sqnum, caller, gc_lnum, mlnum>>
        BY <1>a, <1>9 DEF MountIndexed, Quiet, ReturnInv
    <2> QED
        BY <1>a, <2>1, QuietKeeps
        DEF LogInv, ReturnInv, GcInv, MountInv, InLeb, FlashInv
<1>10. CASE MountDone
    <2>1. /\ Quiet /\ pc = "mdone" /\ pc' \in {"idle"}
          /\ UNCHANGED <<flash, super, next_sqnum, caller, gc_lnum, mlnum>>
        BY <1>a, <1>10 DEF MountDone, Quiet, ReturnInv
    <2> QED
        BY <1>a, <2>1, QuietKeeps
        DEF LogInv, ReturnInv, GcInv, MountInv, InLeb, FlashInv
<1>11. CASE MountRefused
    <2>1. /\ Quiet /\ pc \in {"mleb", "msum", "mscan", "mtrans"} /\ pc' \in {"mfail"}
          /\ UNCHANGED <<flash, super, next_sqnum, caller, gc_lnum, mlnum>>
        BY <1>a, <1>11 DEF MountRefused, Quiet, ReturnInv
    <2> QED
        BY <1>a, <2>1, QuietKeeps
        DEF LogInv, ReturnInv, GcInv, MountInv, InLeb, FlashInv
<1>12. CASE MountFailed
    BY <1>a, <1>12, LoseMemoryLogInv DEF MountFailed, FlashInv
<1> QED
    BY <1>1, <1>2, <1>3, <1>4, <1>5, <1>6, <1>7, <1>8, <1>9, <1>10, <1>11, <1>12
    DEF MountStep

(* Calls, ostore_unmount and power failures keep the invariant.            *)
LEMMA OtherStepLogInv ==
    LogInv /\ (UnmountStep \/ Call \/ Crash \/ TornCrash) => LogInv'
<1> SUFFICES ASSUME LogInv, UnmountStep \/ Call \/ Crash \/ TornCrash PROVE LogInv'
    OBVIOUS
<1> USE LnumsNat, GeometryAssumption
        DEF fsm_vars, wbuf_vars, index_vars, super_vars, sync_vars, op_vars,
            gc_vars, mount_vars, del_vars
<1>a. AccountInv /\ ReturnInv /\ GcInv /\ MountInv /\ FlashInv
    BY DEF LogInv
<1>1. CASE WriteSuper
    <2>1. /\ Quiet /\ pc = "super" /\ pc' = "bye"
          /\ UNCHANGED <<flash, caller, gc_lnum, mlnum>>
          /\ super' = next_sqnum + 1 \/ super' = super
          /\ next_sqnum' = next_sqnum + 2
        BY <1>1 DEF WriteSuper, Quiet
    <2>2. super' \in Nat /\ next_sqnum' \in Nat /\ super' # 0 /\ super # 0
        BY <1>a, <2>1 DEF FlashInv
    <2> QED
        BY <1>a, <2>1, <2>2, QuietKeeps
        DEF LogInv, ReturnInv, GcInv, MountInv, InLeb, FlashInv
<1>2. CASE Clean
    BY <1>a, <1>2, LoseMemoryLogInv DEF Clean, FlashInv
<1>3. ASSUME NEW t \in Txns, WriteCall(t) PROVE LogInv'
    <2>1. /\ Quiet /\ pc = "idle" /\ pc' = "enter"
          /\ UNCHANGED <<flash, super, next_sqnum, caller, gc_lnum, mlnum>>
        BY <1>3 DEF WriteCall, Quiet
    <2> QED
        BY <1>a, <2>1, QuietKeeps
        DEF LogInv, ReturnInv, GcInv, MountInv, InLeb, FlashInv
<1>4. CASE SyncFs
    <2>1. /\ Quiet /\ pc = "idle" /\ pc' \in {"sync"} /\ sret' = "idle"
          /\ UNCHANGED <<flash, super, next_sqnum, caller, gc_lnum, mlnum>>
        BY <1>a, <1>4 DEF SyncFs, Quiet, ReturnInv
    <2> QED
        BY <1>a, <2>1, QuietKeeps
        DEF LogInv, ReturnInv, GcInv, MountInv, InLeb, FlashInv
<1>5. CASE Unmount
    <2>1. /\ Quiet /\ pc = "idle" /\ pc' \in {"sync", "bye"} /\ sret' = "super"
          /\ UNCHANGED <<flash, super, next_sqnum, caller, gc_lnum, mlnum>>
        BY <1>a, <1>5 DEF Unmount, Quiet, ReturnInv
    <2> QED
        BY <1>a, <2>1, QuietKeeps
        DEF LogInv, ReturnInv, GcInv, MountInv, InLeb, FlashInv
<1>6. CASE Format
    <2>1. /\ Quiet /\ pc = "off" /\ super = 0 /\ next_sqnum' = next_sqnum + 3
          /\ \/ pc' = "enter" /\ super' = next_sqnum + 2
             \/ pc' = "mfail" /\ super' = super
          /\ UNCHANGED <<flash, caller, gc_lnum, mlnum>>
        BY <1>6 DEF Format, Quiet
    <2>2. /\ super' \in Nat /\ next_sqnum' \in Nat
          /\ pc' = "enter" => super' # 0
        BY <1>a, <2>1 DEF FlashInv
    <2>3. \A l \in Lnums : flash'[l] = <<>>
        BY <1>a, <2>1 DEF FlashInv
    <2>4. Scanned(LebCnt)'
        BY <2>3 DEF Scanned
    <2>5. FlashInv'
        BY <1>a, <2>1, <2>2, <2>3, <2>4 DEF FlashInv, IsFlash
    <2>6. AccountInv' /\ GcInv' /\ ReturnInv'
        BY <1>a, <2>1, QuietKeeps DEF GcInv, ReturnInv
    <2>7. MountInv'
        BY <1>a, <2>1 DEF MountInv, InLeb
    <2> QED
        BY <2>5, <2>6, <2>7 DEF LogInv
<1>7. CASE MountStart
    <2>1. /\ Quiet /\ pc = "off" /\ pc' = "mleb" /\ super # 0
          /\ next_sqnum' = super + 1 \/ next_sqnum' = next_sqnum
          /\ mlnum' = LogFstLnum
          /\ UNCHANGED <<flash, super, caller, gc_lnum>>
        BY <1>7 DEF MountStart, Quiet
    <2>2. next_sqnum' \in Nat
        BY <1>a, <2>1 DEF FlashInv
    <2>3. Scanned(mlnum)' /\ Fresh(mlnum)'
        BY <1>a, <2>1, QuietKeeps DEF MountInv, Scanned, Fresh, Quiet
    <2> QED
        BY <1>a, <2>1, <2>2, <2>3, QuietKeeps
        DEF LogInv, ReturnInv, GcInv, MountInv, InLeb, FlashInv
<1>8. CASE Crash
    BY <1>a, <1>8, LoseMemoryLogInv DEF Crash, FlashInv
<1>9. CASE TornCrash
    <2>1. PICK c : flash' = [flash EXCEPT ![fsm_lnum] = c]
        BY <1>9 DEF TornCrash
    <2>2. fsm_lnum \in Lnums /\ IsFlash(flash) /\ super' = super /\ super # 0
        BY <1>a, <1>9 DEF TornCrash, SyncAsserts, AccountInv, FlashInv
    <2>3. IsFlash(flash')
        BY <2>1, <2>2, FlashUpdate
    <2> QED
        BY <1>a, <1>9, <2>2, <2>3, LoseMemoryLogInv DEF TornCrash, FlashInv
<1> QED
    BY <1>1, <1>2, <1>3, <1>4, <1>5, <1>6, <1>7, <1>8, <1>9 DEF UnmountStep, Call

(* A step that changes nothing keeps the invariant.                        *)
LEMMA StutterLogInv == LogInv /\ UNCHANGED vars => LogInv'
<1> SUFFICES ASSUME LogInv, UNCHANGED vars PROVE LogInv'
    OBVIOUS
<1> USE DEF vars, fsm_vars, wbuf_vars, index_vars, super_vars, sync_vars, op_vars,
            gc_vars, mount_vars, del_vars
<1>1. /\ Quiet
      /\ UNCHANGED <<flash, super, next_sqnum, caller, gc_lnum, mlnum, pc, sret, dret>>
    BY DEF Quiet
<1> QED
    BY <1>1, QuietKeeps, GeometryAssumption
    DEF LogInv, ReturnInv, GcInv, MountInv, InLeb, FlashInv

----------------------------------------------------------------------------
(* The invariant holds in every state the object store reaches.            *)
THEOREM LogInvariance == Spec => []LogInv
<1>1. LogInv /\ [Next]_vars => LogInv'
    BY WriteStepLogInv, SyncStepLogInv, GcStepLogInv, MountStepLogInv,
       OtherStepLogInv, StutterLogInv
    DEF Next, Step
<1> QED
    BY InitLogInv, <1>1, PTL DEF Spec

(* The counter of free LEBs and the list of used ones agree, and the LEB   *)
(* being filled is in use, through allocation, collection, mounting,       *)
(* failures and power failures (fsm.c).                                    *)
THEOREM FsmAccountingHolds == Spec => []FsmAccounting
<1>1. LogInv => FsmAccounting
    BY DEF LogInv, AccountInv, UsedLebs, FsmAccounting
<1> QED
    BY LogInvariance, <1>1, PTL

(* What fsm_alloc_eb takes for free holds nothing on the flash.            *)
THEOREM FreeLebsErasedHolds == Spec => []FreeLebsErased
<1>1. LogInv => FreeLebsErased
    BY LnumsNat DEF LogInv, FlashInv, InLeb, Scanned, FreeLebsErased
<1> QED
    BY LogInvariance, <1>1, PTL

=============================================================================
