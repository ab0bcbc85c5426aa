--------------------------------- MODULE Vfs --------------------------------
(***************************************************************************)
(* The data of a file of BilbyFs: reads, writes, truncations, write-back   *)
(* and fsync (os/linux/wrapper.c) over the page cache, and the file system *)
(* operations they call (fsop.c), over the abstract object store.          *)
(*                                                                         *)
(* Threads and the kernel's flusher interleave.  The locks are those of    *)
(* the kernel: the inode's lock (writes and truncations), the lock of each *)
(* page, and bi->wd.lock, which is only held during one fsop call, so that *)
(* such a call is a part of one action.  Any call of the store may fail,   *)
(* and the power may fail.  One inode, whose data is made of blocks of     *)
(* BlockSize bytes; a page is a block.  A byte is 1 if a call wrote it, 0  *)
(* in a hole, or what a page contains that nobody filled.                  *)
(***************************************************************************)
EXTENDS AbsStore, FiniteSets

CONSTANTS
    Threads,     \* the client's threads
    Flusher,     \* the thread that writes dirty pages back
    None,        \* no thread
    Ino,         \* the number of the file's inode
    BlockSize,   \* BILBYFS_BLOCK_SIZE, the size of a page too
    NbBlocks,    \* bound of the blocks of the file
    FreshBytes,  \* what the bytes of a newly allocated page may be
    MaxCalls, MaxFails, MaxCrashes, MaxUnsynced   \* bounds of this instance

VARIABLES
    i_size,   \* inode->i_size
    i_lock,   \* the holder of the inode's lock
    page,     \* the page cache: [up, dirty, lock, data] for each block
    eio,      \* an error of a page write was recorded in the mapping
    pc, loc,  \* the program counter and the locals of each thread
    bytes,    \* what the calls that returned made of the file
    mods,     \* how often a call changed bytes
    lost,     \* what has happened that may have damaged the file
    calls, fails, crashes   \* what is left of the bounds

mem_vars == <<i_size, i_lock, page, eio, pc, loc>>
bounds == <<calls, fails, crashes>>
file_vars == <<bytes, mods>>
vars == <<store_vars, mem_vars, file_vars, lost, bounds>>

Blocks == 0 .. NbBlocks - 1
Sizes == 0 .. NbBlocks * BlockSize
All == Threads \cup {Flusher}
Zeros(n) == [k \in 1 .. n |-> 0]
NoPage == [up |-> FALSE, dirty |-> FALSE, lock |-> None, data |-> Zeros(BlockSize)]
AlignUp(n) == ((n + BlockSize - 1) \div BlockSize) * BlockSize

InodeId == obj_id(Ino, INODE, 0)
data_id_init(block) == obj_id(Ino, DATA, block)
InodeObj(size) == [type |-> INODE, id |-> InodeId, val |-> size]
DataObj(block, data) == [type |-> DATA, id |-> data_id_init(block), val |-> data]
DelObj(id) == [type |-> DEL, id |-> id, val |-> Absent]

(* What the proofs need of the constants: every block of the file has an   *)
(* identifier of its own, Absent is not the data of a block, and what a    *)
(* call wrote is told from what it did not write.                          *)
ASSUME FileAssumption ==
    /\ BlockSize \in Nat \ {0} /\ NbBlocks \in Nat /\ NbXinfo \in Nat \ {0}
    /\ NbBlocks <= NbXinfo /\ Ino \in Nat
    /\ InodeId \in Ids /\ \A b \in Blocks : data_id_init(b) \in Ids
    /\ \A n \in 0 .. BlockSize : Absent \notin [1 .. n -> {0, 1} \cup FreshBytes]
    /\ 1 \notin FreshBytes
ASSUME ThreadAssumption == Flusher \notin Threads /\ None \notin All
ASSUME BoundsAssumption == {MaxCalls, MaxFails, MaxCrashes, MaxUnsynced} \subseteq Nat

(* As read_block, without clearing the rest of the page.                   *)
read_block_Short(c, block) ==
    LET d == c[data_id_init(block)]
    IN IF d = Absent THEN Zeros(BlockSize) ELSE d

(* read_block: a data object may be shorter than a block; a missing one is *)
(* a hole.                                                                 *)
read_block(c, block) ==
    LET d == c[data_id_init(block)]
    IN IF d = Absent THEN Zeros(BlockSize) ELSE d \o Zeros(BlockSize - Len(d))

(* fsop_readpage: what a page of which nothing is known may contain after  *)
(* it, for a file of size bytes.  At a size that is a multiple of the      *)
(* block size the page just behind the end is left as it was.              *)
fsop_readpage_LastBlock(c, size, block) ==
    IF block >= size \div BlockSize THEN {Zeros(BlockSize)} ELSE {read_block(c, block)}
fsop_readpage(c, size, block) ==
    LET limit == size \div BlockSize
    IN IF block > limit THEN {Zeros(BlockSize)}
       ELSE IF block = limit /\ size % BlockSize = 0 THEN [1 .. BlockSize -> FreshBytes]
       ELSE {read_block(c, block)}

(* The file as the store's content c has it.                               *)
Stored(c) ==
    [k \in 1 .. c[InodeId] |->
        read_block(c, (k - 1) \div BlockSize)[((k - 1) % BlockSize) + 1]]
-----------------------------------------------------------------------------
Goto(t, l) == pc' = [pc EXCEPT ![t] = l]
Fails == fails > 0 /\ fails' = fails - 1
(* ostore_write_obj_list succeeds.                                         *)
Written(objs) == Len(log) <= MaxUnsynced /\ WriteObjs(objs)
(* It fails, or ostore_sync does, which loses what `what` names.  Either   *)
(* the store is as it was, or the summary of an LEB could not be written,  *)
(* or the index has no memory: then objects that are not on the flash may  *)
(* vanish, the refused ones may come back, and the next ostore_sync writes *)
(* nothing (avail = 0) and returns 0.                                      *)
Refused(what) ==
    /\ Fails /\ UNCHANGED store_vars
    /\ \E s \in {{}, {"store"}} : lost' = lost \cup what \cup s

Enter(t, l) ==
    /\ mounted /\ pc[t] = "idle" /\ t \in Threads
    /\ calls > 0 /\ calls' = calls - 1
    /\ Goto(t, l)
    /\ UNCHANGED <<store_vars, i_size, eio, lost, fails, crashes, file_vars>>

(* generic_file_write_iter: a write within one page takes the inode's lock *)
(* and then the page's.                                                    *)
WriteCall(t, pos, len) ==
    /\ Enter(t, "write_begin") /\ i_lock = None /\ i_lock' = t
    /\ loc' = [loc EXCEPT ![t] = [pos |-> pos, len |-> len]]
    /\ UNCHANGED page

(* As below, but the error path leaves the page locked.                    *)
bilbyfs_write_begin_KeepsPage(t) ==
    LET b == loc[t].pos \div BlockSize
    IN /\ pc[t] = "write_begin" /\ page[b].lock = None
       /\ \/ /\ page[b].up
             /\ page' = [page EXCEPT ![b].lock = t]
             /\ Goto(t, "write_end")
             /\ UNCHANGED <<fails, i_lock>>
          \/ /\ ~page[b].up /\ Fails
             /\ page' = [page EXCEPT ![b].lock = t] /\ i_lock' = None /\ Goto(t, "idle")
       /\ UNCHANGED <<store_vars, i_size, eio, loc, file_vars, lost, calls, crashes>>

(* bilbyfs_write_begin: the page is locked, and filled by fsop_write_begin *)
(* (which is fsop_readpage) unless it is up to date.  An error leaves it   *)
(* not up to date.                                                         *)
bilbyfs_write_begin(t) ==
    LET b == loc[t].pos \div BlockSize
    IN /\ pc[t] = "write_begin" /\ page[b].lock = None
       /\ \/ /\ page[b].up
             /\ page' = [page EXCEPT ![b].lock = t]
             /\ Goto(t, "write_end")
             /\ UNCHANGED <<fails, i_lock>>
          \/ /\ ~page[b].up
             /\ \E d \in fsop_readpage(Content, i_size, b) :
                    page' = [page EXCEPT ![b] = [NoPage EXCEPT !.up = TRUE, !.lock = t, !.data = d]]
             /\ Goto(t, "write_end")
             /\ UNCHANGED <<fails, i_lock>>
          \/ /\ ~page[b].up /\ Fails
             /\ i_lock' = None /\ Goto(t, "idle")
             /\ UNCHANGED page
       /\ UNCHANGED <<store_vars, i_size, eio, loc, file_vars, lost, calls, crashes>>

(* bytes after a write of len bytes at pos, and at the size n.             *)
Resized(f, n) == [k \in 1 .. n |-> IF k <= Len(f) THEN f[k] ELSE 0]
Overwritten(f, pos, len) ==
    LET g == Resized(f, IF pos + len > Len(f) THEN pos + len ELSE Len(f))
    IN [k \in DOMAIN g |-> IF k > pos /\ k <= pos + len THEN 1 ELSE g[k]]

(* The data is copied into the page; bilbyfs_write_end_writeback makes it  *)
(* dirty and updates the size in memory.                                   *)
bilbyfs_write_end_writeback(t) ==
    LET pos == loc[t].pos
        end == pos + loc[t].len
        b == pos \div BlockSize
    IN /\ pc[t] = "write_end"
       /\ page' = [page EXCEPT ![b].data = Overwritten(@, pos % BlockSize, loc[t].len),
                               ![b].dirty = TRUE, ![b].lock = None]
       /\ i_size' = IF end > i_size THEN end ELSE i_size
       /\ bytes' = Overwritten(bytes, pos, loc[t].len) /\ mods' = mods + 1
       /\ i_lock' = None /\ Goto(t, "idle")
       /\ UNCHANGED <<store_vars, eio, loc, lost, bounds>>

(* A read of a page that is not up to date: bilbyfs_readpage.  A page that *)
(* is up to date is read without any change.                               *)
bilbyfs_readpage(b) ==
    /\ ~page[b].up /\ page[b].lock = None /\ b * BlockSize < i_size
    /\ \E d \in fsop_readpage(Content, i_size, b) :
            page' = [page EXCEPT ![b] = [NoPage EXCEPT !.up = TRUE, !.data = d]]
    /\ UNCHANGED <<store_vars, i_size, i_lock, eio, pc, loc, file_vars, lost, bounds>>

(* The kernel drops a clean page.                                          *)
ReclaimPage(b) ==
    /\ page[b].up /\ ~page[b].dirty /\ page[b].lock = None
    /\ page' = [page EXCEPT ![b] = NoPage]
    /\ UNCHANGED <<store_vars, i_size, i_lock, eio, pc, loc, file_vars, lost, bounds>>
-----------------------------------------------------------------------------
(* bilbyfs_writepage, up to bi->wd.lock: the kernel has locked the page    *)
(* and marked it clean; the size is read before the lock is taken.         *)
bilbyfs_writepage(t, b, next, rest) ==
    /\ mounted /\ page[b].up /\ page[b].dirty /\ page[b].lock = None
    /\ LET len == IF b < i_size \div BlockSize THEN BlockSize ELSE i_size % BlockSize
           outside == b * BlockSize >= i_size
       IN IF outside
          THEN page' = [page EXCEPT ![b].dirty = FALSE] /\ loc' = [loc EXCEPT ![t] = rest]
               /\ UNCHANGED pc
          ELSE /\ page' = [page EXCEPT ![b].dirty = FALSE, ![b].lock = t,
                                ![b].data = SubSeq(@, 1, len) \o Zeros(BlockSize - len)]
               /\ loc' = [loc EXCEPT ![t] = [blk |-> b, len |-> len, next |-> next, rest |-> rest]]
               /\ Goto(t, "write_page")
    /\ UNCHANGED <<store_vars, i_size, i_lock, eio, file_vars, lost, bounds>>

(* fsop_write_end for a page: the inode, whose size is raised to the end   *)
(* of the data if it is below, and the data, as one transaction.  It is    *)
(* below if a truncation came after bilbyfs_writepage read the size.       *)
fsop_write_end(b, len) ==
    LET end == b * BlockSize + len
        size == IF end > i_size THEN end ELSE i_size
    IN Written(<<InodeObj(size), DataObj(b, SubSeq(page[b].data, 1, len))>>) /\ i_size' = size

WritePage(t) ==
    /\ pc[t] = "write_page"
    /\ \/ /\ fsop_write_end(loc[t].blk, loc[t].len) /\ UNCHANGED <<eio, fails>>
          /\ lost' = IF i_size' > i_size THEN lost \cup {"raised"} ELSE lost
       \/ Refused({"write"}) /\ eio' = TRUE /\ UNCHANGED i_size
    /\ page' = [page EXCEPT ![loc[t].blk].lock = None]
    /\ Goto(t, loc[t].next) /\ loc' = [loc EXCEPT ![t] = loc[t].rest]
    /\ UNCHANGED <<i_lock, file_vars, calls, crashes>>

(* bilbyfs_fsync: filemap_write_and_wait_range writes each page that is    *)
(* dirty, and waits for one that is being written.                         *)
FsyncCall(t) ==
    /\ Enter(t, "fsync")
    /\ loc' = [loc EXCEPT ![t] = [todo |-> Blocks, mods |-> mods]]
    /\ UNCHANGED <<page, i_lock>>
FsyncPage(t) ==
    /\ pc[t] = "fsync"
    /\ \E b \in loc[t].todo :
        LET rest == [loc[t] EXCEPT !.todo = @ \ {b}]
        IN \/ bilbyfs_writepage(t, b, "fsync", rest)
           \/ /\ ~page[b].dirty /\ page[b].lock = None
              /\ loc' = [loc EXCEPT ![t] = rest]
              /\ UNCHANGED <<store_vars, i_size, i_lock, page, eio, pc, file_vars, lost, bounds>>

(* As below, but the write buffer is left to the next sync.                *)
FsyncEnd_PagesOnly(t) ==
    /\ pc[t] = "fsync" /\ loc[t].todo = {}
    /\ \/ eio /\ eio' = FALSE
       \/ ~eio /\ UNCHANGED eio
    /\ Goto(t, "idle")
    /\ UNCHANGED <<store_vars, i_size, i_lock, page, loc, file_vars, lost, bounds>>

(* fsop_sync_fs; an error of a page write is reported once instead.        *)
FsyncEnd(t) ==
    /\ pc[t] = "fsync" /\ loc[t].todo = {}
    /\ \/ eio /\ eio' = FALSE /\ UNCHANGED <<store_vars, fails, lost>>
       \/ ~eio /\ SyncObjs /\ UNCHANGED <<eio, fails, lost>>
       \/ ~eio /\ "store" \in lost /\ UNCHANGED <<store_vars, eio, fails, lost>>
       \/ ~eio /\ Refused({}) /\ UNCHANGED eio
    /\ Goto(t, "idle")
    /\ UNCHANGED <<i_size, i_lock, page, loc, file_vars, calls, crashes>>
-----------------------------------------------------------------------------
(* bilbyfs_setattr with ATTR_SIZE.                                         *)
TruncateCall(t, n) ==
    /\ Enter(t, "truncate") /\ i_lock = None /\ i_lock' = t
    /\ loc' = [loc EXCEPT ![t] = [size |-> n]]
    /\ UNCHANGED page

(* As TruncateObjs, but the last block keeps its data.                     *)
TruncateObjs_KeepTail(c, old, new) ==
    (IF AlignUp(new) < old THEN <<DelObj(data_id_init(AlignUp(new) \div BlockSize))>> ELSE <<>>)
       \o <<InodeObj(new)>>

(* The objects of fsop_truncate: the last block, cut, as the store has it; *)
(* a deletion object for the blocks behind it; the inode.                  *)
TruncateObjs(c, old, new) ==
    LET aligned == AlignUp(new)
        b == new \div BlockSize
    IN (IF new # aligned /\ new < old
        THEN <<DataObj(b, SubSeq(read_block(c, b), 1, new - b * BlockSize))>> ELSE <<>>)
       \o (IF aligned < old THEN <<DelObj(data_id_init(aligned \div BlockSize))>> ELSE <<>>)
       \o <<InodeObj(new)>>

(* fsop_truncate.  A failed allocation or read of the last block returns   *)
(* with the new size already set.  A failed write restores the old size,   *)
(* but write-back may have gone by the new one meanwhile.                  *)
fsop_truncate(t) ==
    LET new == loc[t].size
    IN /\ pc[t] = "truncate"
       /\ \/ /\ Written(TruncateObjs(Content, i_size, new))
             /\ i_size' = new /\ bytes' = Resized(bytes, new) /\ mods' = mods + 1
             /\ Goto(t, "setattr")
             /\ UNCHANGED <<i_lock, fails, lost>>
          \/ /\ \/ /\ Refused(IF \E b \in Blocks : page[b].dirty THEN {"truncate"} ELSE {})
                   /\ UNCHANGED i_size
                \/ /\ new # AlignUp(new) /\ new < i_size
                   /\ Fails /\ i_size' = new /\ lost' = lost \cup {"truncate"}
                   /\ UNCHANGED store_vars
             /\ i_lock' = None /\ Goto(t, "idle")
             /\ UNCHANGED file_vars
       /\ UNCHANGED <<page, eio, loc, calls, crashes>>

(* Behind the semaphore bilbyfs_setattr reads inode->i_size, the argument  *)
(* of truncate_setsize, which write-back may have raised again ...         *)
bilbyfs_setattr(t) ==
    /\ pc[t] = "setattr" /\ Goto(t, "i_size_write")
    /\ loc' = [loc EXCEPT ![t].size = i_size]
    /\ UNCHANGED <<store_vars, i_size, i_lock, page, eio, file_vars, lost, bounds>>

(* ... or raises now: then memory gets a smaller size than the store has.  *)
i_size_write(t) ==
    /\ pc[t] = "i_size_write" /\ Goto(t, "setsize")
    /\ i_size' = loc[t].size
    /\ lost' = IF loc[t].size < i_size THEN lost \cup {"shrunk"} ELSE lost
    /\ loc' = [loc EXCEPT ![t] = [size |-> loc[t].size, todo |-> Blocks]]
    /\ UNCHANGED <<store_vars, i_lock, page, eio, file_vars, bounds>>

(* The rest of truncate_setsize: each page behind the end is dropped, once *)
(* it is not locked, and the end of the last one cleared.                  *)
truncate_setsize(t) ==
    LET size == loc[t].size
    IN /\ pc[t] = "setsize"
       /\ \E b \in loc[t].todo :
            /\ page[b].lock = None
            /\ page' = IF b * BlockSize >= size THEN [page EXCEPT ![b] = NoPage]
                       ELSE IF (b + 1) * BlockSize > size /\ page[b].up
                       THEN [page EXCEPT ![b].data = SubSeq(@, 1, size - b * BlockSize)
                                                     \o Zeros((b + 1) * BlockSize - size)]
                       ELSE page
            /\ loc' = [loc EXCEPT ![t].todo = @ \ {b}]
            /\ IF loc[t].todo = {b} THEN Goto(t, "idle") /\ i_lock' = None
                                    ELSE UNCHANGED <<pc, i_lock>>
       /\ UNCHANGED <<store_vars, i_size, eio, file_vars, lost, bounds>>

(* bilbyfs_setattr without ATTR_SIZE: fsop_do_setattr stores the inode,    *)
(* with the size it has in memory.                                         *)
SetattrCall(t) ==
    /\ mounted /\ pc[t] = "idle" /\ calls > 0 /\ calls' = calls - 1
    /\ i_lock = None
    /\ \/ Written(<<InodeObj(i_size)>>) /\ UNCHANGED <<lost, fails>>
       \/ Refused({})
    /\ UNCHANGED <<i_size, i_lock, page, eio, pc, loc, file_vars, crashes>>

(* A power failure and the mount after it.                                 *)
PowerFailure ==
    /\ mounted /\ crashes > 0 /\ crashes' = crashes - 1
    /\ \E n \in DOMAIN log :
        /\ log' = <<log[n]>>
        /\ i_size' = log[n][InodeId] /\ bytes' = Stored(log[n]) /\ mods' = 0
    /\ page' = [b \in Blocks |-> NoPage]
    /\ i_lock' = None /\ eio' = FALSE /\ lost' = lost \ {"write"}
    /\ pc' = [t \in All |-> "idle"] /\ loc' = [t \in All |-> <<>>]
    /\ UNCHANGED <<mounted, reused, calls, fails>>

(* The file has been created and synchronised.                             *)
Init ==
    /\ log = <<[Empty EXCEPT ![InodeId] = 0]>> /\ mounted = TRUE /\ reused = FALSE
    /\ i_size = 0 /\ i_lock = None /\ eio = FALSE
    /\ page = [b \in Blocks |-> NoPage]
    /\ pc = [t \in All |-> "idle"] /\ loc = [t \in All |-> <<>>]
    /\ bytes = <<>> /\ mods = 0 /\ lost = {}
    /\ calls = MaxCalls /\ fails = MaxFails /\ crashes = MaxCrashes

(* A step of the call that thread t is in.                                 *)
Continue(t) ==
    \/ bilbyfs_write_begin(t) \/ bilbyfs_write_end_writeback(t)
    \/ WritePage(t) \/ FsyncPage(t) \/ FsyncEnd(t)
    \/ fsop_truncate(t) \/ bilbyfs_setattr(t) \/ i_size_write(t) \/ truncate_setsize(t)

Next ==
    \/ \E t \in All : Continue(t)
    \/ \E t \in Threads :
        \/ \E pos \in Sizes, len \in 1 .. BlockSize :
                (pos % BlockSize) + len <= BlockSize /\ pos + len \in Sizes /\ WriteCall(t, pos, len)
        \/ \E n \in Sizes : TruncateCall(t, n)
        \/ FsyncCall(t) \/ SetattrCall(t)
    \/ pc[Flusher] = "idle" /\ \E b \in Blocks : bilbyfs_writepage(Flusher, b, "idle", <<>>)
    \/ \E b \in Blocks : bilbyfs_readpage(b) \/ ReclaimPage(b)
    \/ PowerFailure

Spec == Init /\ [][Next]_vars

-----------------------------------------------------------------------------
(* The variables have the types of the structures they stand for: a page   *)
(* that was read or written is filled to its end (fsop_readpage).          *)
TypeOK ==
    /\ i_size \in Sizes /\ i_lock \in Threads \cup {None}
    /\ \A b \in Blocks : Len(page[b].data) = BlockSize /\ page[b].lock \in All \cup {None}
    /\ \A n \in DOMAIN log : log[n][InodeId] \in Sizes

(* What a read of block b finds: the page, or what bilbyfs_readpage makes  *)
(* of the store.                                                           *)
View(b) == IF page[b].up THEN page[b].data ELSE read_block(Content, b)

(* The file as a reader finds it.                                          *)
Shown ==
    [k \in 1 .. i_size |-> View((k - 1) \div BlockSize)[((k - 1) % BlockSize) + 1]]

(* f is the file as the calls that returned made it: it has every byte     *)
(* that they wrote and did not cut, and nothing that they wrote and cut.   *)
(* Of the latter only the first half is left when write-back has overtaken *)
(* a truncation and raised the size again, which brings back what it cut.  *)
Honours(f) ==
    /\ Len(bytes) <= Len(f)
    /\ \A k \in DOMAIN bytes : bytes[k] = 1 => f[k] = 1
    /\ lost = {} =>
        Len(f) = Len(bytes) /\ \A k \in DOMAIN bytes : f[k] = 1 => bytes[k] = 1

(* No call has reported an error that may have damaged the file.           *)
Unharmed == lost \subseteq {"raised", "shrunk"}

(* When no write or truncation is under way a reader finds the size and    *)
(* the data that the calls gave the file, wherever its pages are: in the   *)
(* page cache, being written back since before a truncation, or dropped    *)
(* and on the flash only.                                                  *)
FileCurrent == i_lock = None /\ Unharmed => Honours(Shown)

(* No truncation has returned early or left a smaller size in memory than  *)
(* in the store, and the store has lost no object.                         *)
Fitting == lost \cap {"truncate", "shrunk", "store"} = {}

(* In every state a power failure can leave, no data lies behind the end   *)
(* of the file, where a later extension would uncover it.                  *)
NoDataBehindEnd ==
    Fitting =>
    \A n \in DOMAIN log : \A b \in Blocks :
        LET d == log[n][data_id_init(b)]
        IN d # Absent => b * BlockSize + Len(d) <= log[n][InodeId]

(* When bilbyfs_fsync returns 0 everything that was written before it was  *)
(* called is on the flash, however its pages were written and in whatever  *)
(* order, also after a truncation that write-back overtook.  (Stated for   *)
(* an fsync during which the file did not change.)                         *)
FsyncDurable ==
    [][\A t \in Threads :
        pc[t] = "fsync" /\ pc'[t] = "idle" /\ ~eio /\ fails' = fails /\ Unharmed
            /\ mods = loc[t].mods /\ crashes' = crashes
        => \A n \in DOMAIN log' : Honours(Stored(log'[n]))]_vars

(* The calls never wait for one another in a circle: as long as a call has *)
(* not returned, some call can take a step.  (The locks are the inode's,   *)
(* the pages' and bi->wd.lock; an error path that keeps one blocks the     *)
(* next call.)                                                             *)
NoDeadlock ==
    (\E t \in All : pc[t] # "idle") => \E t \in All : ENABLED Continue(t)
=============================================================================
