# BilbyFs and vfat in TLA+

This directory is a TLA+ model of two file systems of the Cogent repository:
BilbyFs, the log-structured file system for raw NAND flash in
`src/impl/fs/bilby/c`, and vfat, in `src/impl/fs/vfat/cogent`, with TLC
configurations that check them on small instances and TLAPS proofs that hold for all
of them.  The repository holds a language and its compiler, proof infrastructure,
and several systems written in or compared with Cogent.  The file systems are the
ones whose correctness is a question of *behaviour*: what survives a power failure
at any instruction, what the garbage collector may erase while a write is waiting
for it, what write-back meets while a truncation or a rename runs, what an error in
the middle of an operation leaves behind.  Of BilbyFs the C version is modelled
since it is complete; the Cogent version has the same design without garbage
collection, and the compiler has its own Isabelle development.  Of vfat the
operations in Cogent (`super.cogent`) are modelled together with the C code they are
built on.

Paths of BilbyFs are relative to `src/impl/fs/bilby/c`, those of vfat to
`src/impl/fs/vfat/cogent/plat/linux` unless they start with `src/`.

## 1. Inventory

| Component | State it keeps | Operations | Correct when |
|---|---|---|---|
| Object store, `ostore.c` | `next_sqnum`, `summary`, the mounted `super` | `ostore_write_obj_list`, `ostore_sync`, `ostore_read_obj`, `ostore_erase`, `ostore_scan_leb_obj`, `ostore_mount`, `ostore_unmount` | lists of objects are written atomically, what was synchronised survives, a read returns the newest version |
| Write buffer, `wbuf.c` | `buf`, `used`, `avail`, `sync_offs` | `wbuf_start`, `wbuf_write_obj`, `wbuf_prepare_commit`, `wbuf_commit`, reading an LEB or a summary, `wbuf_erase` | the buffer mirrors the LEB being filled; pages are programmed once and in order |
| Free space manager, `fsm.c` | `dirty_list`, `used_leb_list`, `fsm_nb_free_eb`, `fsm_lnum` | `fsm_alloc_eb`, `fsm_mark_used/dirty/erased`, `fsm_get_dirtiest_eb` | counter and list agree; a free LEB is erased; the collector's reserve exists |
| Index, `idx.c`, and garbage index, `gim.c` | identifier -> address; identifier -> number of garbage versions | get, set, delete, next; mark, collected, `gim_is_removable` | refers to the newest version; no live object is removable |
| Garbage collector, `gc.c` | none of its own | `gc_garbage_collect` | copies are on the flash before the LEB is erased; it returns |
| Object layout, `packobj.c`, `bilbyfs.h` | none | headers, CRC, transaction marks, summaries, padding | a mount can tell a complete transaction from a cut one |
| Super object | LEB 0, `super_offs` | read at mount, written at format and unmount | counters continue where they stopped |
| Node pool, `allocpool.c` | preallocated nodes | alloc, pop, empty | indexing never fails half way |
| File system operations, `fsop.c` | inodes, `next_inum`, `is_ro` | create, mkdir, symlink, link, unlink, rename, setattr, readdir, read and write a block, truncate, evict, sync, mount | tree, link counts and data are what the calls made them, also after errors |
| Directories, `dentarr.c`, `rdx.c` | entries that share a hash; the position of a listing | add, delete, next | an entry is found once; a listing is complete |
| VFS wrapper, `os/linux/wrapper.c` | the semaphore `bi->wd.lock`, pages | one entry per VFS call | calls hold the locks they need, in an order that cannot block |
| vfat: cluster chains, `fatent.c`, `cache.c`, `misc.c`, `file.c`, `inode.c` | the FAT and its copies, `free_clusters`, `prev_free`, the cluster cache of each inode | allocate, free, extend, truncate, map | chains are disjoint, nothing is lost, caches never lie |
| vfat: names, `dir.c`, `module.c`, `src/.../super.cogent` | directory slots | create, mkdir, lookup, unlink, rmdir, rename | every name is found and listed once; aliases are unique |
| vfat: inodes, `inode.c`, `wrapper.ac` | the table of inodes by position, dirty inodes | `fat_iget`, attach, detach, write-back, eviction | one inode per entry; what is written goes to the inode's own entry |

How they interact.  In BilbyFs a VFS call takes the semaphore and runs to its end.  A
file system operation packs objects into a list and calls `ostore_write_obj_list`,
which copies them into the write buffer, possibly after closing the current LEB
with its summary (`ostore_sync`) and taking another (`fsm_alloc_eb`), and then
updates index, garbage index, free space and summary (`proc_obj`, `sum_obj`).
`fsm_alloc_eb` may call `gc_garbage_collect`, which calls
`ostore_write_obj_list` again, in the middle of the first call and on the same
buffer, summary and counters.  `ostore_mount` rebuilds all of the memory from the
flash, from summaries or by scanning objects.  Above that, pages are dirtied by
writers and written by the kernel's flusher or by fsync, while truncation changes
the size.  In vfat, calls of several threads share the FAT under `fat_lock`, which
is released before the copies of the FAT are written; an inode is known by the place
of its directory entry, and a rename moves it while write-back may be about to
write there.

What is hard.  Power failures between any two steps and inside a flash write; the
recursion write -> allocate -> collect -> write; deletion objects processed after
everything else at mount; errors of memory or storage in the middle of an
operation, and the undoing of what was done; an LEB that is exactly full; counters
kept twice; locks released between two halves of a change; a listing of a directory
that changes; names that collide.  `hazards` in `PROJECT.json` lists each place with
the property that watches it, or says why none does.

Left out of the project: the Cogent compiler and library, Minigent, the Isabelle
and QuickCheck artefacts, ext2 in Cogent, the network and serial demonstrations,
tests, tutorial and documentation.  The reasons are in `components`.

## 2. Modules

    ObjIds              identifiers of objects, what a list of objects does to a store
      |-- AbsStore      what the object store promises its callers
      |     |-- StoreSpec    the same as a specification of its own
      |     |-- Fsop         names: fsop.c, rdx.c, wrapper.c   (with Dentarr: dentarr.c)
      |     |     '-- MCFsop
      |     '-- Vfs          data: fsop.c, wrapper.c, the page cache
      |           |-- MCVfs
      |           '-- VfsProofs, VfsFileProofs    theorems
      '-- ObjDefs       constants of the volume, objects on the flash, summaries
            |-- Fsm     fsm.c
            |-- Index   idx.c, gim.c, the index part of proc_obj
            '-- Wbuf    wbuf.c, and UBI below it
                  Ostore         ostore.c and gc.c on top of the three
                    |-- OstoreRefines   Ostore implements StoreSpec
                    |     '-- MCOstore
                    '-- OstoreProofs, OstoreWbufProofs    theorems

    FatEnt              entries of a FAT as bytes (fatent.c)
      |-- FatEntProofs  theorem: entries behave like an array
      |     '-- FatChainProofs    chains in such an array
      '-- Fat           chains and their caches, interleaving threads
            |-- MCFat
            '-- FatProofs         the invariant; lookup, cache, allocation  (with FatChainProofs)
                  '-- FatSafetyProofs    the other steps; theorems
    FatSlots            slots of a directory: layout and parsing (dir.c, module.c)
      '-- FatDir        operations on names, inodes, write-back
            '-- MCFatDir

`map` in `PROJECT.json` gives the source lines of every definition.  In the modules
that the passing runs use, an operator whose comment says "As X, but ..." is X with a
fault in it, there to show that some property would notice it.

### The object store: Ostore

**State.**  Variables have the names of the C fields they stand for.  `flash` is
what UBI holds: per LEB of the log the sequence of objects programmed, `<<>>` for
an unmapped one.  `super` is the sequence number of the last super object.  `op`
is the active call of `ostore_write_obj_list` (list, flag, loop index, sizes);
`caller` is the call that waits in `fsm_alloc_eb` while the collector writes.
`gc_*`, `scan`, `mq`, `del_list`, `mlnum`, `dcur`, `del` are the locals of the
collector, of a scan, of the mount and of the deletion loop.  `hist`, `nsync` and
`stale` are only there for properties: the content after every completed write
since the mount, how far `ostore_sync` has reported success, and whether the volume
was ever mounted with a counter below a number on the flash.

**Steps.**  `pc` says where the active call stands; every iteration of a loop of the
code is one action, and so is each straight piece between two loops or calls:

| Code | Actions |
|---|---|
| `ostore_write_obj_list` | `WriteCall`, `Enter`, `Presync`, `Pack`, `SpaceCheck`, `WriteObj`, `Postsync`, `Pool`, `IndexObj`, `WriteDone` |
| `fsm_alloc_eb` | `Alloc`, `AllocAfterGc` |
| `proc_obj` of a deletion | `DelStep`, `DelDone` |
| `ostore_sync`, `ostore_write_summary`, `wbuf_commit` | `SyncFs`, `SyncNop`, `SyncWrite`, `SyncError` |
| `gc_garbage_collect`, `ostore_erase` | `GcStart`, `GcScan`, `GcCopy`, `GcErase`, `GcGim`, `GcReturn` |
| `fsop_format_default` | `Format`, then a write |
| `ostore_mount` | `MountStart`, `MountLeb`, `MountSum`, `MountSumDone`, `MountScan`, `MountTrans`, `MountTransDone`, `MountScanDone`, `MountDel`, `MountIndexed`, `MountDone`, `MountRefused`, `MountFailed` |
| `ostore_unmount` | `Unmount`, a sync, `WriteSuper`, `Clean` |
| power failure | `Crash`, `TornCrash` |

Since every call holds the semaphore, calls do not interleave with each other; the
power failure interleaves with all of them, and after each of their steps.
`TornCrash` ends a flash write after some of its pages: objects that end in a
programmed page are there, the one that only starts in one has a header and a wrong
CRC.  `Refused` is the nondeterministic failure of an allocation or of a flash
request.  A failed `bilbyfs_assert` (BUG_ON) is modelled as a step that is not
possible, and `NoBugOn` states that none is reached.

**What is abstracted.**  Payloads are the number of the write that made them.  Hash
tables and red-black trees are the functions they represent.  CRCs are their
outcome.  `no_summary` is fixed for a run.  Read-only mounts, which leave out
writing and nothing else, are not modelled, nor is what `kmalloc` and `kfree` do.
The collector's failures before its first write (two allocations, the read) have
the same effect and are one step.  Counters that may wrap (`dirty_list`, the garbage
count, the entry count of a summary) have the widths `U32` and `U16`; sequence
numbers, 64 bits wide, do not wrap.

### What the store promises: AbsStore, StoreSpec, OstoreRefines

An abstract store is a sequence `log` of contents, the current one last and the last
synchronised one first.  A list of objects appends a content; `ostore_sync` drops all
but the last; a mount after a power failure finds one of them.  `OstoreRefines`
maps `Ostore` to it: the log is the part of `hist` from the synchronised content on,
and its last element is what `ostore_read_obj` returns (`View`), so that the
refinement says something about the index and the flash and not only about the
history.  Once the volume was mounted with sequence numbers that are used again
(`stale`, see `stale_index` below) the abstract store promises nothing.
`ImplementsStoreSpec` is checked in the run `core`.  `Fsop` and `Vfs` are built on
`AbsStore`, and so stand on what `Ostore` was checked to provide.

### Names in BilbyFs: Fsop, Dentarr

The VFS holds the directory's lock and the wrapper `bi->wd.lock` during an operation,
so an operation is one action, named like the wrapper's function
(`bilbyfs_create`, `mkdir`, `symlink`, `link`, `unlink`, `rmdir`, `rename`, `setattr`,
`write_end`, `lookup`, `readdir`, `evict_inode`, `sync_fs`, `mount`, `put_super`) over an
operator named like the `fsop_` function it calls.  `icache` are the inodes in memory, changed
before the write and restored by each operation's own undo when the write fails
(`Commit`, `trans_commit_inodes`).  `rdx` is the listing under way: what is left of
the dentarr it holds, and the identifier it goes on from.  The first `bilbyfs_readdir` of
a listing makes it (`rdx_init`) and reads from it in the same call; each call ends at the
end of the directory or when its buffer is full (`room`), and then passes over the entry
it could not give away (`refused`).  Between two calls anything may happen.
`bilbyfs_write_end` is the variant of the wrapper without write-back, so that files have
blocks; what the blocks hold is the matter of `Vfs`.  `tree` is what the calls that
returned 0 say the directories hold, one for each content of `log`; `orphans` are the
inodes without links that were on the flash at a mount, or whose deletion was refused.
A dentarr is the sequence of entries a walk over its bytes finds; the deletion is
done on the bytes, since `dentarr_del_dentry` copies entries with the size of the
entry they overwrite.

### Data in BilbyFs: Vfs

Threads that write, truncate, set attributes and synchronise, and the kernel's
flusher, over one file of a few blocks.  The inode's lock, the page locks and the
page cache are those of the kernel, from how `wrapper.c` uses them.

| Code | Actions |
|---|---|
| `bilbyfs_write_begin`, `bilbyfs_write_end_writeback` | `WriteCall`, `bilbyfs_write_begin`, `bilbyfs_write_end_writeback` |
| `bilbyfs_readpage`, `fsop_readpage`, `read_block` | `bilbyfs_readpage` |
| `bilbyfs_writepage`, `fsop_write_end` | `bilbyfs_writepage` (up to the semaphore), `WritePage` |
| `bilbyfs_fsync` | `FsyncCall`, `FsyncPage`, `FsyncEnd` |
| `bilbyfs_setattr` | `SetattrCall`; with a size `TruncateCall`, `fsop_truncate`, `bilbyfs_setattr` (behind the semaphore: the size is read), `i_size_write` and `truncate_setsize` |
| kernel, power | `ReclaimPage`, `PowerFailure` |

`fsop_truncate` holds the inode's lock but waits for no page: write-back that has read the
old size goes on between any two of the steps behind it, stores the old size again and
raises `i_size`.

`bytes` is what the calls that returned made of the file.  `lost` says what may have
damaged it: a truncation that failed while pages were dirty or returned early
(`"truncate"`), a page whose write was refused (`"write"`), a store that lost objects
(`"store"`); and what write-back did to a truncation: raised the size again (`"raised"`),
or raised it behind the reading of the size, so that memory was given a smaller one than
the store has (`"shrunk"`).

### Cluster chains of vfat: FatEnt, Fat

`FatEnt` reads and writes entries of 12, 16 and 32 bits in a table of bytes, with the
two blocks a FAT12 entry may lie in.  `Fat` has the threads that extend
(`fat_write_begin` of a file, `fat_add_new_entries` of a directory), truncate
(`fat_setattr`), read and map (`fat_bmap`).  A call is cut where the code takes or
releases a lock or reads a block: `Lookup`, `Walk`, `fat_cache_add`, `CacheAlloc`
(`cache.c`); `fat_alloc_clusters`, `AllocMirror`, `fat_free_clusters`, `FreeMirror`
(`fatent.c`); `fat_chain_add`, `ChainPut`, `ChainMirror`, `ChainUndo`, `ChainDone`
(`misc.c`, `inode.c`); `truncate_setsize`, `fat_truncate_blocks`, `Cut`, `CutMirror`
(`file.c`).  `FailKinds` names the calls that may fail.  While it frees a chain
`fat_free_clusters` copies a full batch of `MAX_BUF_PER_PAGE` blocks to the second FAT.

### Names and inodes of vfat: FatSlots, FatDir

`FatSlots` lays a long name out in slots and parses slots back, with the checksum
that ties long slots to their short entry; `vfat_create_shortname` finds the alias.
`FatDir` has one operation at a time (`op`; the VFS holds the directories' locks and
the operations the lock of the super block), in steps that end at each write of
blocks: `FillLong`, `FillShort`, `fat_add_new_entries` for an entry to add,
`RemoveFirst`, `RemoveRest` for one to remove, `RenameDetach` ... `Renamed` and
`UndoDotdot` ... `UndoSync` for `vfat_rename` and its error paths.  Beside it run
write-back (`WriteInode`, `WriteEntry`) and eviction (`Evict`, `fat_evict_inode`), the
flushing of buffers (`Flush`) and the dropping of dentries (`Shrink`).  `slots` are
the blocks in memory, `disk` those on the disk.  `tree` and `data` say what the
callers were told.  Case, character sets and times are left out, and so are
collisions of the eight-bit checksum.

## 3. Properties and runs

Passing runs.

| Run | Shows |
|---|---|
| `core` | Every operation of the store on a volume with enough free LEBs, one power failure, torn or not, at any step, and an unmount. `Recovered`: a mount gives the store after one of the writes, not an earlier one than the last that was synchronised. `ReadYourWrites`: reads return what was written, also after a mount. `NoBugOn`: the summary always fits. `SummaryDescribesLeb`, `WbufMirrorsFlash`, `FsmAccounting`, `FreeLebsErased`; `SequentialProgramming`, the rule NAND imposes; `ImplementsStoreSpec`, the refinement. |
| `gc` | A volume of four LEBs on which every second write starts the collector, with one refused request, one power failure, torn pages and lists cut at `BILBYFS_MAX_OBJ_PER_TRANS`. `GcCopiesDurable`: when the collector erases an LEB, what it decided to keep is on the flash elsewhere. Flash, buffer and free LEBs stay right on every error path of the recursion. `CallsReturn`: every call returns. |
| `fsop` | Create, mkdir, link, write, unlink, rmdir and rename with colliding names, evictions, power failures and mounts. `TreeMatches`: looking names up gives exactly what the calls made. `LinkCounts`: link counts are the numbers of entries, in every state a power failure can leave. `NothingLeaks`: the eviction of an inode without links deletes all of its objects, every block of a file, also blocks written after its last name went; and between the two calls the inode is in memory, so that the eviction comes, unless the power fails first. |
| `fsop_errors` | The same with symlinks, setattr and listings, and a store call that fails. `MemoryMatchesStore`: a failed call leaves the inodes in memory as the store has them. `ListingComplete`: a listing, made of several calls with buffers for none, one or two entries, shows every entry that was there throughout, although others come and go between its calls, and none twice; except that the entry a full buffer refused is lost. |
| `vfs` | Writes, truncations, write-back, reclaim, fsync, a failing call and a power failure, in pages that start with garbage. `FileCurrent`: readers see what writers wrote and no truncation cut, wherever the pages are; and nothing else, unless write-back has overtaken a truncation. `NoDataBehindEnd`: no state after a power failure has data behind the end of the file. `FsyncDurable`: after an fsync that returned 0 everything is on the flash, also after an fsync that failed, unless that one left the store as `ostore.c:442` does. `NoDeadlock`: some call can always go on. |
| `fat` | Two threads on a FAT12, a FAT16 and a FAT32 volume, with one failing call. `ChainsSound`: chains are disjoint, without cycles, and end. `NoClusterLost`, `FreeCountExact`, `MirrorCurrent`, `CacheCoherent`, and `MapsRightCluster`: a block that is read or mapped is the file's, while others truncate it. TLC also finds no deadlock. |
| `fatdir` | Two calls with write-back and eviction between their steps and a failing write, with and without DIRSYNC, on clean directories and on ones with leftover long slots. `NamesMatch`: each name is listed once and found. `AliasesUnique`, `OneInodePerEntry`, `EntryCurrent`: the first cluster in an entry is that of its file. `DotdotMatches`: `..` leads to the parent, also after a failed rename. `DiskKeepsNames`: with DIRSYNC the disk never lacks a file that was there. |

Violations: places where the code does not do what a comment of the repository says.
Each run checks that one statement; `findings` quotes it.

| Run | What TLC finds |
|---|---|
| `stale_index` | After a power failure `next_sqnum` restarts from the super object (`ostore.c:686`), and numbers that are on the flash are given out again, although `bilbyfs.h:824` calls them unique. A write after such a mount can be "older" than the version in the index: the client reads the old one. |
| `gc_live` | `proc_obj` overwrites the index node before it uses it to account for the old version (`ostore.c:171-173`): the new version is counted as garbage, the garbage index calls the live object removable, and the collector erases it. |
| `inum_reuse` | The super object does not store the last inode number (`packobj.c:172`), so that numbers start again at each mount: a new file takes the inode of an old one. |
| `rename_undo` | A rename onto an existing name fails while the moved inode is being written back: the replaced entry keeps the moved file's cluster on the disk (`module.c:860`). |
| `lookup_cached` | A lookup that finds the inode still in memory returns it in the place of an error pointer (`wrapper.ac:831`). |

Each of these is met by an assumption in the passing runs, which is a constant of
its own where possible: `ReadYourWrites`, `Recovered` and `ImplementsStoreSpec` make no
claim once `stale`; `core` has enough LEBs never to start the collector, and `gc` does
not claim that what the collector keeps is everything that is live; `MayReuse`,
`UndoRaces` and `LooksUpCached` are FALSE in `fsop`, `fsop_errors` and `fatdir`.

Further departures of the code that the models have, and that the runs stay clear of:

* The collector's write is synchronised before its summary entries exist
  (`ostore.c:533`): the LEB is closed with a summary that lacks them, and they end up
  in the summary of another LEB; or the LEB is left open without room for them, and
  the next write stops at the assertion `ostore.c:499`.  (`SummaryDescribesLeb` and
  `NoBugOn` are checked in `core` only.)
* `fsm_init` counts the LEBs in front of the log as free (`fsm.c:30`), so when the
  collector is started no LEB may be left for it.
* A power failure inside a flash write leaves an object with a bad CRC, which makes
  `mount_scan` fail (`ostore.c:1057`).
* With `no_summary`, a list that fills the LEB exactly leaves `avail = 0`, which
  `ostore_sync` takes for "nothing to write" (`ostore.c:442`).  (`Recovered` is checked
  with summaries.)  The same happens after the flash refused the write of a summary:
  what was in the buffer never gets there, and the next fsync returns 0.  In `Vfs` a
  refused request may leave the store like that (`Refused`, `"store"` in `lost`).
* `dentarr_del_dentry` copies with the size of the overwritten entry (`dentarr.c:93`),
  which damages entries whose names differ in length; with `Short = TRUE` in `fsop.cfg`
  `TreeMatches` fails.  No limit is enforced when an entry is added, while reading
  refuses more than 16.
* `fsop_readdir` loses the entry that did not fit into the caller's buffer
  (`fsop.c:523`); without `refused` `ListingComplete` fails.
* No mount looks for inodes without links: when the power fails between an unlink and the
  eviction, or the deletion is refused, the objects stay for good, although
  `fsop.c:1066-1074` says that the space is available again after the next mount.
  `NothingLeaks` excepts them (`orphans`).
* A directory's size is reset to the size of an empty inode object, 96 bytes, whenever its
  inode is read (`wrapper.c:51`), while each removal takes the size of an entry off it, up
  to 263 bytes.  The size can fall below zero, which `validate_inode` takes for too large
  (`fsop.c:60`): the directory cannot be looked up any more, and if it is the root the
  volume cannot be mounted.  `Fsop` has these states; no property speaks of them.
* Write-back reads the size before it takes the semaphore (`wrapper.c:542`), and
  `bilbyfs_setattr` stores the new size before it waits for pages (`wrapper.c:654`, `663`).
  A page that is being written then stores the old size again and brings back what the
  truncation cut (`"raised"`), and when that happens behind the reading of the size,
  memory has a smaller size than the store (`"shrunk"`), and later truncations delete too
  little.  `FileCurrent` and `FsyncDurable` claim what is left then: that nothing is missing
  of what was written and not cut.  `NoDataBehindEnd` excepts `"shrunk"`.
* `fsop_readpage` leaves the page as it was allocated when the block begins at the
  end of the file (`fsop.c:808`), and a write there makes the garbage a part of the file.
  `FreshBytes = {2}`: such bytes are neither a hole's nor written by a call.
* `fsop_truncate` returns early with the size changed in memory (`fsop.c:918-923`), and one
  whose write fails restores it, but write-back may have taken pages for outside of the file
  meanwhile; `lost` marks both (`"truncate"`).
* `fat_cache_add` releases `cache_lru_lock` to allocate an entry and does not look at
  `id` again afterwards (`cache.c:156-184`), although `cache.c:205` says that copies
  made before an invalidation are discarded.  A thread that holds a copy of an entry
  which was replaced meanwhile, but whose `id` is still valid, gets a place for it; a
  truncation invalidates the cache; then the copy is added, and leads to clusters that
  were freed.  With a third thread on the file TLC finds `CacheCoherent` violated after
  31 steps.  If the places are all reserved and the list is empty, the head of the list
  is even taken for an entry (`cache.c:175`).  `fat` has two threads, for which
  `NoCacheRace` (section 4) proves that neither happens.
* When `fat_chain_add` has linked a new cluster and the copy of the FAT cannot be
  written, the cluster is freed while the chain still leads to it
  (`inode.c:109-111`); `"chain_mirror"` is left out of `FailKinds` for that reason.

### Bounds

**Ostore.**  The geometry is scaled down, the shape is kept: pages of 8 units, LEBs
of three to five pages, objects of 4 and 6 units so that most commits need padding of
either kind (a pad object, or a run of bytes too short for a header), summaries that
grow with each object, one LEB in front of the log (three in the code), reserves of
one and two LEBs.  In `core` an LEB of five pages takes one or two lists before it
has to be closed, so three writes after formatting cover a list behind another,
a list that closes the LEB, and a list that starts one; a file with two blocks, a
directory entry and the root cover single and range deletions and objects they must
leave alone.  One power failure is enough for recovery as the mount starts from
nothing but the flash.  `MaxTxns`, `MaxCrashes`, `MaxUnmounts` and `MaxFails` bound the
number of client writes, power failures, unmounts and refused requests; in the `gc`
runs the volume fills up and is collected within `MaxTxns`.  No symmetry is used:
identifiers are ordered, and the code depends on the order.

**Fsop.**  Three names, two of which share a hash (and are interchangeable, which the
symmetry `Colliding` uses), and three inode numbers besides the root's (two in
`fsop_errors`): a tree two directories deep, replaced targets of either type, and both names of a rename in one
dentarr or in two.  `MaxOps` calls (four in `fsop`, three in `fsop_errors`) reach a
rename onto a directory that was made by earlier calls.  `MaxUnsynced` bounds the
transactions a power failure may cut off, so a sync comes between longer sequences.
A file has up to two blocks.  `InodeSz` is smaller than an entry, as in the code, where an
entry may have a name of 255 bytes; `MaxDentarrEntries` is no smaller than the number of
names that collide.  The buffer of a `bilbyfs_readdir` call takes 0 to `BufEntries` = 2
entries, so that a listing of three names ends inside of a dentarr, between two, or in one
call; `fsop` has no listings.

**Vfs.**  Two threads, which are interchangeable, the flusher, and a file of two
blocks of two bytes: sizes at, below and above a block boundary, short blocks, holes,
and blocks behind the end.  `MaxCalls` is three, so that a write, a truncation and an
fsync can overlap in any way, or a failed fsync be tried again; one failure, one power
failure, two transactions that are not synchronised.

**Fat.**  Five clusters, blocks of four bytes, so that FAT12 entries do straddle
blocks; chains in pieces on a volume with one free cluster, and chains in one piece
on a full one, where only a truncation makes room; a count of free
clusters that is unknown or wrong at mount; caches of `FAT_MAX_CACHE` = 2 entries (8
in the code), so that entries are replaced; batches of `MAX_BUF_PER_PAGE` = 2 blocks (8 in
the code), so that freeing a chain fills one.  Two interchangeable threads and
`MaxCalls` = 3 give each thread a call while the other one runs, and one to follow;
`MaxFails` = 1.

**FatDir.**  Two slots to a block and four to a cluster, so that a long name lies in
two blocks and a directory has to grow; a short name and two long ones whose aliases
collide.  The root is that of FAT12 and FAT16, which cannot grow.  `Places` restricts
the names to those that differ in where their slots lie.  Two calls, one failing write
and one dropped dentry (`MaxDrops`) are what a failed rename, the write-back that
meets it, and the call that meets the result need.  `MaxObj` bounds the objects made.

CHECK_DEADLOCK is off in the runs of `Fsop` and `Vfs`, whose clients may have nothing
left to do when the bounds are used up; `NoDeadlock` takes its place in `vfs`.  `Fat`
and `FatDir` have an explicit `Finished` instead, and are checked for deadlock.

### Fairness

`FairSpec` of `Ostore` asks for weak fairness of `Step`, the steps of the thread
that holds the semaphore.  Inside the semaphore the store waits for no other
thread, so a running call is only ever delayed by the scheduler.  Nothing is assumed
about clients, power failures or refused requests.  The other modules state no
fairness: that calls of several threads return is checked as freedom from deadlock,
since the liveness check of their state graphs takes longer than the runs allow.

## 4. Proofs

TLAPS checks the following for every value of the constants that satisfies the named
assumptions.  Each property is one that a run checks on a small instance.

| Module | Theorems | Rests on |
|---|---|---|
| `OstoreProofs` | `FsmAccountingHolds`, `FreeLebsErasedHolds` | `LogInvariance` |
| `OstoreWbufProofs` | `TypeOKHolds`, `WbufMirrorsFlashHolds`, `SequentialProgrammingHolds` | `TypeInvariance`, `LogInvariance` |
| `VfsProofs` | `TypeOKHolds`, `NoDataBehindEndHolds` | `TypeInv`, `SizeInv` |
| `VfsFileProofs` | `FileCurrentHolds`, `FsyncDurableHolds` | the two before, `PageInv`, `FsyncInv` |
| `FatEntProofs` | `EntryWritten` | bytes and words of 12, 16 and 32 bits |
| `FatSafetyProofs` | `TypeOKHolds`, `ChainsSoundHolds`, `NoClusterLostHolds`, `FreeCountExactHolds`, `MirrorCurrentHolds`, `CacheCoherentHolds`, `MapsRightClusterHolds` | `Inv` (`FatProofs`), `EntryWritten`, the lemmas of `FatChainProofs` |
| `FatSafetyProofs` | `NoCacheRace`, `TwoThreadsSafe` | `Inv`, `CopiesInv` |

**Assumptions.**  `GeometryAssumption` (`ObjDefs`): whole pages and padding units, a log
of at least two LEBs, reserves that fit.  `IdsAssumption`: an identifier has the type of
an inode, a dentarr or a block.  `ClientAssumption` (`Ostore`): clients write lists of
such objects; the number of calls, power failures and refused requests is arbitrary.
`FileAssumption`, `ThreadAssumption`, `BoundsAssumption` (`Vfs`): a block has at least one
byte, the blocks of the file have identifiers, the flusher is not a client.
`BlockAssumption` (`FatEnt`): blocks are whole words, there is a cluster.
`ThreadAssumption`, `BoundsAssumption`, `VolumesAssumption` (`Fat`): finitely many threads,
a cache of at least one entry, and volumes in order, that is, disjoint chains that end and
no other cluster in use; the count of free clusters may be wrong.  A volume has no
cluster whose number is the mark of a bad one or of the end of a chain, which
`fat_fill_super` ensures but for a FAT32 volume of exactly `MAX_FAT32` clusters.  TLC
evaluates all of them in the runs.  The theorems of `Vfs` have no other hypotheses.

**Free space (`OstoreProofs`).**  Neither property is inductive.  `fsm_mark_erased`
increments the counter whatever
the LEB was, so the collector's erasure is right only if the LEB it chose is still
in use and is not the one its own write has meanwhile been filling: `GcInv` carries
that through the nested write.  `fsm_mark_used` decrements it whatever the LEB was,
so the mount is right only if it meets each LEB once, on a manager that marks
nothing from there on: `MountInv` says how far the scan has come and that everything
below is accounted for.  `FlashInv` says that nothing is on the flash before a super
object is, so that formatting starts from an erased volume, and `ReturnInv` where a
sync and a deletion loop return to, which the others need to know at the return.
Most actions leave the accounting alone; `Quiet` names what they keep, and one lemma
carries the invariant over it.  The counting itself is two lemmas about the
cardinality of the set of used LEBs.

**Write buffer and flash (`OstoreWbufProofs`).**  What is read back from the flash is
indexed, so types are only inductive when the flash, the buffer and all lists hold
objects with an identifier (`LogItem`), and when there is an LEB to index them under
(`OpenInv`, at every step of a list's way through `ostore_write_obj_list`, the nested
call of the collector included).  `WbufInv` says that the first `sync_n` objects of the
buffer are those on the flash and that `used`, `avail` and `sync_offs` follow from the
objects; that needs `Contiguous`, each object beginning where the one before ends, and
this in turn the arithmetic of `ALIGN` and of the two kinds of padding, so that a commit
ends on a page boundary (`CommitFacts`).  A torn write keeps a prefix of the pages, and so
a prefix of a contiguous sequence.  The action property follows from `FlashStep`: every
step that writes appends to the LEB being filled what the buffer has behind `sync_n`.
Facts about all elements of a sequence are proved by the least counterexample
(`LeastOf`), as the induction theorems of the library cannot be used.

**Data of a file (`VfsProofs`, `VfsFileProofs`).**  `NoDataBehindEnd` is about the store
and needs the memory: a truncation chooses the blocks to delete by the size in memory,
which must not be below the stored one, and a page being written must lie within its
block (`SizeInv`, `CallsInv`).  `FileCurrent` needs to know what pages and store hold byte
by byte (`PageRight`, `StoreRight`): a byte that a call wrote and none cut (`Has`) is in the
page, and in the store unless the page is dirty or being written, as a clean page may be
dropped at any time.  The converse, that a written byte that is found was not cut, is wanted
behind the end of the file too, where a later write uncovers it, and holds only as long as
write-back has not overtaken a truncation; so `BlockInv` and `LengthInv` have a part for
`Unharmed` states and a stronger one for `lost = {}`.  A page being written is neither clean
nor dirty, and truncations take pages away one by one (`WritingInv`, `Cutting`).
`FsyncDurable` needs that nobody else is still writing a page that the fsync has passed
(`SyncedInv`) and that some page is left to carry what is not stored yet (`DirtyInv`).

**Entries of the FAT (`FatEntProofs`, `FatChainProofs`).**  `EntryWritten` says that a
written entry is read back and that no other one changes, although two FAT12 entries
share a byte and one may lie in two blocks, and that only bytes in the blocks of
`fat_collect_bhs` change.  From there on a FAT is a function of the cluster.  The loops of
`fat_alloc_clusters`, `fat_free_clusters` and the walks are recursive functions; what they
compute is proved by `UpTo`, an induction over 0 .. n that comes down to the least
counterexample, and the free clusters are counted with `Cardinality`.

**Chains, counts and caches (`FatProofs`, `FatSafetyProofs`).**  The FAT alone does not say
who owns a cluster: between two steps of an allocation or a truncation a thread holds a
chain that no file leads to.  `InvOf(ch)` has a witness `ch` for that, a chain for each file
*and* each thread, disjoint and, as long as no freeing call failed, together all clusters
that are not free (`ChainInv`); steps hand chains from one owner to another, and `Inv` is
`\E ch : InvOf(ch)`.  Beside it stand what each thread's locals are (`ThreadInv`: its size
fields, its place in the chain, that its target lies before a cut that another thread is
about to make), the cache entries and the copies that threads have of them (`CacheInv`,
`CidInv`: a copy with a valid `id` is a part of the chain, and if the file is being cut, of
what stays), the reserved places of the cache (`PlacesInv`), the count of free clusters
(`CountInv`, also in what range it is while nobody has counted), and the blocks in which the
second FAT may differ, because some thread will still write them (`MirrorInv`).  The seven
invariants of `Fat` follow from `Inv`.

These theorems have two conditions.  `"chain_mirror" \notin FailKinds`: the copy of the
entry that links new clusters does not fail; if it does, linked clusters are freed
(section 3).  The other is that `fat_cache_add` does not meet the race of section 3, which
three calls on one file bring about.  `CacheCoherentHolds` and `MapsRightClusterHolds`, the
two statements that the race breaks at once, say which executions are safe from it:
`[]TwoOnAFile`, any number of threads and files, but at most two calls on a file at a time,
and a cache of more than one entry (the code has 8).  `NoCacheRace` is the reason: a copy
whose entry is gone while its `id` is valid was pushed out by the other thread, after which
the list is full and stays so (`CopiesInv`).  The other five are stated for `[]~CacheRace`,
which is weaker; `TwoThreadsSafe` has all seven for two threads, as in the run.

**Only model-checked.**  Liveness (`CallsReturn`) and `NoDeadlock` need fairness and
ENABLED, which this version of the proof system does not handle.  `ReadYourWrites`,
`Recovered`, `SummaryDescribesLeb` and the refinement need an induction over the content
of the whole flash.  `NoBugOn` and `GcCopiesDurable` need an argument about sizes that
does not hold for every geometry: a collector's list that filled an LEB exactly would
leave `avail = 0`, with which `ostore_sync` writes nothing (section 3).  `Fsop` and
`FatDir` are open; see the plan.

## 5. Plan

1. **Proofs.**  `OneInodePerEntry` of `FatDir`; `MemoryMatchesStore` of `Fsop`.
2. **Super**: LEB 0 with `super_offs`, the buffer `sup_wbuf` and
   `wbuf_atom_leb_commit`; what happens when the LEB is full (`ostore.c:707`).
3. **Failed writes in the abstract store**: a write that returned an error and shows
   up later (`ostore.c:540`), and when a client may be refused (`fsm.c:101`), so that
   the refinement can be checked with refused requests.

## 6. Not modelled

* `rbt.c` (from the Linux kernel), `debug.c`, memory management, the node pool.
* Of the VFS wrapper: `bilbyfs_dir_llseek`,
  which takes the semaphore and calls a function that takes it again; statfs, flags,
  mount options, module registration.
* Of vfat: mounting and its options, the FSINFO sector, NFS handles, ioctls, direct
  I/O, character sets and case, times, volumes with more than one block to a cluster.
  `vfat_mkdir_cog` releases a lock that it never took (`super.cogent:527`), and link
  counts, which `vfat_rename` does not restore on an error (`module.c:816`), are not
  part of the state.
* ext2, whose structure is close to vfat's, and all that is not a file system; see
  `components`.

## 7. Running it

    tlc -workers 2 -config core.cfg MCOstore
    tlc -workers 2 -config fsop.cfg MCFsop        (fsop_errors, inum_reuse)
    tlc -workers 2 -config vfs.cfg MCVfs
    tlc -workers 2 -config fat.cfg MCFat
    tlc -workers 2 -config fatdir.cfg MCFatDir    (rename_undo, lookup_cached)
    tlapm OstoreProofs.tla                        (and the other modules of section 4)

`runs` in `PROJECT.json` names the module of each configuration.
