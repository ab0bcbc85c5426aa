-------------------------------- MODULE Fsop --------------------------------
(***************************************************************************)
(* BilbyFs's operations on the name space (fsop.c, rdx.c) and the wrapper  *)
(* functions that call them (os/linux/wrapper.c), over the abstract object *)
(* store that the object store of ostore.c implements.                     *)
(*                                                                         *)
(* The VFS serialises the operations of a directory with the directory's   *)
(* lock, and the wrapper holds bi->wd.lock around every fsop call, so that *)
(* an operation is one action.  Between two of them the volume may be      *)
(* synchronised, listed, unmounted or lose its power, and every write of   *)
(* objects may fail.  Times and the orphan flag, which nothing reads, are  *)
(* left out.  Of the data of regular files only which blocks there are     *)
(* matters here; module Vfs has the rest.                                  *)
(***************************************************************************)
EXTENDS AbsStore, Dentarr, FiniteSets, TLC

CONSTANTS
    Hash,        \* the hash of each name
    RootIno,     \* BILBYFS_ROOT_INO
    LastInum,    \* BILBYFS_LAST_INUM
    InodeSz,     \* BILBYFS_INODE_SZ
    BufEntries,  \* bound of the entries that fit into a readdir call's buffer
    MayReuse,    \* whether a creation may take an inode number in use
    Calls,       \* the calls the client makes
    MaxOps, MaxFails, MaxCrashes,  \* bounds of this instance
    MaxUnsynced  \* bound of the transactions that are not synchronised

REG == 0
DIR == 1
LNK == 2
FirstIno == RootIno + 1

VARIABLES
    super,      \* a super object is on the flash
    icache,     \* the cached inodes: [type, nlink, size, attr]
    next_inum,  \* bi->next_inum
    is_ro,      \* bi->is_ro
    rdx,        \* the directory listing under way, or <<>>
    tree,       \* for each content of log, the entries the calls left
    orphans,    \* inodes without links that nothing will delete any more
    ops, fails, crashes   \* what is left of the bounds

fs_vars == <<super, icache, next_inum, is_ro, rdx, tree, orphans, ops, fails, crashes>>
vars == <<store_vars, fs_vars>>

inode_id_init(ino) == obj_id(ino, INODE, 0)
dentarr_id_init(ino, name) == obj_id(ino, DENTARR, Hash[name])
data_id_init(ino, block) == obj_id(ino, DATA, block)

(* The objects of a list: pack_obj_inode, pack_obj_data, pack_obj_del, and *)
(* a dentarr, which becomes a deletion object with its last entry.         *)
InodeObj(ino, inode) == [type |-> INODE, id |-> inode_id_init(ino), val |-> inode]
DataObj(ino, block, data) == [type |-> DATA, id |-> data_id_init(ino, block), val |-> data]
DelObj(id) == [type |-> DEL, id |-> id, val |-> Absent]
DentarrObj(id, d) ==
    IF d = <<>> THEN DelObj(id) ELSE [type |-> DENTARR, id |-> id, val |-> d]

(* dentarr_read fails on an array that holds too many entries.             *)
dentarr_read_ok(c, id) == c[id] # Absent => Len(c[id]) <= MaxDentarrEntries
dentarr_read_or_create(c, id) == IF c[id] = Absent THEN <<>> ELSE c[id]

(* fsop_lookup: the entries of dir called name; none is -ENOENT.           *)
fsop_lookup(c, dir, name) ==
    LET id == dentarr_id_init(dir, name)
        d == dentarr_read_or_create(c, id)
    IN IF ~dentarr_read_ok(c, id) THEN {} ELSE {d[k] : k \in dentarr_lookup_nm(d, name)}

(* As ostore_next_obj_id, but it starts one identifier too far.            *)
ostore_next_obj_id_OffByOne(c, id) ==
    LET later == {x \in Ids : x > id + 1 /\ c[x] # Absent}
    IN IF later = {} THEN NIL_ID ELSE CHOOSE x \in later : \A y \in later : x <= y

(* ostore_next_obj_id.                                                     *)
ostore_next_obj_id(c, id) ==
    LET later == {x \in Ids : x > id /\ c[x] # Absent}
    IN IF later = {} THEN NIL_ID ELSE CHOOSE x \in later : \A y \in later : x <= y

(* next_dentarr_dentry: the next dentarr of a listing, or NIL_ID.  Only    *)
(* the type of the identifier is looked at: the objects of a directory end *)
(* at the next inode's inode object.                                       *)
next_dentarr_dentry(c, id) ==
    LET next == ostore_next_obj_id(c, id)
    IN IF next # NIL_ID /\ type_from_id(next) = DENTARR THEN next ELSE NIL_ID
check_dir_empty(c, dir) == next_dentarr_dentry(c, inode_id_init(dir)) = NIL_ID

(* What the last committed list left, and what the operations may use: the *)
(* VFS looks a name up before it calls an operation and keeps the inode.   *)
Now == tree[Len(tree)]
Alive == mounted /\ RootIno \in DOMAIN icache
Dirs == {i \in DOMAIN icache : icache[i].type = DIR /\ icache[i].nlink > 0}
Free(dir, name) == dir \in Dirs /\ fsop_lookup(Content, dir, name) = {}
Entry(dir, name) ==
    {e \in fsop_lookup(Content, dir, name) : dir \in Dirs /\ e.ino \in DOMAIN icache}
TreeEntry(dir, name, ino, type) == [dir |-> dir, name |-> name, ino |-> ino, type |-> type]
sz(name) == DentrySz + Nlen[name] + 1
Inums == {inum_from_id(id) : id \in Ids}

(* A call of the client that the mount does not refuse.                    *)
Call(op) ==
    /\ Alive /\ ~is_ro /\ op \in Calls
    /\ ops > 0 /\ ops' = ops - 1
    /\ UNCHANGED <<super, is_ro, orphans, crashes>>

(* What was in a directory throughout its listing, and what ever was.      *)
Listed(t) ==
    rdx' = IF rdx = <<>> THEN <<>>
           ELSE [rdx EXCEPT !.always = @ \cap t, !.ever = @ \cup {e \in t : e.dir = rdx.dir}]

(* ostore_write_obj_list: the list is written and the inodes in memory are *)
(* mem, or it fails and the operation restores them to undo.               *)
Commit(objs, mem, undo, t) ==
    \/ /\ Len(log) <= MaxUnsynced /\ WriteObjs(objs)
       /\ icache' = mem /\ tree' = Append(tree, t) /\ Listed(t)
       /\ UNCHANGED fails
    \/ /\ fails > 0 /\ fails' = fails - 1
       /\ icache' = undo
       /\ UNCHANGED <<store_vars, tree, rdx>>

(* trans_commit_inodes: a directory operation on a dentarr, an inode and   *)
(* its directory.                                                          *)
trans_commit_inodes(objs, mem, undo, ino, dir, t) ==
    Commit(objs \o <<InodeObj(ino, mem[ino]), InodeObj(dir, mem[dir])>>, mem, undo, t)
-----------------------------------------------------------------------------
(* init_inode takes the next inode number, also for a call that fails      *)
(* later on; next_inum increments before it returns.                       *)
init_inode ==
    /\ next_inum < LastInum
    /\ next_inum' = next_inum + 1
    /\ MayReuse \/ Content[inode_id_init(next_inum + 1)] = Absent

(* The inode of bilbyfs_new_inode, after init_inode_by_type.               *)
NewInode(type, nlink) ==
    [type |-> type, nlink |-> nlink, size |-> IF type = DIR THEN InodeSz ELSE 0, attr |-> 0]

(* A creation whose dentarr cannot be read: the number is lost.            *)
CreationFails == fails > 0 /\ fails' = fails - 1 /\ UNCHANGED <<store_vars, icache, tree, rdx>>

(* The dentarr of dir for name with an entry of inode ino added.           *)
WithEntry(dir, name, ino, type) ==
    LET id == dentarr_id_init(dir, name)
    IN DentarrObj(id, dentarr_add_dentry(dentarr_read_or_create(Content, id), ino, type, name))
WithoutEntry(dir, name) ==
    LET id == dentarr_id_init(dir, name)
    IN DentarrObj(id, dentarr_del_dentry(Content[id], name))

fsop_create(dir, name, ino) ==
    LET mem == [icache EXCEPT ![dir].size = @ + sz(name)] @@ (ino :> NewInode(REG, 1))
        undo == [i \in DOMAIN icache |-> [mem EXCEPT ![dir].size = @ - sz(name)][i]]
    IN trans_commit_inodes(<<WithEntry(dir, name, ino, REG)>>, mem, undo, ino, dir,
                           Now \cup {TreeEntry(dir, name, ino, REG)})

(* A symbolic link: its target is a data object of the same transaction.   *)
fsop_symlink(dir, name, ino) ==
    LET inode == [NewInode(LNK, 1) EXCEPT !.size = 1]
        mem == [icache EXCEPT ![dir].size = @ + sz(name)] @@ (ino :> inode)
        undo == [i \in DOMAIN icache |-> [mem EXCEPT ![dir].size = @ - sz(name)][i]]
    IN trans_commit_inodes(<<WithEntry(dir, name, ino, LNK), DataObj(ino, 0, name)>>,
                           mem, undo, ino, dir, Now \cup {TreeEntry(dir, name, ino, LNK)})

fsop_mkdir(dir, name, ino) ==
    LET mem == [icache EXCEPT ![dir].size = @ + sz(name), ![dir].nlink = @ + 1]
                   @@ (ino :> NewInode(DIR, 2))
        undo == [i \in DOMAIN icache |->
                    [mem EXCEPT ![dir].size = @ - sz(name), ![dir].nlink = @ - 1][i]]
    IN trans_commit_inodes(<<WithEntry(dir, name, ino, DIR)>>, mem, undo, ino, dir,
                           Now \cup {TreeEntry(dir, name, ino, DIR)})

(* The wrapper hashes the new inode only if the operation succeeds.        *)
Creation(op, dir, name) == Call(op) /\ Free(dir, name) /\ init_inode
Creatable(dir, name) == dentarr_read_ok(Content, dentarr_id_init(dir, name))
bilbyfs_create(dir, name) ==
    /\ Creation("create", dir, name)
    /\ CreationFails \/ (Creatable(dir, name) /\ fsop_create(dir, name, next_inum + 1))
bilbyfs_mkdir(dir, name) ==
    /\ Creation("mkdir", dir, name)
    /\ CreationFails \/ (Creatable(dir, name) /\ fsop_mkdir(dir, name, next_inum + 1))
bilbyfs_symlink(dir, name) ==
    /\ Creation("symlink", dir, name)
    /\ CreationFails \/ (Creatable(dir, name) /\ fsop_symlink(dir, name, next_inum + 1))

fsop_link(ino, dir, name) ==
    LET mem == [icache EXCEPT ![ino].nlink = @ + 1, ![dir].size = @ + sz(name)]
        undo == [mem EXCEPT ![dir].size = @ - sz(name), ![ino].nlink = @ - 1]
    IN trans_commit_inodes(<<WithEntry(dir, name, ino, icache[ino].type)>>, mem, undo, ino, dir,
                           Now \cup {TreeEntry(dir, name, ino, icache[ino].type)})
bilbyfs_link(ino, dir, name) ==
    /\ Call("link") /\ Free(dir, name)
    /\ icache[ino].type # DIR /\ icache[ino].nlink > 0
    /\ dentarr_read_ok(Content, dentarr_id_init(dir, name))
    /\ fsop_link(ino, dir, name)
    /\ UNCHANGED next_inum

(* As fsop_unlink, but a failure does not restore the link count.          *)
fsop_unlink_NoUndo(dir, name, ino) ==
    LET mem == [icache EXCEPT ![ino].nlink = @ - 1, ![dir].size = @ - sz(name)]
    IN trans_commit_inodes(<<WithoutEntry(dir, name)>>, mem, [mem EXCEPT ![dir].size = @ + sz(name)],
                           ino, dir, {e \in Now : <<e.dir, e.name>> # <<dir, name>>})

(* As fsop_unlink, but the link count drops twice.                         *)
fsop_unlink_Twice(dir, name, ino) ==
    LET mem == [icache EXCEPT ![ino].nlink = @ - 2, ![dir].size = @ - sz(name)]
    IN trans_commit_inodes(<<WithoutEntry(dir, name)>>, mem, icache, ino, dir,
                           {e \in Now : <<e.dir, e.name>> # <<dir, name>>})

fsop_unlink(dir, name, ino) ==
    LET mem == [icache EXCEPT ![ino].nlink = @ - 1, ![dir].size = @ - sz(name)]
        undo == [mem EXCEPT ![dir].size = @ + sz(name), ![ino].nlink = icache[ino].nlink]
    IN trans_commit_inodes(<<WithoutEntry(dir, name)>>, mem, undo, ino, dir,
                           {e \in Now : <<e.dir, e.name>> # <<dir, name>>})
bilbyfs_unlink(dir, name) ==
    /\ Call("unlink")
    /\ \E e \in Entry(dir, name) : e.type # DIR /\ fsop_unlink(dir, name, e.ino)
    /\ UNCHANGED next_inum

fsop_rmdir(dir, name, ino) ==
    LET mem == [icache EXCEPT ![ino].nlink = 0, ![dir].nlink = @ - 1, ![dir].size = @ - sz(name)]
        undo == [mem EXCEPT ![dir].size = @ + sz(name), ![dir].nlink = @ + 1, ![ino].nlink = 2]
    IN /\ check_dir_empty(Content, ino)
       /\ trans_commit_inodes(<<WithoutEntry(dir, name)>>, mem, undo, ino, dir,
                              {e \in Now : <<e.dir, e.name>> # <<dir, name>>})
bilbyfs_rmdir(dir, name) ==
    /\ Call("rmdir")
    /\ \E e \in Entry(dir, name) : e.type = DIR /\ fsop_rmdir(dir, name, e.ino)
    /\ UNCHANGED next_inum
-----------------------------------------------------------------------------
(* The link counts after a rename has replaced v, and after it has moved   *)
(* old (fsop_rename).                                                      *)
ReplacedLinks_KeepParent(m, v, new_dir) ==
    IF v.type = DIR THEN [m EXCEPT ![v.ino].nlink = 0] ELSE [m EXCEPT ![v.ino].nlink = @ - 1]
ReplacedLinks(m, v, new_dir) ==
    IF v.type = DIR
    THEN [m EXCEPT ![v.ino].nlink = 0, ![new_dir].nlink = @ - 1]
    ELSE [m EXCEPT ![v.ino].nlink = @ - 1]
MovedLinks(m, old, old_dir, new_dir) ==
    IF old.type = DIR
    THEN [[m EXCEPT ![old_dir].nlink = @ - 1] EXCEPT ![new_dir].nlink = @ + 1]
    ELSE m

(* get_dentarr_cache for the new name, when the old one's dentarr oid is   *)
(* cached as d; and a version that reads the dentarr again.                *)
get_dentarr_cache_Reread(nid, oid, d) == dentarr_read_or_create(Content, nid)
get_dentarr_cache(nid, oid, d) ==
    IF nid = oid THEN d ELSE dentarr_read_or_create(Content, nid)

(* bilbyfs_do_rename; victims is the entry that the new name has, if any.  *)
(* Both names may be in one dentarr, which the cache of two dentarrs then  *)
(* holds once and the transaction writes once.                             *)
bilbyfs_do_rename(old_dir, old_name, old, new_dir, new_name, victims) ==
    LET oid == dentarr_id_init(old_dir, old_name)
        nid == dentarr_id_init(new_dir, new_name)
        o1 == dentarr_del_dentry(Content[oid], old_name)
        target == get_dentarr_cache(nid, oid, o1)
        cleared == IF victims = {} THEN target ELSE dentarr_del_dentry(target, new_name)
        filled == dentarr_add_dentry(cleared, old.ino, old.type, new_name)
        m0 == IF victims = {} THEN icache
              ELSE ReplacedLinks(icache, CHOOSE v \in victims : TRUE, new_dir)
        m1 == [MovedLinks(m0, old, old_dir, new_dir) EXCEPT ![old_dir].size = @ - sz(old_name)]
        mem == [m1 EXCEPT ![new_dir].size = @ + IF victims = {} THEN sz(new_name) ELSE 0]
        objs == (IF nid = oid THEN <<DentarrObj(nid, filled)>>
                              ELSE <<DentarrObj(oid, o1), DentarrObj(nid, filled)>>)
                \o <<InodeObj(old_dir, mem[old_dir])>>
                \o (IF victims = {} THEN <<>>
                    ELSE LET v == CHOOSE v \in victims : TRUE IN <<InodeObj(v.ino, mem[v.ino])>>)
                \o <<InodeObj(new_dir, mem[new_dir]), InodeObj(old.ino, mem[old.ino])>>
        t == {e \in Now : <<e.dir, e.name>> \notin {<<old_dir, old_name>>, <<new_dir, new_name>>}}
                \cup {TreeEntry(new_dir, new_name, old.ino, old.type)}
    IN /\ dentarr_read_ok(Content, oid) /\ dentarr_read_ok(Content, nid)
       /\ Commit(objs, mem, icache, t)

(* Whether directory a is b or above it (the VFS refuses such renames).    *)
Above(a, b) ==
    LET up[k \in 0 .. Cardinality(Ids)] ==
            IF k = 0 THEN {b}
            ELSE up[k - 1] \cup {e.dir : e \in {e \in Now : e.ino \in up[k - 1]}}
    IN a \in up[Cardinality(DOMAIN icache)]

(* What the VFS guarantees of a rename: the target is not the same inode,  *)
(* a directory only replaces a directory, and never moves below itself.    *)
bilbyfs_rename(old_dir, old_name, new_dir, new_name) ==
    /\ Call("rename") /\ new_dir \in Dirs
    /\ LET victims == fsop_lookup(Content, new_dir, new_name)
       IN \E old \in Entry(old_dir, old_name) :
            /\ \A v \in victims : /\ v.ino # old.ino /\ v.ino \in DOMAIN icache
                                  /\ (v.type = DIR) <=> (old.type = DIR)
                                  /\ v.type = DIR => check_dir_empty(Content, v.ino)
            /\ old.type = DIR => ~Above(old.ino, new_dir)
            /\ bilbyfs_do_rename(old_dir, old_name, old, new_dir, new_name, victims)
    /\ UNCHANGED next_inum

(* fsop_do_setattr; attr stands for the owner, the mode and the times.     *)
fsop_do_setattr(ino) ==
    LET mem == [icache EXCEPT ![ino].attr = 1 - @]
    IN Commit(<<InodeObj(ino, mem[ino])>>, mem, icache, Now)
bilbyfs_setattr(ino) == Call("setattr") /\ fsop_do_setattr(ino) /\ UNCHANGED next_inum

(* A write to a file, which may have lost its last name while it is open,  *)
(* in the wrapper's variant without write-back; the size counts blocks.    *)
fsop_write_end(ino, block) ==
    LET mem == [icache EXCEPT ![ino].size = IF block < @ THEN @ ELSE block + 1]
    IN Commit(<<InodeObj(ino, mem[ino]), DataObj(ino, block, ino)>>, mem, icache, Now)
bilbyfs_write_end(ino, block) ==
    /\ Call("write") /\ icache[ino].type = REG
    /\ fsop_write_end(ino, block)
    /\ UNCHANGED next_inum
-----------------------------------------------------------------------------
(* validate_inode compares the size as an unsigned number.                 *)
validate_inode(inode) == inode.size >= 0

(* fsop_iget and init_inode_by_type, which resets a directory's size.  An  *)
(* inode that cannot be read makes the file system read-only.              *)
fsop_iget(c, ino) ==
    LET inode == c[inode_id_init(ino)]
    IN IF inode.type = DIR THEN [inode EXCEPT !.size = InodeSz] ELSE inode
bilbyfs_lookup(dir, name) ==
    /\ Alive /\ dir \in Dirs
    /\ \E e \in fsop_lookup(Content, dir, name) :
        /\ e.ino \notin DOMAIN icache
        /\ \/ /\ Content[inode_id_init(e.ino)] # Absent
              /\ validate_inode(Content[inode_id_init(e.ino)])
              /\ icache' = icache @@ (e.ino :> fsop_iget(Content, e.ino))
              /\ UNCHANGED <<is_ro, fails>>
           \/ /\ \/ fails > 0 /\ fails' = fails - 1
                 \/ Content[inode_id_init(e.ino)] = Absent /\ UNCHANGED fails
              /\ is_ro' = TRUE
              /\ UNCHANGED icache
    /\ UNCHANGED <<store_vars, super, next_inum, rdx, tree, orphans, ops, crashes>>

(* The VFS drops an inode that nothing refers to any more: a directory's   *)
(* cached entries keep it.  An inode without links is then deleted, with   *)
(* all its objects; a failure is only logged.                              *)
fsop_evict_inode(ino) ==
    LET mem == [i \in DOMAIN icache \ {ino} |-> icache[i]]
    IN IF is_ro \/ icache[ino].nlink > 0
       THEN icache' = mem /\ UNCHANGED <<store_vars, tree, fails, rdx>>
       ELSE Commit(<<DelObj(inode_id_init(ino))>>, mem, mem, Now)
bilbyfs_evict_inode(ino) ==
    /\ Alive /\ ino # RootIno
    /\ \A e \in Now : e.dir = ino => e.ino \notin DOMAIN icache
    /\ rdx # <<>> => rdx.dir # ino
    /\ fsop_evict_inode(ino)
    /\ orphans' = IF icache[ino].nlink = 0 /\ (is_ro \/ fails' < fails)
                  THEN orphans \cup {ino} ELSE orphans
    /\ UNCHANGED <<super, next_inum, is_ro, ops, crashes>>

(* fsop_sync_fs with wait set; the call may fail without any effect.       *)
bilbyfs_sync_fs ==
    /\ Alive /\ Len(log) > 1
    /\ SyncObjs /\ tree' = <<Now>>
    /\ UNCHANGED <<super, icache, next_inum, is_ro, rdx, orphans, ops, fails, crashes>>
-----------------------------------------------------------------------------
(* The context of a listing of dir; and what it has shown and could not,   *)
(* and what has been in dir throughout and at any time.                    *)
rdx_init(dir) ==
    LET here == {e \in Now : e.dir = dir}
    IN [dir |-> dir, id |-> inode_id_init(dir), rest |-> <<>>, end |-> FALSE,
        shown |-> <<>>, refused |-> {}, always |-> here, ever |-> here]

(* rdx_next_dentry: the rest of the dentarr in memory, then the next       *)
(* dentarr; an empty rest at the end.  A dentarr that cannot be read ends  *)
(* the listing with an error, after which it need not show any more.       *)
rdx_next_dentry(c, r) ==
    IF r.rest # <<>> THEN r
    ELSE LET next == next_dentarr_dentry(c, r.id)
         IN IF next = NIL_ID THEN [r EXCEPT !.id = next]
            ELSE IF ~dentarr_read_ok(c, next) THEN [r EXCEPT !.id = next, !.always = {}]
            ELSE [r EXCEPT !.id = next, !.rest = c[next]]

(* fsop_readdir, which makes the context when the file is first read:      *)
(* entries are given to dir_emit until the directory ends or dir_emit      *)
(* refuses one because room entries have filled the buffer.  The refused   *)
(* one is not kept for the next call.                                      *)
fsop_readdir(c, dir, room) ==
    LET Shows(r, e) == [r EXCEPT !.shown = Append(@, e)]
        Refuses(r, e) == [r EXCEPT !.refused = @ \cup {e}]
        step[k \in 0 .. room + 1] ==
            IF k = 0 THEN IF rdx = <<>> THEN rdx_init(dir) ELSE rdx
            ELSE LET n == rdx_next_dentry(c, step[k - 1])
                     d == Head(n.rest)
                     e == TreeEntry(dir, d.name, d.ino, d.type)
                     m == [n EXCEPT !.rest = Tail(@)]
                 IN IF step[k - 1].end THEN step[k - 1]
                    ELSE IF n.rest = <<>> THEN [n EXCEPT !.end = TRUE]
                    ELSE IF k <= room THEN Shows(m, e) ELSE Refuses(m, e)
    IN step[room + 1]

(* Several calls make up a listing.  After its end, or an error, they      *)
(* return nothing (pos = 2).                                               *)
bilbyfs_readdir(dir) ==
    /\ Alive /\ "readdir" \in Calls /\ dir \in DOMAIN icache
    /\ IF rdx = <<>> THEN dir \in Dirs ELSE rdx.dir = dir /\ ~rdx.end
    /\ \/ /\ \E room \in 0 .. BufEntries : rdx' = fsop_readdir(Content, dir, room)
          /\ UNCHANGED fails
       \/ /\ fails > 0 /\ fails' = fails - 1
          /\ rdx' = [(IF rdx = <<>> THEN rdx_init(dir) ELSE rdx) EXCEPT !.end = TRUE, !.always = {}]
    /\ UNCHANGED <<store_vars, super, icache, next_inum, is_ro, tree, orphans, ops, crashes>>
bilbyfs_dir_release ==
    /\ Alive /\ rdx # <<>> /\ rdx' = <<>>
    /\ UNCHANGED <<store_vars, super, icache, next_inum, is_ro, tree, orphans, ops, fails, crashes>>
-----------------------------------------------------------------------------
(* fsop_init and fsop_fill_super on a flash with a super object, and the   *)
(* wrapper's bilbyfs_iget of the root, whose failure fails the mount.      *)
fsop_fill_super ==
    /\ super /\ UNCHANGED super
    /\ \E n \in DOMAIN log :
        LET root == log[n][inode_id_init(RootIno)]
        IN /\ root # Absent /\ validate_inode(root)
           /\ MountAt(n) /\ UNCHANGED reused
           /\ tree' = <<tree[n]>>
           /\ icache' = (RootIno :> fsop_iget(log[n], RootIno))

(* The flash is empty: the super object goes to the flash at once, the     *)
(* root's inode into the write buffer.  Between the two, and until the     *)
(* next synchronisation, a power failure leaves no root.                   *)
fsop_format_default ==
    LET root == NewInode(DIR, 2)
    IN /\ ~super /\ super' = TRUE
       /\ ~mounted /\ mounted' = TRUE /\ UNCHANGED reused
       /\ log' = Append(log, Apply(Content, <<InodeObj(RootIno, root)>>))
       /\ tree' = Append(tree, Now)
       /\ icache' = (RootIno :> root)

bilbyfs_mount ==
    /\ fsop_fill_super \/ fsop_format_default
    /\ next_inum' = FirstIno /\ is_ro' = FALSE /\ rdx' = <<>>
    /\ orphans' = {i \in Inums : LET inode == Content'[inode_id_init(i)]
                                 IN inode # Absent /\ inode.nlink = 0}
    /\ UNCHANGED <<ops, fails, crashes>>

(* The super object is written and the write of the root's inode fails.    *)
FormatFails ==
    /\ ~super /\ ~mounted
    /\ fails > 0 /\ fails' = fails - 1
    /\ super' = TRUE
    /\ UNCHANGED <<store_vars, icache, next_inum, is_ro, rdx, tree, orphans, ops, crashes>>

(* The VFS has evicted every inode; fsop_unmount synchronises, which may   *)
(* fail, unless the file system is read-only.                              *)
bilbyfs_put_super ==
    /\ Alive /\ DOMAIN icache = {RootIno} /\ rdx = <<>>
    /\ \/ ~is_ro /\ log' = <<Content>> /\ tree' = <<Now>> /\ UNCHANGED fails
       \/ ~is_ro /\ fails > 0 /\ fails' = fails - 1 /\ UNCHANGED <<log, tree>>
       \/ is_ro /\ UNCHANGED <<log, tree, fails>>
    /\ mounted' = FALSE /\ icache' = <<>> /\ is_ro' = TRUE
    /\ UNCHANGED <<reused, super, next_inum, rdx, orphans, ops, crashes>>

PowerFailure ==
    /\ mounted /\ Down
    /\ crashes > 0 /\ crashes' = crashes - 1
    /\ icache' = <<>> /\ is_ro' = TRUE /\ rdx' = <<>>
    /\ UNCHANGED <<super, next_inum, tree, orphans, ops, fails>>

Init ==
    /\ StoreInit
    /\ super = FALSE /\ icache = <<>> /\ next_inum = FirstIno /\ is_ro = TRUE
    /\ rdx = <<>> /\ tree = <<{}>> /\ orphans = {}
    /\ ops = MaxOps /\ fails = MaxFails /\ crashes = MaxCrashes

Next ==
    \/ bilbyfs_mount \/ FormatFails \/ bilbyfs_put_super \/ PowerFailure
    \/ bilbyfs_sync_fs \/ bilbyfs_dir_release
    \/ \E dir \in DOMAIN icache :
        \/ bilbyfs_readdir(dir)
        \/ bilbyfs_evict_inode(dir)
        \/ bilbyfs_setattr(dir)
        \/ \E block \in 0 .. NbXinfo - 1 : bilbyfs_write_end(dir, block)
        \/ \E name \in Names :
            \/ bilbyfs_create(dir, name)
            \/ bilbyfs_mkdir(dir, name)
            \/ bilbyfs_symlink(dir, name)
            \/ bilbyfs_unlink(dir, name)
            \/ bilbyfs_rmdir(dir, name)
            \/ bilbyfs_lookup(dir, name)
            \/ \E ino \in DOMAIN icache : bilbyfs_link(ino, dir, name)
            \/ \E new_dir \in DOMAIN icache, new_name \in Names :
                    bilbyfs_rename(dir, name, new_dir, new_name)

Spec == Init /\ [][Next]_vars
-----------------------------------------------------------------------------
(* The variables have the types of the structures they stand for; link     *)
(* counts never fall below zero (drop_nlink).                              *)
TypeOK ==
    /\ Len(tree) = Len(log)
    /\ DOMAIN icache \subseteq Inums
    /\ \A i \in DOMAIN icache : icache[i].type \in {REG, DIR, LNK} /\ icache[i].nlink \in Nat
    /\ next_inum \in FirstIno .. LastInum
    /\ super \in BOOLEAN /\ is_ro \in BOOLEAN

(* After every call, and after every mount that finds what a power failure *)
(* left, exactly the entries that the calls which returned 0 left are      *)
(* found by looking up their names: fsop.c's transactions carry the tree   *)
(* from one state to the next as a whole, through colliding names,         *)
(* replaced targets, and calls that failed half-way.                       *)
TreeMatches ==
    Now = UNION {{TreeEntry(i, name, e.ino, e.type) : e \in fsop_lookup(Content, i, name)} :
                    i \in Inums, name \in Names}

(* The link count that each inode has in the store is the number of        *)
(* entries that name it (of a directory: two, and one for each directory   *)
(* in it), an entry's type is that of its inode, and an inode without an   *)
(* entry has the link count 0 by which fsop_evict_inode knows that it is   *)
(* to be deleted.  Every state of the store that a power failure can       *)
(* leave was the current one before.                                       *)
LinkCounts ==
    \A i \in Inums :
        LET inode == Content[inode_id_init(i)]
            names == {e \in Now : e.ino = i}
        IN IF inode = Absent THEN names = {}
           ELSE /\ \A e \in names : e.type = inode.type
                /\ inode.nlink =
                    IF inode.type # DIR THEN Cardinality(names)
                    ELSE IF names = {} /\ i # RootIno THEN 0
                    ELSE 2 + Cardinality({e \in Now : e.dir = i /\ e.type = DIR})

(* The cached inodes are those of the store, also after calls that failed  *)
(* and undid their changes: nothing is written later that no call did.     *)
(* (A directory's size is set anew whenever its inode is read.)            *)
MemoryMatchesStore ==
    mounted => \A i \in DOMAIN icache :
        LET inode == Content[inode_id_init(i)]
        IN /\ inode # Absent
           /\ IF icache[i].type = DIR
              THEN [inode EXCEPT !.size = 0] = [icache[i] EXCEPT !.size = 0]
              ELSE inode = icache[i]

(* A deleted file leaves nothing behind: no object outlives its inode,     *)
(* whichever blocks it had, also blocks that were written after its last   *)
(* name was gone, and an inode without names is in memory, where the VFS   *)
(* will evict and so delete it.  Only a power failure between the two      *)
(* calls, or a deletion that is refused, leaves one behind for good: no    *)
(* mount looks for inodes without links.                                   *)
NothingLeaks ==
    /\ \A id \in Ids : Content[id] # Absent => Content[inode_id_init(inum_from_id(id))] # Absent
    /\ mounted => \A i \in Inums \ orphans :
            LET inode == Content[inode_id_init(i)]
            IN inode # Absent /\ inode.nlink = 0 => i \in DOMAIN icache

(* A listing shows only entries that were there at some time since it      *)
(* began, none of them twice, and when it ends it has shown every entry    *)
(* that was there throughout, although others came and went between the    *)
(* calls that make it up; but for those that did not fit into the buffer   *)
(* of a call, which are lost.                                              *)
ListingComplete ==
    rdx # <<>> =>
        LET shown == {rdx.shown[k] : k \in DOMAIN rdx.shown}
        IN /\ shown \subseteq rdx.ever
           /\ \A j, k \in DOMAIN rdx.shown : rdx.shown[j].name = rdx.shown[k].name => j = k
           /\ rdx.end => rdx.always \subseteq shown \cup rdx.refused
=============================================================================
