--------------------------- MODULE VfsFileProofs ----------------------------
(***************************************************************************)
(* Proofs that a read finds what was written and that an fsync that        *)
(* returned 0 has stored it, for every number of threads, blocks and       *)
(* calls.                                                                  *)
(*                                                                         *)
(* Neither property is inductive.  Whether a read finds the right byte     *)
(* depends on what the page holds, on what the store holds once the page   *)
(* is dropped, and on what both hold behind the end of the file, where a   *)
(* later write or truncation uncovers it: PageInv.  Whether an fsync has   *)
(* stored the file depends on which pages it has seen, on who else is      *)
(* writing pages, and on the size, which is stored with a page: FsyncInv.  *)
(* Each says less once write-back has overtaken a truncation, when bytes   *)
(* that were cut may be back: then only what was written must be there.    *)
(***************************************************************************)
EXTENDS VfsProofs

(* A truncation has yet to deal with the page of block b, whose store has  *)
(* been cut; the page of block b is being written; byte j of block b is in *)
(* the file.                                                               *)
Shrinking(t) == pc[t] \in {"setattr", "i_size_write", "setsize"}
Cutting(b) == \E t \in All : Shrinking(t) /\ (pc[t] = "setsize" => b \in loc[t].todo)
Writing(b) == \E t \in All : pc[t] = "write_page" /\ loc[t].blk = b
InFile(b, j) == Off(b) + j <= i_size

(* A call wrote byte k of the file, and none has cut it.                   *)
Has(k) == k \in 1 .. Len(bytes) /\ bytes[k] = 1

(* What is known of block b: its page has what was written, and nothing    *)
(* that was cut, once a truncation has dealt with it; so has the store, if *)
(* the page is clean and not being written; a dirty page is up to date.    *)
PageRight(b, j) ==
    page[b].up =>
        /\ Has(Off(b) + j) => page[b].data[j] = 1
        /\ lost = {} /\ (InFile(b, j) \/ ~Cutting(b)) /\ page[b].data[j] = 1 => Has(Off(b) + j)
StoreRight(b, j) ==
    ~page[b].dirty /\ ~Writing(b) =>
        /\ Has(Off(b) + j) => read_block(Content, b)[j] = 1
        /\ lost = {} /\ read_block(Content, b)[j] = 1 => Has(Off(b) + j)
BlockInv(b) ==
    /\ page[b].dirty => page[b].up
    /\ \A j \in 1 .. BlockSize : PageRight(b, j) /\ StoreRight(b, j)
(* A page that is being written is clear behind what is written of it.     *)
WritingInv ==
    \A t \in All : pc[t] = "write_page" =>
        \A j \in 1 .. BlockSize : j > loc[t].len => page[loc[t].blk].data[j] = 0
(* The size in memory, and the one a truncation is about to set, is the    *)
(* file's, or write-back has raised it.                                    *)
Long(n) == Len(bytes) <= n /\ (lost = {} => n = Len(bytes))
LengthInv ==
    /\ Long(i_size)
    /\ \A t \in All : pc[t] \in {"i_size_write", "setsize"} => Long(loc[t].size)
(* The file is what the calls made of it; as long as no call has failed.   *)
Current == LengthInv /\ (\A b \in Blocks : BlockInv(b)) /\ WritingInv
PageInv == Unharmed => Current

(* A dirty page is in the file, or about to be cut; while pages are cut    *)
(* the stored size is large enough; and when it is not, a page is dirty or *)
(* being written, which will store one that is.                            *)
DirtyInv ==
    /\ \A b \in Blocks : page[b].dirty => Cutting(b) \/ Off(b) < i_size
    /\ \A t \in All : pc[t] = "setsize" => loc[t].size <= i_size
    /\ (\E t \in All : Shrinking(t)) => Len(bytes) <= Content[InodeId]
    /\ Len(bytes) <= Content[InodeId] \/ \E b \in Blocks : page[b].dirty \/ Writing(b)
(* If the file has not changed since thread t's fsync began, when it had   *)
(* changed m times, the blocks that are not in todo are clean and nobody   *)
(* else is writing them.                                                   *)
Synced(t, todo, m) ==
    /\ m <= mods
    /\ m = mods => \A b \in Blocks \ todo :
        /\ ~page[b].dirty
        /\ \A u \in All \ {t} : ~(pc[u] = "write_page" /\ loc[u].blk = b)
SyncedInv ==
    \A t \in Threads :
        /\ pc[t] = "fsync" => Synced(t, loc[t].todo, loc[t].mods)
        /\ pc[t] = "write_page" /\ loc[t].next = "fsync" =>
                Synced(t, loc[t].rest.todo, loc[t].rest.mods)
FsyncInv == Unharmed => DirtyInv /\ SyncedInv

(* What the steps of an undamaged file start from; and that they do not    *)
(* undo a loss.                                                            *)
Sound == TypeInv /\ SizeInv /\ Current
Growing == lost' = {} => lost = {}

(* The types of a block, its page and its bytes, and that blocks do not    *)
(* overlap.                                                                *)
LEMMA BlockTypes ==
    ASSUME TypeInv, NEW b \in Blocks
    PROVE  /\ b \in Nat /\ Off(b) \in Nat /\ i_size \in Nat /\ BlockSize \in Nat
           /\ page[b] \in Pages /\ page[b].data \in Data
           /\ \A j \in 1 .. BlockSize : j \in Nat /\ j > 0 /\ Off(b) + j \in Nat \ {0}
           /\ \A c \in Blocks : c # b => Off(c) + BlockSize <= Off(b) \/ Off(b) + BlockSize <= Off(c)
<1>1. b \in Nat /\ Off(b) \in Nat /\ i_size \in Nat /\ BlockSize \in Nat
    BY OffFacts, FileAssumption DEF TypeInv, MemInv, Sizes, Blocks
<1>2. page[b] \in Pages  BY DEF TypeInv, MemInv
<1>3. ASSUME NEW c \in Blocks, c # b
      PROVE  Off(c) + BlockSize <= Off(b) \/ Off(b) + BlockSize <= Off(c)
  <2>1. c \in Nat  BY DEF Blocks
  <2>2. c < b \/ b < c  BY <1>1, <1>3, <2>1
  <2> QED BY <1>1, <2>1, <2>2, OffFacts
<1>4. \A j \in 1 .. BlockSize : j \in Nat /\ j > 0 /\ Off(b) + j \in Nat \ {0}  BY <1>1
<1> QED BY <1>1, <1>2, <1>3, <1>4 DEF Pages

(* A write within one page: its block, and its offset in the block.        *)
LEMMA WritePos ==
    ASSUME NEW l \in WriteLocs
    PROVE  LET b == l.pos \div BlockSize
               r == l.pos % BlockSize
           IN /\ b \in Blocks /\ r \in 0 .. BlockSize - 1 /\ l.pos = Off(b) + r
              /\ l.pos \in Nat /\ l.len \in 1 .. BlockSize /\ r + l.len <= BlockSize
              /\ l.pos + l.len \in Sizes
<1>1. /\ l.pos \in Sizes /\ l.len \in 1 .. BlockSize /\ (l.pos % BlockSize) + l.len <= BlockSize
      /\ l.pos + l.len \in Sizes
    BY DEF WriteLocs
<1>2. PICK p \in Nat : p = l.pos  BY <1>1, FileAssumption DEF Sizes
<1>3. PICK b \in Nat, r \in 0 .. BlockSize - 1 :
        b = p \div BlockSize /\ r = p % BlockSize /\ p = Off(b) + r
    BY DivMod
<1>4. Off(b) < NbBlocks * BlockSize /\ Off(b) \in Nat
  <2>1. Off(b) \in Nat  BY FileAssumption DEF Off
  <2>2. PICK n \in Nat : n = l.len /\ n > 0  BY <1>1, FileAssumption
  <2>3. PICK m \in Nat : m = NbBlocks * BlockSize  BY FileAssumption
  <2>4. p + n <= m  BY <1>1, <1>2, <2>2, <2>3 DEF Sizes
  <2> QED BY <1>3, <2>1, <2>2, <2>3, <2>4
<1>5. b \in Blocks  BY <1>4, FileAssumption DEF Off, Blocks
<1> QED BY <1>1, <1>2, <1>3, <1>5

(* Behind the size that is stored a content that is tight has zeros only.  *)
LEMMA StoredTail ==
    ASSUME NEW c, Good(c), Tight(c), NEW b \in Blocks, NEW j \in 1 .. BlockSize,
           ~(Off(b) + j <= c[InodeId])
    PROVE  read_block(c, b)[j] = 0
<1> DEFINE d == c[data_id_init(b)]
<1>1. ASSUME d # Absent, j <= Len(d) PROVE FALSE
  <2>1. Len(d) \in Nat /\ c[InodeId] \in Nat /\ j \in Nat /\ Off(b) \in Nat
    BY <1>1, DataLen, OffFacts, FileAssumption DEF Good, Sizes
  <2>2. Off(b) + Len(d) <= c[InodeId]  BY <1>1 DEF Tight
  <2> QED BY <1>1, <2>1, <2>2
<1> QED BY <1>1, ReadBlock

(* Behind the end of the file the store has zeros only.                    *)
LEMMA ReadTail ==
    ASSUME TypeInv, SizeInv, lost = {},
           NEW b \in Blocks, NEW j \in 1 .. BlockSize, ~InFile(b, j)
    PROVE  read_block(Content, b)[j] = 0
<1>1. Good(Content)  BY CurrentGood DEF TypeInv
<1>2. Tight(Content) /\ Content[InodeId] <= i_size
  <2>1. Len(log) \in DOMAIN log  BY DEF TypeInv, StoreInv
  <2>2. Fitting  BY DEF Fitting
  <2> QED BY <2>1, <2>2 DEF SizeInv, Content
<1>3. ~(Off(b) + j <= Content[InodeId])
  <2>1. Content[InodeId] \in Nat  BY <1>1, FileAssumption DEF Good, Sizes
  <2> QED BY <1>2, <2>1, BlockTypes DEF InFile
<1> QED BY <1>1, <1>2, <1>3, StoredTail

(* The file has no bytes behind its size in memory.                        *)
LEMMA HasInFile ==
    ASSUME TypeInv, Len(bytes) <= i_size, NEW b \in Blocks, NEW j \in 1 .. BlockSize, Has(Off(b) + j)
    PROVE  InFile(b, j)
<1>1. Len(bytes) \in Nat  BY DEF TypeInv, MemInv
<1> QED BY <1>1, BlockTypes DEF Has, InFile

(* What fsop_readpage finds in a page that no thread has made dirty or is  *)
(* writing: what the store has, or bytes that nobody wrote behind the end. *)
LEMMA ReadPage ==
    ASSUME Sound, NEW b \in Blocks, ~page[b].dirty, ~Writing(b),
           NEW d \in fsop_readpage(Content, i_size, b), NEW j \in 1 .. BlockSize
    PROVE  /\ Has(Off(b) + j) => d[j] = 1
           /\ lost = {} /\ d[j] = 1 => Has(Off(b) + j)
<1> USE DEF Sound
<1>2. StoreRight(b, j)  BY DEF Current, BlockInv
<1>3. CASE d = read_block(Content, b)  BY <1>2, <1>3 DEF StoreRight
<1>4. CASE i_size <= Off(b) /\ d[j] # 1
  <2>1. ~InFile(b, j)  BY <1>4, BlockTypes DEF InFile
  <2> QED BY <1>4, <2>1, HasInFile DEF Current, LengthInv, Long
<1>5. PICK q \in Nat, r \in 0 .. BlockSize - 1 :
        q = i_size \div BlockSize /\ r = i_size % BlockSize /\ i_size = Off(q) + r
    BY BlockTypes, DivMod
<1>6. Off(q) \in Nat  BY FileAssumption DEF Off
<1>7. CASE b > q
  <2>1. Off(q) + BlockSize <= Off(b)  BY <1>7, BlockTypes, OffFacts
  <2>2. i_size <= Off(b)  BY <2>1, <1>5, <1>6, BlockTypes
  <2>3. d = Zeros(BlockSize)  BY <1>5, <1>7 DEF fsop_readpage
  <2> QED BY <1>4, <2>2, <2>3 DEF Zeros
<1>8. CASE b = q /\ r = 0
  <2>0. i_size = Off(b) + 0  BY <1>5, <1>8
  <2>1. i_size <= Off(b)  BY <2>0, BlockTypes
  <2>2. ~(b > q)  BY <1>8, BlockTypes
  <2>3. d \in [1 .. BlockSize -> FreshBytes]  BY <1>5, <1>8, <2>2 DEF fsop_readpage
  <2>4. d[j] # 1  BY <2>3, FileAssumption
  <2> QED BY <1>4, <2>1, <2>4
<1>9. CASE ~(b > q) /\ ~(b = q /\ r = 0)
  <2>1. d = read_block(Content, b)  BY <1>5, <1>9 DEF fsop_readpage
  <2> QED BY <1>3, <2>1
<1> QED BY <1>7, <1>8, <1>9

(* A step that leaves alone a block's page, its stored data, the size and  *)
(* the bytes of the block keeps what is known of the block.                *)
LEMMA BlockFrame ==
    ASSUME NEW b \in Blocks, BlockInv(b), Growing,
           \A j \in 1 .. BlockSize : Has(Off(b) + j)' <=> Has(Off(b) + j),
           lost' = {} => \A j \in 1 .. BlockSize :
                (InFile(b, j)' \/ ~Cutting(b)') => (InFile(b, j) \/ ~Cutting(b)),
           page'[b].up = page[b].up, page'[b].data = page[b].data, page'[b].dirty = page[b].dirty,
           read_block(Content, b)' = read_block(Content, b),
           Writing(b) => Writing(b)'
    PROVE  BlockInv(b)'
BY DEF BlockInv, PageRight, StoreRight, Growing

(* While a writer or truncater holds the inode's lock, no other thread is  *)
(* shrinking the file.                                                     *)
LEMMA Busy ==
    ASSUME TypeInv, NEW t \in All, i_lock = t, ~Shrinking(t)
    PROVE  (\A u \in All : ~Shrinking(u)) /\ \A b : ~Cutting(b)
BY DEF TypeInv, CallsInv, CallInv, Cutting, Shrinking

(* A page that no writer of pages has locked is not being written.         *)
LEMMA NotWriting ==
    ASSUME TypeInv, NEW b \in Blocks,
           page[b].lock = None \/ \E t \in All : page[b].lock = t /\ pc[t] # "write_page"
    PROVE  ~Writing(b)
BY ThreadAssumption DEF TypeInv, CallsInv, CallInv, Writing

(* The step of one thread leaves what the other threads do to a block.     *)
LEMMA OthersBusy ==
    ASSUME NEW t \in All, \A u \in All \ {t} : pc'[u] = pc[u] /\ loc'[u] = loc[u], NEW b
    PROVE  /\ ~Shrinking(t) => (Cutting(b) => Cutting(b)')
           /\ pc[t] # "write_page" => (Writing(b) => Writing(b)')
BY DEF Cutting, Writing, Shrinking

(* A step that leaves alone the pages being written keeps WritingInv.      *)
LEMMA WritingFrame ==
    ASSUME WritingInv,
           \A u \in All : pc'[u] = "write_page" =>
                pc[u] = "write_page" /\ loc'[u] = loc[u] /\ page'[loc[u].blk].data = page[loc[u].blk].data
    PROVE  WritingInv'
<1> SUFFICES ASSUME NEW u \in All, pc'[u] = "write_page"
             PROVE  \A j \in 1 .. BlockSize : j > loc'[u].len => page'[loc'[u].blk].data[j] = 0
    BY DEF WritingInv
<1> QED BY DEF WritingInv

(* A step that leaves alone the sizes keeps LengthInv.                     *)
LEMMA LengthFrame ==
    ASSUME LengthInv, Growing, UNCHANGED <<i_size, bytes>>,
           \A u \in All : pc'[u] \in {"i_size_write", "setsize"} =>
                pc[u] \in {"i_size_write", "setsize"} /\ loc'[u].size = loc[u].size
    PROVE  LengthInv'
<1>1. ASSUME NEW n, Long(n) PROVE Long(n)'  BY <1>1 DEF Long, Growing
<1>2. Long(i_size)'  BY DEF LengthInv, Long, Growing
<1>3. ASSUME NEW u \in All, pc'[u] \in {"i_size_write", "setsize"} PROVE Long(loc[u].size)'
  <2>1. Long(loc[u].size)  BY <1>3 DEF LengthInv
  <2> QED BY <1>3, <2>1 DEF Long, Growing
<1> QED BY <1>2, <1>3 DEF LengthInv

(* Steps that change neither the data of pages nor size, bytes or stored   *)
(* data, nor begin or end a write of a page or the cutting of pages.       *)
LEMMA QuietStep ==
    ASSUME Sound, Growing, NEW t \in All,
           \A u \in All \ {t} : pc'[u] = pc[u] /\ loc'[u] = loc[u],
           pc[t] # "write_page", ~Shrinking(t), pc'[t] # "write_page", ~Shrinking(t)',
           UNCHANGED <<i_size, bytes>>,
           \A b \in Blocks : /\ page'[b].up = page[b].up /\ page'[b].data = page[b].data
                             /\ page'[b].dirty = page[b].dirty,
           \A b \in Blocks : read_block(Content, b)' = read_block(Content, b)
    PROVE  Current'
<1> USE DEF Sound
<1>1. ASSUME NEW b \in Blocks PROVE BlockInv(b)'
  <2>1. (Cutting(b) => Cutting(b)') /\ (Writing(b) => Writing(b)')  BY OthersBusy
  <2>2. \A j : (Has(Off(b) + j)' <=> Has(Off(b) + j)) /\ (InFile(b, j)' <=> InFile(b, j))
    BY DEF Has, InFile
  <2> QED BY <2>1, <2>2, BlockFrame DEF Current
<1>2. WritingInv'
  <2>1. \A u \in All : pc[u] = "write_page" => loc[u].blk \in Blocks
    BY DEF TypeInv, CallsInv, CallInv, PageLocs
  <2> QED BY <2>1, WritingFrame DEF Current
<1>3. LengthInv'  BY LengthFrame DEF Current, Shrinking
<1> QED BY <1>1, <1>2, <1>3 DEF Current

(* Steps that fill a page from the store.                                  *)
LEMMA FillStep ==
    ASSUME Sound, Growing, NEW t \in All,
           \A u \in All \ {t} : pc'[u] = pc[u] /\ loc'[u] = loc[u],
           pc[t] # "write_page", ~Shrinking(t), pc'[t] # "write_page", ~Shrinking(t)',
           UNCHANGED <<log, i_size, bytes>>,
           NEW b \in Blocks, ~page[b].up, page[b].lock = None,
           \A e \in Blocks \ {b} : page'[e] = page[e],
           page'[b].up, ~page'[b].dirty, page'[b].data \in fsop_readpage(Content, i_size, b)
    PROVE  Current'
<1> USE DEF Sound
<1>0. Content' = Content  BY DEF Content
<1>1. \A e \in Blocks : (Cutting(e) => Cutting(e)') /\ (Writing(e) => Writing(e)')
    BY OthersBusy
<1>h. \A k : Has(k)' <=> Has(k)  BY DEF Has
<1>i. \A e, j : InFile(e, j)' <=> InFile(e, j)  BY DEF InFile
<1>2. \A e \in Blocks \ {b} : BlockInv(e)'
    BY <1>0, <1>1, <1>h, <1>i, BlockFrame DEF Current
<1>3. BlockInv(b)'
  <2>1. ~page[b].dirty /\ ~Writing(b)  BY NotWriting DEF Current, BlockInv
  <2>2. ASSUME NEW j \in 1 .. BlockSize PROVE PageRight(b, j)'
    BY <1>h, <2>1, ReadPage DEF PageRight, Growing
  <2>3. ASSUME NEW j \in 1 .. BlockSize PROVE StoreRight(b, j)'
    BY <1>0, <1>h, <2>1 DEF Current, BlockInv, StoreRight, Growing
  <2> QED BY <2>2, <2>3 DEF BlockInv
<1>4. WritingInv'
  <2>2. \A u \in All : pc[u] = "write_page" => loc[u].blk \in Blocks \ {b}
    BY ThreadAssumption DEF TypeInv, CallsInv, CallInv, PageLocs
  <2>3. \A u \in All : pc'[u] = "write_page" => u # t /\ pc[u] = "write_page"
    OBVIOUS
  <2> QED BY <2>2, <2>3, WritingFrame DEF Current
<1>5. LengthInv'  BY LengthFrame DEF Current, Shrinking
<1> QED BY <1>2, <1>3, <1>4, <1>5 DEF Current

(* bilbyfs_write_begin keeps what is known of the file.                    *)
LEMMA WriteBeginStep ==
    ASSUME Sound, NEW t \in All, bilbyfs_write_begin(t)
    PROVE  Current'
<1> USE DEF Sound
<1> DEFINE b == loc[t].pos \div BlockSize
<1>1. b \in Blocks /\ page[b].lock = None /\ pc[t] = "write_begin" /\ page \in [Blocks -> Pages]
  <2>1. loc[t] \in WriteLocs  BY DEF bilbyfs_write_begin, TypeInv, CallsInv, CallInv
  <2> QED BY <2>1, WritePos DEF bilbyfs_write_begin, TypeInv, MemInv
<1> HIDE DEF b
<1>2. /\ \A u \in All \ {t} : pc'[u] = pc[u] /\ loc'[u] = loc[u]
      /\ pc'[t] \in {"write_end", "idle"} /\ UNCHANGED <<log, i_size, bytes, lost>>
    BY DEF bilbyfs_write_begin, Goto, TypeInv, MemInv, file_vars, store_vars
<1>0. Content' = Content  BY <1>2 DEF Content
<1>g. Growing /\ ~Shrinking(t) /\ ~Shrinking(t)'  BY <1>1, <1>2 DEF Growing, Shrinking
<1>r. \A e \in Blocks : read_block(Content, e)' = read_block(Content, e)  BY <1>0 DEF read_block
<1>3. CASE UNCHANGED page
    BY <1>g, <1>r, <1>1, <1>2, <1>3, QuietStep
<1>4. CASE page' = [page EXCEPT ![b].lock = t]
  <2>1. \A e \in Blocks : /\ page'[e].up = page[e].up /\ page'[e].data = page[e].data
                          /\ page'[e].dirty = page[e].dirty
    BY <1>1, <1>4 DEF Pages
  <2> QED BY <1>g, <1>r, <1>1, <1>2, <2>1, QuietStep
<1>5. ASSUME NEW d \in fsop_readpage(Content, i_size, b), ~page[b].up,
             page' = [page EXCEPT ![b] = [NoPage EXCEPT !.up = TRUE, !.lock = t, !.data = d]]
      PROVE  Current'
  <2>1. page'[b].up /\ ~page'[b].dirty /\ page'[b].data = d /\ \A e \in Blocks \ {b} : page'[e] = page[e]
    BY <1>1, <1>5 DEF NoPage
  <2> QED BY <1>g, <1>1, <1>2, <1>5, <2>1, FillStep
<1> QED BY <1>3, <1>4, <1>5 DEF bilbyfs_write_begin, b

(* So do reading a page and dropping a clean one.                          *)
LEMMA PageCacheStep ==
    ASSUME Sound, NEW b \in Blocks, bilbyfs_readpage(b) \/ ReclaimPage(b)
    PROVE  Current'
<1> USE DEF Sound
<1>1. page[b].lock = None /\ UNCHANGED <<log, i_size, bytes, pc, loc, lost>> /\ page \in [Blocks -> Pages]
    BY DEF bilbyfs_readpage, ReclaimPage, store_vars, file_vars, TypeInv, MemInv
<1>0. Content' = Content /\ Growing  BY <1>1 DEF Content, Growing
<1>2. \A e \in Blocks : (Cutting(e)' <=> Cutting(e)) /\ (Writing(e)' <=> Writing(e))
    BY <1>1 DEF Cutting, Writing, Shrinking
<1>h. (\A k : Has(k)' <=> Has(k)) /\ (\A e, j : InFile(e, j)' <=> InFile(e, j))
    BY <1>1 DEF Has, InFile
<1>w. \A e \in Blocks \ {b} : page'[e] = page[e]
    BY <1>1 DEF bilbyfs_readpage, ReclaimPage
<1>3. \A e \in Blocks \ {b} : BlockInv(e)'
    BY <1>0, <1>1, <1>2, <1>h, <1>w, BlockFrame DEF Current
<1>4. WritingInv'
  <2>2. \A u \in All : pc[u] = "write_page" => loc[u].blk \in Blocks \ {b}
    BY <1>1, ThreadAssumption DEF TypeInv, CallsInv, CallInv, PageLocs
  <2> QED BY <1>1, <1>w, <2>2, WritingFrame DEF Current
<1>5. BlockInv(b)'
  <2>1. ~page[b].dirty /\ ~page'[b].dirty /\ ~Writing(b)
    <3>1. CASE bilbyfs_readpage(b)
      BY <1>1, <3>1, NotWriting DEF bilbyfs_readpage, NoPage, Current, BlockInv
    <3>2. CASE ReclaimPage(b)
      BY <1>1, <3>2, NotWriting DEF ReclaimPage, NoPage
    <3> QED BY <3>1, <3>2
  <2>2. ASSUME NEW j \in 1 .. BlockSize PROVE PageRight(b, j)'
    <3>1. CASE bilbyfs_readpage(b)
      <4>1. page'[b].data \in fsop_readpage(Content, i_size, b)
        BY <1>1, <3>1 DEF bilbyfs_readpage, NoPage
      <4> QED BY <1>1, <1>h, <2>1, <4>1, ReadPage DEF PageRight
    <3>2. CASE ReclaimPage(b)
      BY <1>1, <3>2 DEF ReclaimPage, NoPage, PageRight
    <3> QED BY <3>1, <3>2
  <2>3. ASSUME NEW j \in 1 .. BlockSize PROVE StoreRight(b, j)'
    BY <1>0, <1>1, <1>h, <2>1 DEF Current, BlockInv, StoreRight
  <2> QED BY <2>1, <2>2, <2>3 DEF BlockInv
<1>6. LengthInv'  BY <1>0, <1>1, LengthFrame DEF Current
<1> QED BY <1>3, <1>4, <1>5, <1>6 DEF Current

(* bilbyfs_write_end_writeback: the bytes of the page it writes become     *)
(* those of the file; a gap between the old end and the start of the write *)
(* has nothing that was written, because the pages and the store have not. *)
LEMMA WriteEndStep ==
    ASSUME Sound, NEW t \in All, bilbyfs_write_end_writeback(t)
    PROVE  Current'
<1> USE DEF Sound
<1>0. pc[t] = "write_end" /\ loc[t] \in WriteLocs
    BY DEF bilbyfs_write_end_writeback, TypeInv, CallsInv, CallInv
<1>2. PICK b \in Blocks, r \in 0 .. BlockSize - 1, pos \in Nat, len \in 1 .. BlockSize, end \in Nat :
            /\ pos = loc[t].pos /\ len = loc[t].len /\ end = pos + len
            /\ b = pos \div BlockSize /\ r = pos % BlockSize
            /\ pos = Off(b) + r /\ r + len <= BlockSize
    BY <1>0, WritePos
<1>1. pc[t] = "write_end" /\ i_lock = t /\ page[b].lock = t /\ page[b].up
    BY <1>0, <1>2 DEF TypeInv, CallsInv, CallInv
<1> DEFINE f == page[b].data
           g == Overwritten(f, r, len)
<1>3. /\ page' = [page EXCEPT ![b].data = g, ![b].dirty = TRUE, ![b].lock = None]
      /\ i_size' = (IF end > i_size THEN end ELSE i_size)
      /\ bytes' = Overwritten(bytes, pos, len)
      /\ pc' = [pc EXCEPT ![t] = "idle"] /\ UNCHANGED <<log, loc, lost>>
    BY <1>2 DEF bilbyfs_write_end_writeback, Goto, store_vars
<1>g. Growing  BY <1>3 DEF Growing
<1>4. (\A u \in All : ~Shrinking(u)) /\ \A e : ~Cutting(e)  BY <1>1, Busy DEF Shrinking
<1>5. f \in Seq(Bytes) /\ Len(f) = BlockSize /\ bytes \in Seq(Bytes) /\ Len(bytes) \in Nat /\ i_size \in Nat
  <2>1. f \in Data /\ i_size \in Nat  BY BlockTypes
  <2> HIDE DEF f
  <2>2. f \in Seq(Bytes) /\ Len(f) = BlockSize  BY <2>1, FileAssumption DEF Data
  <2>3. bytes \in Seq(Bytes) /\ Len(bytes) \in Nat  BY DEF TypeInv, MemInv
  <2> QED BY <2>1, <2>2, <2>3
<1>6. /\ page'[b].up /\ page'[b].dirty /\ page'[b].data = g
      /\ \A e \in Blocks \ {b} : page'[e] = page[e]
  <2> HIDE DEF g
  <2>1. page \in [Blocks -> Pages]  BY DEF TypeInv, MemInv
  <2> QED BY <1>1, <1>3, <2>1 DEF Pages
<1>7. /\ \A u \in All : ~Shrinking(u)'
      /\ \A e \in Blocks : ~Cutting(e)' /\ (Writing(e)' <=> Writing(e))
  <2>1. \A u \in All : pc'[u] = "idle" \/ pc'[u] = pc[u]  BY <1>3 DEF TypeInv, MemInv
  <2>2. \A u \in All : ~Shrinking(u)'  BY <1>4, <2>1 DEF Shrinking
  <2> QED BY <1>1, <1>3, <2>2 DEF Cutting, Writing, TypeInv, MemInv
<1> HIDE DEF f, g
<1>8. r \in Nat /\ len \in Nat /\ ~(r + len > BlockSize) /\ end \in Nat /\ BlockSize \in Nat
      /\ Off(b) \in Nat /\ end = Off(b) + (r + len)
  <2>1. pos = Off(b) + r /\ r + len <= BlockSize /\ end = pos + len  BY <1>2
  <2>2. Off(b) \in Nat /\ BlockSize \in Nat  BY BlockTypes
  <2> QED BY <2>1, <2>2
<1>9. \A j \in 1 .. BlockSize : g[j] = IF j > r /\ j <= r + len THEN 1 ELSE f[j]
  <2>1. g = Overwritten(f, r, len)  BY DEF g
  <2>2. f \in Seq(Bytes) /\ r \in Nat /\ len \in Nat  BY <1>5, <1>8
  <2>3. LET n == IF r + len > Len(f) THEN r + len ELSE Len(f)
        IN \A k \in 1 .. n :
            Overwritten(f, r, len)[k] = IF k > r /\ k <= r + len THEN 1
                                        ELSE IF k <= Len(f) THEN f[k] ELSE 0
    BY <2>2, Overwrite
  <2>4. Len(f) = BlockSize /\ ~(r + len > BlockSize) /\ BlockSize \in Nat  BY <1>5, <1>8
  <2> QED BY <2>1, <2>3, <2>4
<1>10. PICK n \in Nat :
            /\ n = IF pos + len > Len(bytes) THEN pos + len ELSE Len(bytes)
            /\ Len(bytes') = n
            /\ \A k \in 1 .. n :
                bytes'[k] = IF k > pos /\ k <= end THEN 1 ELSE IF k <= Len(bytes) THEN bytes[k] ELSE 0
  <2>1. bytes' = Overwritten(bytes, pos, len) /\ end = pos + len  BY <1>2, <1>3
  <2>2. PICK m \in Nat : m = IF pos + len > Len(bytes) THEN pos + len ELSE Len(bytes)
    BY <1>5, <1>8
  <2>3. /\ Len(Overwritten(bytes, pos, len)) = m
        /\ \A k \in 1 .. m :
            Overwritten(bytes, pos, len)[k] =
                IF k > pos /\ k <= pos + len THEN 1 ELSE IF k <= Len(bytes) THEN bytes[k] ELSE 0
    BY <1>5, <1>8, <2>2, Overwrite
  <2> QED BY <2>1, <2>2, <2>3
<1>11. ASSUME NEW k \in Nat \ {0} PROVE Has(k)' <=> (k > pos /\ k <= end) \/ Has(k)
  <2>1. Has(k)' <=> k <= n /\ bytes'[k] = 1  BY <1>10 DEF Has
  <2>2. Has(k) <=> k <= Len(bytes) /\ bytes[k] = 1  BY <1>5 DEF Has
  <2>3. end = pos + len  BY <1>2
  <2> QED BY <1>5, <1>8, <1>10, <2>1, <2>2, <2>3
<1>12. ASSUME NEW e \in Blocks, NEW j \in 1 .. BlockSize
       PROVE  Has(Off(e) + j)' <=> (e = b /\ j > r /\ j <= r + len) \/ Has(Off(e) + j)
  <2>1. Off(e) \in Nat /\ j \in Nat /\ j > 0 /\ j <= BlockSize /\ Off(e) + j \in Nat \ {0}
    BY BlockTypes
  <2>2. e # b => Off(e) + BlockSize <= Off(b) \/ Off(b) + BlockSize <= Off(e)
    BY <1>2, BlockTypes
  <2>3. Off(e) + j > pos /\ Off(e) + j <= end <=> e = b /\ j > r /\ j <= r + len
    <3>0. pos = Off(b) + r  BY <1>2
    <3>1. CASE e = b  BY <3>0, <3>1, <2>1, <1>8
    <3>2. CASE e # b  BY <3>0, <3>2, <2>1, <2>2, <1>8
    <3> QED BY <3>1, <3>2
  <2> QED BY <1>11, <2>1, <2>3
<1>13. Content' = Content  BY <1>3 DEF Content
<1>14. ASSUME NEW e \in Blocks PROVE BlockInv(e)'
  <2>1. BlockInv(e)  BY DEF Current
  <2>2. CASE e = b
    <3>1. ASSUME NEW j \in 1 .. BlockSize PROVE PageRight(b, j)'
      <4>1. PageRight(b, j)  BY <2>1, <2>2 DEF BlockInv
      <4> QED BY <1>1, <1>3, <1>4, <1>6, <1>9, <1>12, <4>1 DEF PageRight, f
    <3> QED BY <1>6, <2>2, <3>1 DEF BlockInv, StoreRight
  <2>3. CASE e # b
    <3>1. \A j \in 1 .. BlockSize : Has(Off(e) + j)' <=> Has(Off(e) + j)
      BY <1>12, <2>3
    <3>2. page'[e] = page[e]  BY <1>6, <2>3
    <3>3. read_block(Content, e)' = read_block(Content, e)  BY <1>13 DEF read_block
    <3> QED BY <1>g, <1>4, <1>7, <2>1, <3>1, <3>2, <3>3, BlockFrame
  <2> QED BY <2>2, <2>3
<1>15. WritingInv'
  <2>1. \A u \in All : pc'[u] = "write_page" => u # t /\ pc[u] = "write_page"
    BY <1>3 DEF TypeInv, MemInv
  <2>2. \A u \in All : pc[u] = "write_page" => loc[u].blk \in Blocks \ {b}
    BY <1>1 DEF TypeInv, CallsInv, CallInv, PageLocs
  <2> QED BY <1>3, <1>6, <2>1, <2>2, WritingFrame DEF Current
<1>16. LengthInv'
  <2>1. Len(bytes) <= i_size /\ (lost = {} => i_size = Len(bytes))
    BY DEF Current, LengthInv, Long
  <2>2. end = pos + len  BY <1>2
  <2>3. Long(i_size)'  BY <1>3, <1>5, <1>8, <1>10, <2>1, <2>2 DEF Long
  <2> QED BY <1>7, <2>3 DEF LengthInv, Shrinking
<1> QED BY <1>14, <1>15, <1>16 DEF Current

(* fsop_write_end for a page: what is stored is the page, the part behind  *)
(* what is written included, as that part is clear.                        *)
LEMMA WritePageStep ==
    ASSUME Sound, NEW t \in All, WritePage(t), Unharmed'
    PROVE  Current'
<1> USE DEF Sound
<1>0. pc[t] = "write_page" /\ loc[t] \in PageLocs
    BY DEF WritePage, TypeInv, CallsInv, CallInv
<1>b. PICK b \in Blocks, len \in 1 .. BlockSize : b = loc[t].blk /\ len = loc[t].len
    BY <1>0 DEF PageLocs
<1> DEFINE f == page[b].data
<1>1. pc[t] = "write_page" /\ page[b].lock = t /\ page[b].up /\ loc[t].next \in {"idle", "fsync"}
    BY <1>0, <1>b DEF TypeInv, CallsInv, CallInv, PageLocs
<1>2. /\ fsop_write_end(loc[t].blk, loc[t].len)
      /\ lost' = IF i_size' > i_size THEN lost \cup {"raised"} ELSE lost
  <2>1. ~Refused({"write"})  BY DEF Refused, Unharmed
  <2> QED BY <2>1 DEF WritePage
<1>3. PICK c : /\ Good(c) /\ log' = Append(log, c)
               /\ i_size' = IF Off(b) + len > i_size THEN Off(b) + len ELSE i_size
               /\ c[data_id_init(b)] # Absent /\ Len(c[data_id_init(b)]) = len
               /\ \A j \in 1 .. len : c[data_id_init(b)][j] = f[j]
               /\ \A e \in Blocks \ {b} : c[data_id_init(e)] = Content[data_id_init(e)]
    BY <1>b, <1>1, <1>2, PageWritten
<1>4. \A j \in 1 .. BlockSize : j > len => f[j] = 0
    BY <1>b, <1>1 DEF Current, WritingInv
<1>5. /\ page' = [page EXCEPT ![b].lock = None] /\ pc' = [pc EXCEPT ![t] = loc[t].next]
      /\ loc' = [loc EXCEPT ![t] = loc[t].rest] /\ bytes' = bytes
    BY <1>b DEF WritePage, Goto, file_vars
<1>6. /\ \A u \in All \ {t} : pc'[u] = pc[u] /\ loc'[u] = loc[u]
      /\ pc'[t] \in {"idle", "fsync"}
    BY <1>1, <1>5 DEF TypeInv, MemInv
<1>7. \A e \in Blocks : /\ page'[e].up = page[e].up /\ page'[e].data = page[e].data
                        /\ page'[e].dirty = page[e].dirty
    BY <1>1, <1>5 DEF TypeInv, MemInv, Pages
<1> HIDE DEF f
<1>8. /\ i_size' \in Nat /\ i_size \in Nat /\ i_size <= i_size' /\ Off(b) + len <= i_size'
      /\ len \in Nat /\ Off(b) \in Nat
  <2>1. len \in Nat /\ Off(b) \in Nat /\ i_size \in Nat  BY <1>1, BlockTypes
  <2> QED BY <1>3, <2>1
<1>g. Growing /\ (lost' = {} => i_size' = i_size)  BY <1>2, <1>8 DEF Growing
<1>9. Content' = c  BY <1>3, Appended DEF TypeInv
<1>10. \A e \in Blocks \ {b} : read_block(Content, e)' = read_block(Content, e)
    BY <1>3, <1>9 DEF read_block
<1>11. \A j \in 1 .. BlockSize : read_block(Content, b)'[j] = IF j <= len THEN f[j] ELSE 0
  <2>1. \A j \in 1 .. BlockSize : read_block(c, b)[j] = IF j <= len THEN c[data_id_init(b)][j] ELSE 0
    BY <1>1, <1>3, ReadBlock
  <2>2. read_block(Content, b)' = read_block(c, b)  BY <1>9 DEF read_block
  <2> QED BY <1>3, <2>1, <2>2
<1>12. \A e \in Blocks : Cutting(e) => Cutting(e)'
    BY <1>1, <1>6, OthersBusy DEF Shrinking
<1>h. (\A k : Has(k)' <=> Has(k)) /\ (lost' = {} => \A e, j : InFile(e, j)' <=> InFile(e, j))
    BY <1>5, <1>g DEF Has, InFile
<1>13. ASSUME NEW e \in Blocks \ {b} PROVE BlockInv(e)'
  <2>1. Writing(e) => Writing(e)'  BY <1>b, <1>6 DEF Writing
  <2> QED BY <1>g, <1>h, <1>7, <1>10, <1>12, <2>1, BlockFrame DEF Current
<1>14. ASSUME NEW j \in 1 .. BlockSize PROVE PageRight(b, j)' /\ StoreRight(b, j)'
  <2>1. PageRight(b, j)  BY DEF Current, BlockInv
  <2>2. PageRight(b, j)'  BY <1>g, <1>h, <1>7, <1>12, <2>1 DEF PageRight, Growing
  <2>3. j <= len => InFile(b, j)'  BY <1>8 DEF InFile
  <2>4. StoreRight(b, j)'
    BY <1>1, <1>g, <1>h, <1>4, <1>11, <2>1, <2>3 DEF StoreRight, PageRight, f, Growing
  <2> QED BY <2>2, <2>4
<1>15. BlockInv(b)'  BY <1>7, <1>14 DEF BlockInv, Current
<1>16. WritingInv'
  <2>1. \A u \in All : pc'[u] = "write_page" => u # t /\ pc[u] = "write_page" /\ loc'[u] = loc[u]
    BY <1>6
  <2>2. \A u \in All : pc[u] = "write_page" => loc[u].blk \in Blocks
    BY DEF TypeInv, CallsInv, CallInv, PageLocs
  <2> QED BY <1>7, <2>1, <2>2, WritingFrame DEF Current
<1>17. LengthInv'
  <2>1. Len(bytes) \in Nat /\ Len(bytes) <= i_size /\ (lost = {} => i_size = Len(bytes))
    BY DEF Current, LengthInv, Long, TypeInv, MemInv
  <2>2. Long(i_size)'  BY <1>5, <1>8, <1>g, <2>1 DEF Long, Growing
  <2>3. ASSUME NEW u \in All, pc'[u] \in {"i_size_write", "setsize"} PROVE Long(loc[u].size)'
    <3>1. pc[u] \in {"i_size_write", "setsize"} /\ loc'[u] = loc[u]  BY <1>6, <2>3
    <3>2. Long(loc[u].size)  BY <3>1 DEF Current, LengthInv
    <3> QED BY <1>5, <1>g, <3>1, <3>2 DEF Long, Growing
  <2> QED BY <2>2, <2>3 DEF LengthInv
<1> QED BY <1>13, <1>15, <1>16, <1>17 DEF Current

(* bilbyfs_writepage up to bi->wd.lock: clearing the page behind the end   *)
(* changes nothing that is in the file.                                    *)
LEMMA WritebackStep ==
    ASSUME Sound, NEW t \in All, NEW b \in Blocks, NEW next, NEW rest,
           pc[t] \in {"fsync", "idle"}, bilbyfs_writepage(t, b, next, rest)
    PROVE  Current'
<1> USE DEF Sound
<1>1. /\ UNCHANGED <<log, i_size, bytes, lost>> /\ page[b].lock = None /\ page[b].up
      /\ page \in [Blocks -> Pages] /\ i_size \in Nat /\ i_size \in Sizes
    BY BlockTypes DEF bilbyfs_writepage, store_vars, file_vars, TypeInv, MemInv
<1>2. Content' = Content /\ Growing  BY <1>1 DEF Content, Growing
<1>h. (\A k : Has(k)' <=> Has(k)) /\ (\A e, j : InFile(e, j)' <=> InFile(e, j))
    BY <1>1 DEF Has, InFile
<1>3. /\ \A u \in All \ {t} : pc'[u] = pc[u] /\ loc'[u] = loc[u]
      /\ \A e \in Blocks \ {b} : page'[e] = page[e]
      /\ pc'[t] \in {"fsync", "idle", "write_page"}
    BY <1>1 DEF bilbyfs_writepage, Goto, TypeInv, MemInv
<1>4. \A e \in Blocks : (Cutting(e) => Cutting(e)') /\ (Writing(e) => Writing(e)')
    BY <1>3, OthersBusy DEF Shrinking
<1>5. \A e \in Blocks \ {b} : BlockInv(e)'
    BY <1>2, <1>3, <1>4, <1>h, BlockFrame DEF Current
<1>6. \A u \in All : pc[u] = "write_page" => loc[u].blk \in Blocks \ {b}
    BY <1>1, ThreadAssumption DEF TypeInv, CallsInv, CallInv, PageLocs
<1>7. BlockInv(b) /\ Len(bytes) <= i_size  BY DEF Current, LengthInv, Long
<1>l. LengthInv'
    BY <1>1, <1>2, <1>3, LengthFrame DEF Current
<1>8. CASE b * BlockSize >= i_size
  <2>1. page' = [page EXCEPT ![b].dirty = FALSE] /\ UNCHANGED pc
    BY <1>8 DEF bilbyfs_writepage
  <2>2. page'[b].up /\ page'[b].data = page[b].data /\ ~page'[b].dirty
    BY <1>1, <2>1 DEF Pages
  <2>3. ASSUME NEW j \in 1 .. BlockSize PROVE PageRight(b, j)' /\ StoreRight(b, j)'
    <3>1. ~InFile(b, j)  BY <1>8, BlockTypes DEF InFile, Off
    <3>2. ~Has(Off(b) + j)  BY <1>7, <3>1, HasInFile
    <3>3. lost = {} => read_block(Content, b)[j] = 0  BY <3>1, ReadTail
    <3>4. StoreRight(b, j)'  BY <1>1, <1>2, <1>h, <3>2, <3>3 DEF StoreRight
    <3>5. PageRight(b, j)  BY <1>7 DEF BlockInv
    <3> QED BY <1>1, <1>4, <1>h, <2>2, <3>4, <3>5 DEF PageRight
  <2>4. BlockInv(b)'  BY <2>2, <2>3 DEF BlockInv
  <2>5. WritingInv'
    BY <1>3, <1>6, <2>1, WritingFrame DEF Current
  <2> QED BY <1>5, <1>l, <2>4, <2>5 DEF Current
<1>9. CASE ~(b * BlockSize >= i_size)
  <2> DEFINE len == IF b < i_size \div BlockSize THEN BlockSize ELSE i_size % BlockSize
             f == page[b].data
             g == SubSeq(f, 1, len) \o Zeros(BlockSize - len)
  <2>1. /\ page' = [page EXCEPT ![b].dirty = FALSE, ![b].lock = t, ![b].data = g]
        /\ loc' = [loc EXCEPT ![t] = [blk |-> b, len |-> len, next |-> next, rest |-> rest]]
        /\ pc' = [pc EXCEPT ![t] = "write_page"]
    BY <1>9 DEF bilbyfs_writepage, Goto
  <2>2. /\ len \in 1 .. BlockSize /\ Off(b) + len <= i_size
        /\ \A j \in 1 .. BlockSize : Off(b) + j <= i_size <=> j <= len
    BY <1>1, <1>9, WriteLen
  <2>3. PICK l \in 1 .. BlockSize : l = len  BY <2>2
  <2> HIDE DEF len
  <2>4. \A j \in 1 .. BlockSize : g[j] = IF j <= l THEN f[j] ELSE 0
    BY <2>3, BlockTypes, PageTypes, ZenonT(60)
  <2> HIDE DEF g
  <2>5. page'[b].up /\ page'[b].data = g /\ ~page'[b].dirty
    BY <1>1, <2>1 DEF Pages
  <2>6. pc'[t] = "write_page" /\ loc'[t].blk = b /\ loc'[t].len = l
    BY <2>1, <2>3 DEF TypeInv, MemInv
  <2>7. Writing(b)'  BY <2>6 DEF Writing
  <2>8. \A j \in 1 .. BlockSize : InFile(b, j) <=> j <= l
    BY <2>2, <2>3 DEF InFile
  <2>9. ASSUME NEW j \in 1 .. BlockSize PROVE PageRight(b, j)'
    <3>1. Has(Off(b) + j) => InFile(b, j)  BY <1>7, HasInFile
    <3>2. PageRight(b, j)  BY <1>7 DEF BlockInv
    <3> QED BY <1>1, <1>h, <2>4, <2>5, <2>8, <3>1, <3>2 DEF PageRight
  <2>10. BlockInv(b)'
    BY <2>5, <2>7, <2>9 DEF BlockInv, StoreRight
  <2>11. WritingInv'
    <3> SUFFICES ASSUME NEW u \in All, pc'[u] = "write_page"
                 PROVE  \A j \in 1 .. BlockSize : j > loc'[u].len => page'[loc'[u].blk].data[j] = 0
      BY DEF WritingInv
    <3>1. CASE u = t
      <4>1. \A j \in 1 .. BlockSize : j > l => g[j] = 0  BY <2>4, FileAssumption
      <4> QED BY <3>1, <4>1, <2>5, <2>6
    <3>2. CASE u # t
      BY <3>2, <1>3, <1>6 DEF Current, WritingInv
    <3> QED BY <3>1, <3>2
  <2> QED BY <1>5, <1>l, <2>10, <2>11 DEF Current
<1> QED BY <1>8, <1>9

(* fsop_truncate: a block reads as before up to the new end, and behind it *)
(* the store has nothing.                                                  *)
LEMMA TruncateStep ==
    ASSUME Sound, NEW t \in All, fsop_truncate(t), Unharmed'
    PROVE  Current'
<1> USE DEF Sound
<1>1. pc[t] = "truncate" /\ i_lock = t /\ loc[t] \in TruncateLocs /\ UNCHANGED <<page, loc>>
    BY DEF fsop_truncate, TypeInv, CallsInv, CallInv
<1>2. PICK new \in Sizes : new = loc[t].size  BY <1>1 DEF TruncateLocs
<1>b. ~Shrinking(t) /\ (\A u \in All : ~Shrinking(u)) /\ \A b : ~Cutting(b)
  <2>1. ~Shrinking(t)  BY <1>1 DEF Shrinking
  <2> QED BY <1>1, <2>1, Busy
<1>4. ASSUME NEW w, Refused(w), UNCHANGED <<i_size, file_vars>>, pc' = [pc EXCEPT ![t] = "idle"]
      PROVE  Current'
  <2>1. UNCHANGED store_vars /\ Growing  BY <1>4, RefusedFacts DEF TypeInv, MemInv, Growing
  <2>2. pc'[t] = "idle" /\ \A u \in All \ {t} : pc'[u] = pc[u] /\ loc'[u] = loc[u]
    BY <1>1, <1>4 DEF TypeInv, MemInv
  <2>3. \A b \in Blocks : read_block(Content, b)' = read_block(Content, b)
    BY <2>1 DEF read_block, Content, store_vars
  <2> QED BY <1>1, <1>4, <1>b, <2>1, <2>2, <2>3, QuietStep DEF file_vars, Shrinking
<1>5. CASE /\ Written(TruncateObjs(Content, i_size, new)) /\ UNCHANGED lost
           /\ i_size' = new /\ bytes' = Resized(bytes, new)
           /\ pc' = [pc EXCEPT ![t] = "setattr"]
  <2>1. PICK c : /\ Good(c) /\ log' = Append(log, c)
                 /\ \A b \in Blocks : CutBlock(c, Content, i_size, new, b)
    BY <1>5, Truncated
  <2>2. Content' = c  BY <2>1, Appended DEF TypeInv
  <2>3. bytes \in Seq(Bytes) /\ Len(bytes) \in Nat /\ new \in Nat /\ i_size \in Nat
    BY FileAssumption DEF TypeInv, MemInv, Sizes
  <2>4. Len(bytes') = new /\ \A k \in 1 .. new : bytes'[k] = IF k <= Len(bytes) THEN bytes[k] ELSE 0
    BY <1>5, <2>3, Resize
  <2>5. \A k \in Nat \ {0} : Has(k)' <=> k <= new /\ Has(k)
    BY <2>3, <2>4 DEF Has
  <2>6. pc'[t] = "setattr" /\ \A u \in All \ {t} : pc'[u] = pc[u] /\ loc'[u] = loc[u]
    BY <1>1, <1>5 DEF TypeInv, MemInv
  <2>7. \A b : Cutting(b)'  BY <2>6 DEF Cutting, Shrinking
  <2>8. \A b \in Blocks : Writing(b)' <=> Writing(b)
    BY <1>1, <2>6 DEF Writing
  <2>9. ASSUME NEW b \in Blocks PROVE BlockInv(b)'
    <3>1. BlockInv(b)  BY DEF Current
    <3> SUFFICES ASSUME NEW j \in 1 .. BlockSize PROVE PageRight(b, j)' /\ StoreRight(b, j)'
      BY <1>1, <3>1 DEF BlockInv
    <3>2. Off(b) \in Nat /\ j \in Nat /\ j > 0 /\ j <= BlockSize /\ Off(b) + j \in Nat \ {0} /\ BlockSize \in Nat
      BY BlockTypes
    <3>3. Has(Off(b) + j)' <=> Off(b) + j <= new /\ Has(Off(b) + j)  BY <2>5, <3>2
    <3>4. PageRight(b, j) /\ StoreRight(b, j)  BY <3>1 DEF BlockInv
    <3>5. InFile(b, j)' <=> Off(b) + j <= new  BY <1>5 DEF InFile
    <3>6. PageRight(b, j)'
      BY <1>1, <1>5, <1>b, <2>7, <3>3, <3>4, <3>5 DEF PageRight
    <3>7. ASSUME Off(b) + j <= new PROVE read_block(c, b)[j] = read_block(Content, b)[j]
      <4>1. CASE c[data_id_init(b)] = Content[data_id_init(b)]  BY <4>1 DEF read_block
      <4>2. CASE /\ c[data_id_init(b)] # Absent /\ Len(c[data_id_init(b)]) = new - Off(b)
                 /\ \A i \in 1 .. new - Off(b) : c[data_id_init(b)][i] = read_block(Content, b)[i]
        <5>1. j \in 1 .. new - Off(b) /\ j <= new - Off(b)  BY <3>2, <3>7, <2>3
        <5> QED BY <2>1, <4>2, <5>1, ReadBlock
      <4>3. CASE Off(b) >= new  BY <4>3, <3>2, <3>7, <2>3
      <4> QED BY <2>1, <4>1, <4>2, <4>3 DEF CutBlock
    <3>8. ASSUME ~(Off(b) + j <= new), lost = {} PROVE read_block(c, b)[j] = 0
      <4>1. CASE c[data_id_init(b)] = Content[data_id_init(b)] /\ ~InFile(b, j)
        BY <4>1, <3>8, ReadTail DEF read_block
      <4>2. CASE new >= i_size \/ Off(b) >= i_size
        <5>1. ~InFile(b, j)  BY <4>2, <3>2, <3>8, <2>3 DEF InFile
        <5>2. c[data_id_init(b)] = Content[data_id_init(b)] \/ c[data_id_init(b)] = Absent
          BY <2>1, <2>3, <3>2, <4>2 DEF CutBlock
        <5>3. CASE c[data_id_init(b)] = Absent  BY <2>1, <5>3, ReadBlock
        <5> QED BY <4>1, <5>1, <5>2, <5>3
      <4>3. CASE Off(b) + BlockSize <= new  BY <4>3, <3>2, <3>8, <2>3
      <4>4. CASE c[data_id_init(b)] # Absent /\ Len(c[data_id_init(b)]) = new - Off(b)
        <5>1. ~(j <= new - Off(b))  BY <3>2, <3>8, <2>3
        <5> QED BY <2>1, <4>4, <5>1, ReadBlock
      <4>5. CASE c[data_id_init(b)] = Absent  BY <2>1, <4>5, ReadBlock
      <4> QED BY <2>1, <4>2, <4>3, <4>4, <4>5 DEF CutBlock
    <3>9. read_block(Content, b)' = read_block(c, b)  BY <2>2 DEF read_block
    <3>10. StoreRight(b, j)'
      BY <1>1, <1>5, <2>8, <3>3, <3>4, <3>7, <3>8, <3>9 DEF StoreRight
    <3> QED BY <3>6, <3>10
  <2>10. WritingInv'
    <3>1. \A u \in All : pc'[u] = "write_page" => pc[u] = "write_page" /\ loc'[u] = loc[u]
      BY <2>6
    <3> QED BY <1>1, <3>1, WritingFrame DEF Current
  <2>11. LengthInv'
    <3>1. \A u \in All : pc'[u] \notin {"i_size_write", "setsize"}
      BY <1>b, <2>6 DEF Shrinking
    <3>2. Long(i_size)'  BY <1>5, <2>3, <2>4 DEF Long
    <3> QED BY <3>1, <3>2 DEF LengthInv
  <2> QED BY <2>9, <2>10, <2>11 DEF Current
<1>6. lost' # lost \cup {"truncate"}  BY DEF Unharmed
<1> QED BY <1>2, <1>4, <1>5, <1>6 DEF fsop_truncate, Goto

(* bilbyfs_setattr reads the size and then sets it, which leaves the size  *)
(* alone unless write-back has raised it.                                  *)
LEMMA SizeWriteStep ==
    ASSUME Sound, NEW t \in All, bilbyfs_setattr(t) \/ i_size_write(t)
    PROVE  Current'
<1> USE DEF Sound
<1>1. /\ pc[t] \in {"setattr", "i_size_write"} /\ loc[t] \in TruncateLocs /\ i_lock = t
      /\ UNCHANGED <<log, page, bytes>>
    BY DEF bilbyfs_setattr, i_size_write, TypeInv, CallsInv, CallInv, store_vars, file_vars
<1>2. /\ Content' = Content /\ \A k : Has(k)' <=> Has(k)
      /\ \A b \in Blocks : read_block(Content, b)' = read_block(Content, b)
    BY <1>1 DEF Content, Has, read_block
<1>3. /\ \A u \in All \ {t} : pc'[u] = pc[u] /\ loc'[u] = loc[u]
      /\ \/ /\ pc'[t] = "i_size_write" /\ loc'[t].size = i_size /\ UNCHANGED <<i_size, lost>>
         \/ /\ pc[t] = "i_size_write" /\ pc'[t] = "setsize"
            /\ loc'[t].size = loc[t].size /\ loc'[t].todo = Blocks
            /\ i_size' = loc[t].size
            /\ lost' = IF loc[t].size < i_size THEN lost \cup {"shrunk"} ELSE lost
  <2>1. CASE bilbyfs_setattr(t)
    BY <1>1, <2>1 DEF bilbyfs_setattr, Goto, TypeInv, MemInv, TruncateLocs
  <2>2. CASE i_size_write(t)
    BY <1>1, <2>2 DEF i_size_write, Goto, TypeInv, MemInv
  <2> QED BY <2>1, <2>2
<1>4. \A u \in All \ {t} : ~Shrinking(u)
    BY <1>1 DEF Shrinking, TypeInv, CallsInv, CallInv
<1>5. \A b \in Blocks : Cutting(b)' /\ (Writing(b) => Writing(b)')
    BY <1>1, <1>3 DEF Cutting, Writing, Shrinking
<1>6. Growing /\ (lost' = {} => i_size' = i_size)
  <2>1. lost = {} /\ pc[t] = "i_size_write" => loc[t].size = i_size
    BY DEF Current, LengthInv, Long
  <2> QED BY <1>3, <2>1 DEF Growing
<1>7. ASSUME NEW b \in Blocks PROVE BlockInv(b)'
  <2>1. lost' = {} => \A j : InFile(b, j)' <=> InFile(b, j)  BY <1>6 DEF InFile
  <2> QED BY <1>1, <1>2, <1>5, <1>6, <2>1, BlockFrame DEF Current
<1>8. WritingInv'
  <2>1. \A u \in All : pc'[u] = "write_page" => pc[u] = "write_page" /\ loc'[u] = loc[u]
    BY <1>3
  <2> QED BY <1>1, <2>1, WritingFrame DEF Current
<1>9. LengthInv'
  <2>1. ASSUME NEW n, Long(n) PROVE Long(n)'  BY <1>1, <1>6, <2>1 DEF Long, Growing
  <2>2. Long(i_size) /\ (pc[t] = "i_size_write" => Long(loc[t].size))
    BY DEF Current, LengthInv
  <2>3. \A u \in All \ {t} : pc'[u] \notin {"i_size_write", "setsize"}
    BY <1>3, <1>4 DEF Shrinking
  <2>4. PICK n : n = i_size' /\ loc'[t].size = n /\ Long(n)  BY <1>3, <2>2
  <2>5. Long(n)'  BY <2>1, <2>4
  <2>6. Long(i_size)' /\ Long(loc[t].size)'  BY <2>4, <2>5 DEF Long
  <2> QED BY <2>3, <2>6 DEF LengthInv
<1> QED BY <1>7, <1>8, <1>9 DEF Current

(* truncate_setsize clears the page of the last block behind the end and   *)
(* drops the pages behind it.                                              *)
LEMMA SetsizeStep ==
    ASSUME Sound, NEW t \in All, truncate_setsize(t)
    PROVE  Current'
<1> USE DEF Sound
<1>0. pc[t] = "setsize" /\ loc[t] \in SetsizeLocs
    BY DEF truncate_setsize, TypeInv, CallsInv, CallInv
<1>s. PICK size \in Nat :
            /\ size = loc[t].size /\ size \in Sizes
            /\ Len(bytes) <= size /\ (lost = {} => size = i_size)
    BY <1>0, FileAssumption DEF SetsizeLocs, Sizes, Current, LengthInv, Long
<1>1. PICK b \in loc[t].todo :
            /\ page[b].lock = None
            /\ page' = IF b * BlockSize >= size THEN [page EXCEPT ![b] = NoPage]
                       ELSE IF (b + 1) * BlockSize > size /\ page[b].up
                       THEN [page EXCEPT ![b].data = SubSeq(page[b].data, 1, size - b * BlockSize)
                                                     \o Zeros((b + 1) * BlockSize - size)]
                       ELSE page
            /\ loc' = [loc EXCEPT ![t].todo = @ \ {b}]
            /\ \/ pc' = [pc EXCEPT ![t] = "idle"] /\ loc[t].todo = {b}
               \/ UNCHANGED pc
    BY <1>s DEF truncate_setsize, Goto
<1>2. b \in Blocks /\ UNCHANGED <<log, i_size, bytes, lost>>
    BY <1>0 DEF truncate_setsize, SetsizeLocs, store_vars, file_vars
<1>3. Content' = Content /\ Growing  BY <1>2 DEF Content, Growing
<1>h. (\A k : Has(k)' <=> Has(k)) /\ (\A e, j : InFile(e, j)' <=> InFile(e, j))
    BY <1>2 DEF Has, InFile
<1>4. page \in [Blocks -> Pages] /\ i_size \in Nat /\ Off(b) \in Nat /\ page[b].data \in Data
    BY <1>2, BlockTypes DEF TypeInv, MemInv
<1>5. /\ \A u \in All \ {t} : pc'[u] = pc[u] /\ loc'[u] = loc[u]
      /\ pc'[t] \in {"idle", "setsize"}
      /\ loc'[t].todo = loc[t].todo \ {b} /\ loc'[t].size = loc[t].size
      /\ pc'[t] = "setsize" \/ loc[t].todo = {b}
    BY <1>0, <1>1 DEF TypeInv, MemInv, SetsizeLocs
<1>6. /\ \A e \in Blocks \ {b} : Cutting(e) => Cutting(e)'
      /\ \A e \in Blocks : Writing(e)' <=> Writing(e)
    BY <1>0, <1>5 DEF Cutting, Writing, Shrinking
<1>7. \A e \in Blocks \ {b} : page'[e] = page[e]
    BY <1>1, <1>2, <1>4
<1>8. \A e \in Blocks \ {b} : BlockInv(e)'
    BY <1>h, <1>3, <1>6, <1>7, BlockFrame DEF Current
<1>9. WritingInv'
  <2>1. \A u \in All : pc[u] = "write_page" => loc[u].blk \in Blocks \ {b}
    BY <1>1, ThreadAssumption DEF TypeInv, CallsInv, CallInv, PageLocs
  <2> QED BY <1>0, <1>5, <1>7, <2>1, WritingFrame DEF Current
<1>l. LengthInv'
    BY <1>0, <1>2, <1>3, <1>5, LengthFrame DEF Current
<1>f. ASSUME NEW j \in 1 .. BlockSize
      PROVE  /\ PageRight(b, j) /\ StoreRight(b, j)
             /\ Has(Off(b) + j) => Off(b) + j <= size
             /\ lost = {} => (InFile(b, j) <=> Off(b) + j <= size)
  <2>1. Has(Off(b) + j) => Off(b) + j <= size
    <3>1. Len(bytes) \in Nat  BY DEF TypeInv, MemInv
    <3> QED BY <1>2, <1>s, <3>1, BlockTypes DEF Has
  <2> QED BY <1>2, <1>s, <2>1 DEF Current, BlockInv, InFile
<1>10. BlockInv(b)'
  <2>0. page[b].dirty => page[b].up  BY <1>2 DEF Current, BlockInv
  <2>2. CASE b * BlockSize >= size
    <3>1. ~page'[b].up /\ ~page'[b].dirty  BY <1>1, <1>2, <1>4, <2>2 DEF NoPage
    <3>2. ASSUME NEW j \in 1 .. BlockSize PROVE StoreRight(b, j)'
      <4>1. ~(Off(b) + j <= size)  BY <1>2, <1>s, <2>2, BlockTypes DEF Off
      <4>2. ~Has(Off(b) + j)  BY <1>f, <4>1
      <4>3. lost = {} => read_block(Content, b)[j] = 0  BY <1>2, <1>f, <4>1, ReadTail
      <4> QED BY <1>h, <1>2, <1>3, <4>2, <4>3 DEF StoreRight
    <3> QED BY <3>1, <3>2 DEF BlockInv, PageRight
  <2>3. CASE ~(b * BlockSize >= size) /\ (b + 1) * BlockSize > size /\ page[b].up
    <3>1. PICK m \in 1 .. BlockSize :
            /\ m = size - b * BlockSize /\ (b + 1) * BlockSize - size = BlockSize - m
            /\ size = Off(b) + m
      <4>1. b * BlockSize = Off(b) /\ (b + 1) * BlockSize = Off(b) + BlockSize /\ BlockSize \in Nat
        BY <1>2, FileAssumption DEF Blocks, Off
      <4>2. size > Off(b) /\ Off(b) + BlockSize > size  BY <1>4, <2>3, <4>1
      <4>3. size - Off(b) \in 1 .. BlockSize /\ (Off(b) + BlockSize) - size = BlockSize - (size - Off(b))
            /\ size = Off(b) + (size - Off(b))
        BY <1>4, <4>1, <4>2
      <4> QED BY <4>1, <4>3
    <3> DEFINE f == page[b].data
               g == SubSeq(f, 1, m) \o Zeros(BlockSize - m)
    <3>2. page' = [page EXCEPT ![b].data = g]  BY <1>1, <2>3, <3>1
    <3>3. \A j \in 1 .. BlockSize : g[j] = IF j <= m THEN f[j] ELSE 0
      BY <1>4, PageTypes
    <3> HIDE DEF f, g
    <3>4. page'[b].data = g /\ page'[b].up /\ page'[b].dirty = page[b].dirty
      BY <1>2, <1>4, <2>3, <3>2 DEF Pages
    <3>5. \A j \in 1 .. BlockSize : Off(b) + j <= size <=> j <= m
      BY <1>4, <3>1, FileAssumption
    <3>6. ASSUME NEW j \in 1 .. BlockSize PROVE PageRight(b, j)' /\ StoreRight(b, j)'
      <4>1. StoreRight(b, j)'  BY <1>f, <1>h, <1>2, <1>3, <1>6, <3>4 DEF StoreRight
      <4>2. PageRight(b, j)'
        BY <1>f, <1>h, <1>2, <2>3, <3>3, <3>4, <3>5 DEF PageRight, f
      <4> QED BY <4>1, <4>2
    <3> QED BY <3>4, <3>6 DEF BlockInv
  <2>4. CASE ~(b * BlockSize >= size) /\ ~((b + 1) * BlockSize > size /\ page[b].up)
    <3>1. UNCHANGED page  BY <1>1, <2>4
    <3>2. ASSUME NEW j \in 1 .. BlockSize PROVE PageRight(b, j)' /\ StoreRight(b, j)'
      <4>1. StoreRight(b, j)'  BY <1>f, <1>h, <1>2, <1>3, <1>6, <3>1 DEF StoreRight
      <4>2. CASE ~page[b].up  BY <3>1, <4>1, <4>2 DEF PageRight
      <4>3. CASE ~((b + 1) * BlockSize > size)
        <5>1. (b + 1) * BlockSize = Off(b) + BlockSize /\ BlockSize \in Nat
          BY <1>2, FileAssumption DEF Blocks, Off
        <5>2. Off(b) + j <= size  BY <1>4, <4>3, <5>1
        <5> QED BY <1>f, <1>h, <1>2, <3>1, <4>1, <5>2 DEF PageRight
      <4> QED BY <2>4, <4>2, <4>3
    <3> QED BY <2>0, <3>1, <3>2 DEF BlockInv
  <2> QED BY <2>2, <2>3, <2>4
<1> QED BY <1>8, <1>9, <1>10, <1>l DEF Current

(* Storing the inode's attributes does not touch the data, and neither     *)
(* does failing to.                                                        *)
LEMMA SetattrStep ==
    ASSUME Sound, NEW t \in Threads, SetattrCall(t)
    PROVE  Current'
<1> USE DEF Sound
<1> DEFINE c == Apply(Content, <<InodeObj(i_size)>>)
<1>1. UNCHANGED <<i_size, bytes, page, pc, loc>> /\ pc[t] = "idle" /\ t \in All
    BY DEF SetattrCall, file_vars, All
<1>2. Growing /\ \A b \in Blocks : read_block(Content, b)' = read_block(Content, b)
  <2>1. CASE Written(<<InodeObj(i_size)>>) /\ UNCHANGED lost
    <3>1. log' = Append(log, c)  BY <2>1 DEF Written, WriteObjs
    <3>2. Good(c) /\ \A b \in Blocks : c[data_id_init(b)] = Content[data_id_init(b)]
      BY CurrentGood, WriteInode DEF TypeInv, MemInv
    <3>3. Content' = c  BY <3>1, <3>2, Appended DEF TypeInv
    <3> HIDE DEF c
    <3> QED BY <2>1, <3>2, <3>3 DEF read_block, Growing
  <2>2. CASE Refused({})
    <3>1. UNCHANGED store_vars /\ lost \subseteq lost'
      BY <2>2, RefusedFacts DEF TypeInv, MemInv
    <3> QED BY <3>1 DEF read_block, Content, store_vars, Growing
  <2> QED BY <2>1, <2>2 DEF SetattrCall
<1>3. ~Shrinking(t) /\ ~Shrinking(t)' /\ pc'[t] # "write_page"  BY <1>1 DEF Shrinking
<1> QED BY <1>1, <1>2, <1>3, QuietStep

(* After a power failure the file is what the store found.                 *)
LEMMA CrashStep ==
    ASSUME TypeInv, SizeInv, PowerFailure, Unharmed'
    PROVE  Current'
<1>1. PICK n \in DOMAIN log :
        /\ log' = <<log[n]>> /\ i_size' = log[n][InodeId] /\ bytes' = Stored(log[n])
        /\ lost' = lost \ {"write"}
    BY DEF PowerFailure
<1> DEFINE c == log[n]
<1>2. Good(c)  BY DEF TypeInv, StoreInv
<1>3. Content' = c  BY <1>1, <1>2, Replaced
<1>t. lost' = {} => Tight(c)  BY <1>1 DEF SizeInv, Fitting
<1> HIDE DEF c
<1>4. \A b \in Blocks : ~page'[b].up /\ ~page'[b].dirty  BY DEF PowerFailure, NoPage
<1>5. \A u \in All : pc'[u] = "idle"  BY DEF PowerFailure
<1>6. i_size' = Len(bytes') /\ i_size' = c[InodeId] /\ c[InodeId] \in Nat
    BY <1>1, <1>2, StoredFacts, FileAssumption DEF c, Good, Sizes
<1>7. ASSUME NEW b \in Blocks, NEW j \in 1 .. BlockSize PROVE StoreRight(b, j)'
  <2>1. Off(b) + j \in Nat \ {0}  BY OffFacts, FileAssumption
  <2>2. Has(Off(b) + j)' <=> Off(b) + j <= c[InodeId] /\ read_block(c, b)[j] = 1
    BY <1>1, <1>2, <1>6, <2>1, StoredFacts DEF Has, c
  <2>3. lost' = {} /\ ~(Off(b) + j <= c[InodeId]) => read_block(c, b)[j] = 0
    BY <1>2, <1>t, StoredTail
  <2>4. read_block(Content, b)' = read_block(c, b)  BY <1>3 DEF read_block
  <2> QED BY <2>2, <2>3, <2>4 DEF StoreRight
<1>8. \A b \in Blocks : BlockInv(b)'  BY <1>4, <1>7 DEF BlockInv, PageRight
<1>9. LengthInv'  BY <1>5, <1>6 DEF LengthInv, Long
<1> QED BY <1>5, <1>8, <1>9 DEF Current, WritingInv

(* The end of an fsync changes neither pages nor the current content.      *)
LEMMA FsyncEndStep ==
    ASSUME TypeInv, NEW t \in All, FsyncEnd(t)
    PROVE  /\ Content' = Content /\ lost \subseteq lost' /\ UNCHANGED <<i_size, page, loc, bytes, mods>>
           /\ pc[t] = "fsync" /\ pc'[t] = "idle" /\ \A u \in All \ {t} : pc'[u] = pc[u]
<1>1. /\ UNCHANGED <<i_size, page, bytes, mods, loc>>
      /\ pc[t] = "fsync" /\ pc' = [pc EXCEPT ![t] = "idle"]
    BY DEF FsyncEnd, Goto, file_vars
<1>2. Content' = Content /\ lost \subseteq lost'
  <2>1. CASE UNCHANGED store_vars /\ lost \subseteq lost'  BY <2>1 DEF store_vars, Content
  <2>2. CASE SyncObjs /\ UNCHANGED lost
    <3>1. Good(Content) /\ log' = <<Content>>  BY <2>2, CurrentGood DEF TypeInv, SyncObjs
    <3> QED BY <2>2, <3>1, Replaced
  <2>3. CASE Refused({})  BY <2>1, <2>3, RefusedFacts DEF TypeInv, MemInv
  <2> QED BY <2>1, <2>2, <2>3 DEF FsyncEnd
<1> QED BY <1>1, <1>2 DEF TypeInv, MemInv

(* Only a power failure undoes a loss.                                     *)
LEMMA LostGrows ==
    ASSUME TypeInv, [Next]_vars, ~PowerFailure
    PROVE  lost \subseteq lost'
<1>1. ASSUME NEW w, Refused(w) PROVE lost \subseteq lost'
    BY <1>1, RefusedFacts DEF TypeInv, MemInv
<1>2. ASSUME NEW t, NEW b, NEW next, NEW rest, bilbyfs_writepage(t, b, next, rest)
      PROVE  lost \subseteq lost'
    BY <1>2 DEF bilbyfs_writepage
<1>3. ASSUME NEW t \in All, Continue(t) PROVE lost \subseteq lost'
  <2>1. CASE bilbyfs_write_begin(t) \/ bilbyfs_write_end_writeback(t)
    BY <2>1 DEF bilbyfs_write_begin, bilbyfs_write_end_writeback
  <2>2. CASE WritePage(t)  BY <1>1, <2>2 DEF WritePage
  <2>3. CASE FsyncPage(t)  BY <1>2, <2>3 DEF FsyncPage
  <2>4. CASE FsyncEnd(t)  BY <2>4, FsyncEndStep
  <2>5. CASE fsop_truncate(t)  BY <1>1, <2>5 DEF fsop_truncate
  <2>6. CASE bilbyfs_setattr(t) \/ i_size_write(t) \/ truncate_setsize(t)
    BY <2>6 DEF bilbyfs_setattr, i_size_write, truncate_setsize
  <2> QED BY <1>3, <2>1, <2>2, <2>3, <2>4, <2>5, <2>6 DEF Continue
<1>4. ASSUME NEW t \in Threads, NEW n, NEW l,
             WriteCall(t, n, l) \/ TruncateCall(t, n) \/ FsyncCall(t) \/ SetattrCall(t)
      PROVE  lost \subseteq lost'
    BY <1>1, <1>4 DEF WriteCall, TruncateCall, FsyncCall, SetattrCall, Enter
<1>5. ASSUME NEW b, bilbyfs_readpage(b) \/ ReclaimPage(b) PROVE lost \subseteq lost'
    BY <1>5 DEF bilbyfs_readpage, ReclaimPage
<1>6. ASSUME UNCHANGED vars PROVE lost \subseteq lost'  BY <1>6 DEF vars
<1> QED BY <1>2, <1>3, <1>4, <1>5, <1>6 DEF Next

(* Every step keeps PageInv.                                               *)
LEMMA PageStep == TypeInv /\ SizeInv /\ PageInv /\ [Next]_vars => PageInv'
<1> SUFFICES ASSUME TypeInv, SizeInv, PageInv, [Next]_vars, Unharmed', ~PowerFailure PROVE Current'
    BY CrashStep DEF PageInv
<1>s. Sound /\ Growing  BY LostGrows DEF Sound, PageInv, Unharmed, Growing
<1>0. ASSUME NEW t \in All,
             \A u \in All \ {t} : pc'[u] = pc[u] /\ loc'[u] = loc[u],
             pc[t] \in {"idle", "fsync"}, pc'[t] # "write_page", ~Shrinking(t)',
             UNCHANGED <<i_size, bytes, page>>, Content' = Content
      PROVE  Current'
  <2>1. \A b \in Blocks : read_block(Content, b)' = read_block(Content, b)
    BY <1>0 DEF read_block
  <2> QED BY <1>s, <1>0, <2>1, QuietStep DEF Shrinking
<1>1. ASSUME NEW t \in Threads, NEW n, NEW l, WriteCall(t, n, l) \/ TruncateCall(t, n) \/ FsyncCall(t)
      PROVE  Current'
  <2>1. /\ pc[t] = "idle" /\ UNCHANGED <<log, i_size, bytes, page>>
        /\ \E x \in {"write_begin", "truncate", "fsync"} : pc' = [pc EXCEPT ![t] = x]
        /\ \E x : loc' = [loc EXCEPT ![t] = x]
    BY <1>1 DEF WriteCall, TruncateCall, FsyncCall, Enter, Goto, store_vars, file_vars
  <2>2. \A u \in All \ {t} : pc'[u] = pc[u] /\ loc'[u] = loc[u]
    BY <2>1 DEF TypeInv, MemInv
  <2>3. t \in All /\ pc'[t] # "write_page" /\ ~Shrinking(t)'
    BY <2>1 DEF TypeInv, MemInv, All, Shrinking
  <2> QED BY <1>0, <2>1, <2>2, <2>3 DEF Content
<1>2. ASSUME NEW t \in All, NEW b \in Blocks, NEW next, NEW rest,
             pc[t] \in {"fsync", "idle"}, bilbyfs_writepage(t, b, next, rest)
      PROVE  Current'
    BY <1>s, <1>2, WritebackStep
<1>3. ASSUME NEW t \in All, FsyncPage(t) PROVE Current'
  <2>0. pc[t] = "fsync" /\ loc[t] \in FsyncLocs
    BY <1>3 DEF FsyncPage, TypeInv, CallsInv, CallInv
  <2>1. PICK b \in Blocks :
        \/ bilbyfs_writepage(t, b, "fsync", [loc[t] EXCEPT !.todo = @ \ {b}])
        \/ /\ loc' = [loc EXCEPT ![t] = [loc[t] EXCEPT !.todo = @ \ {b}]]
           /\ UNCHANGED <<store_vars, i_size, i_lock, page, eio, pc, file_vars, lost, bounds>>
    BY <1>3, <2>0 DEF FsyncPage, FsyncLocs
  <2>2. CASE /\ loc' = [loc EXCEPT ![t] = [loc[t] EXCEPT !.todo = @ \ {b}]]
             /\ UNCHANGED <<store_vars, i_size, i_lock, page, eio, pc, file_vars, lost, bounds>>
    <3>1. \A u \in All \ {t} : pc'[u] = pc[u] /\ loc'[u] = loc[u]
      BY <2>2 DEF TypeInv, MemInv
    <3> QED BY <1>0, <2>0, <2>2, <3>1 DEF store_vars, file_vars, Content, Shrinking
  <2> QED BY <1>2, <2>0, <2>1, <2>2
<1>4. ASSUME NEW t \in All, Continue(t) PROVE Current'
  <2>1. CASE bilbyfs_write_begin(t)  BY <1>s, <2>1, WriteBeginStep
  <2>2. CASE bilbyfs_write_end_writeback(t)  BY <1>s, <2>2, WriteEndStep
  <2>3. CASE WritePage(t)  BY <1>s, <2>3, WritePageStep
  <2>4. CASE FsyncPage(t)  BY <1>3, <2>4
  <2>5. CASE FsyncEnd(t)
    <3>1. ~Shrinking(t)'  BY <2>5, FsyncEndStep DEF Shrinking
    <3> QED BY <1>0, <2>5, <3>1, FsyncEndStep
  <2>6. CASE fsop_truncate(t)  BY <1>s, <2>6, TruncateStep
  <2>7. CASE bilbyfs_setattr(t) \/ i_size_write(t)  BY <1>s, <2>7, SizeWriteStep
  <2>8. CASE truncate_setsize(t)  BY <1>s, <2>8, SetsizeStep
  <2> QED BY <1>4, <2>1, <2>2, <2>3, <2>4, <2>5, <2>6, <2>7, <2>8 DEF Continue
<1>5. ASSUME NEW t \in Threads, SetattrCall(t) PROVE Current'
    BY <1>s, <1>5, SetattrStep
<1>6. ASSUME NEW b \in Blocks, bilbyfs_readpage(b) \/ ReclaimPage(b) PROVE Current'
    BY <1>s, <1>6, PageCacheStep
<1>7. ASSUME UNCHANGED vars PROVE Current'
  <2>1. UNCHANGED <<log, i_size, page, pc, loc, bytes, lost>>
    BY <1>7 DEF vars, store_vars, mem_vars, file_vars
  <2>2. Current  BY <1>s DEF Sound
  <2>3. \A b \in Blocks : BlockInv(b)'
    <3> SUFFICES ASSUME NEW b \in Blocks PROVE BlockInv(b)'  OBVIOUS
    <3>1. read_block(Content, b)' = read_block(Content, b)  BY <2>1 DEF read_block, Content
    <3>2. (Cutting(b) => Cutting(b)') /\ (Writing(b) => Writing(b)')
      BY <2>1 DEF Cutting, Writing, Shrinking
    <3>3. \A j : (Has(Off(b) + j)' <=> Has(Off(b) + j)) /\ (InFile(b, j)' <=> InFile(b, j))
      BY <2>1 DEF Has, InFile
    <3> QED BY <1>s, <2>1, <2>2, <3>1, <3>2, <3>3, BlockFrame DEF Current
  <2>4. WritingInv' /\ LengthInv'
    BY <1>s, <2>1, <2>2, WritingFrame, LengthFrame DEF Current
  <2> QED BY <2>3, <2>4 DEF Current
<1>8. Flusher \in All  BY DEF All
<1> QED BY <1>1, <1>2, <1>4, <1>5, <1>6, <1>7, <1>8 DEF Next, FsyncCall

(* PageInv, said byte by byte.                                             *)
LEMMA CurrentBytes == TypeInv /\ SizeInv /\ PageInv => FileCurrent
<1> SUFFICES ASSUME TypeInv, SizeInv, Current, i_lock = None PROVE Honours(Shown)
    BY DEF PageInv, FileCurrent
<1>1. /\ i_size \in Sizes /\ i_size \in Nat /\ Len(bytes) \in Nat /\ DOMAIN bytes = 1 .. Len(bytes)
      /\ Len(bytes) <= i_size /\ (lost = {} => i_size = Len(bytes))
    BY FileAssumption DEF Current, LengthInv, Long, TypeInv, MemInv, Sizes
<1>2. \A b : ~Cutting(b)
    BY ThreadAssumption DEF Cutting, Shrinking, TypeInv, CallsInv, CallInv
<1>3. ASSUME NEW k \in 1 .. Len(bytes)
      PROVE  /\ bytes[k] = 1 => Shown[k] = 1
             /\ lost = {} /\ Shown[k] = 1 => bytes[k] = 1
  <2>0. k \in 1 .. i_size
    <3>1. i_size \in Nat /\ Len(bytes) \in Nat /\ Len(bytes) <= i_size  BY <1>1
    <3> QED BY <3>1
  <2>1. PICK b \in Blocks, j \in 1 .. BlockSize :
            k = Off(b) + j /\ b = (k - 1) \div BlockSize /\ j = ((k - 1) % BlockSize) + 1
    BY <1>1, <2>0, Position
  <2>2. Shown[k] = View(b)[j]  BY <2>0, <2>1 DEF Shown
  <2>3. Has(k) <=> bytes[k] = 1  BY DEF Has
  <2>4. (page[b].dirty => page[b].up) /\ PageRight(b, j) /\ StoreRight(b, j)
    BY DEF Current, BlockInv
  <2>5. CASE page[b].up
    BY <1>2, <2>1, <2>2, <2>3, <2>4, <2>5 DEF View, PageRight
  <2>6. CASE ~page[b].up
    <3>1. ~Writing(b)  BY <2>6 DEF Writing, TypeInv, CallsInv, CallInv
    <3> QED BY <2>1, <2>2, <2>3, <2>4, <2>6, <3>1 DEF View, StoreRight
  <2> QED BY <2>5, <2>6
<1>4. Len(Shown) = i_size
  <2> DEFINE f(k) == View((k - 1) \div BlockSize)[((k - 1) % BlockSize) + 1]
  <2>1. Shown = [k \in 1 .. i_size |-> f(k)]  BY DEF Shown
  <2>2. i_size \in Nat  BY <1>1
  <2> HIDE DEF f
  <2> QED BY <2>1, <2>2
<1> HIDE DEF Shown
<1> QED BY <1>1, <1>3, <1>4 DEF Honours

(* A file that was just created satisfies PageInv.                         *)
LEMMA InitPage == Init => PageInv
<1> SUFFICES ASSUME Init PROVE Current  BY DEF PageInv
<1>1. /\ i_size = 0 /\ bytes = <<>> /\ Len(bytes) = 0 /\ \A t \in All : pc[t] = "idle"
      /\ \A b \in Blocks : ~page[b].up /\ ~page[b].dirty
    BY DEF Init, NoPage
<1>2. \A k : ~Has(k)  BY <1>1 DEF Has
<1>3. ASSUME NEW b \in Blocks, NEW j \in 1 .. BlockSize PROVE read_block(Content, b)[j] # 1
  <2> DEFINE c == [Empty EXCEPT ![InodeId] = 0]
  <2>1. c[data_id_init(b)] = Absent
    BY AffectsFacts, IdFacts, FileAssumption DEF Empty
  <2>2. log = <<c>>  BY DEF Init
  <2> HIDE DEF c
  <2>3. Content = c  BY <2>2 DEF Content
  <2> QED BY <2>1, <2>3 DEF read_block, Zeros
<1>4. \A b \in Blocks : BlockInv(b)
    BY <1>1, <1>2, <1>3 DEF BlockInv, PageRight, StoreRight
<1> QED BY <1>1, <1>4 DEF Current, WritingInv, LengthInv, Long

(* When no write or truncation is under way and no call has reported a     *)
(* damage, a reader finds what the calls that returned made of the file,   *)
(* wherever its pages are (bilbyfs_write_begin,                            *)
(* bilbyfs_write_end_writeback, bilbyfs_writepage, bilbyfs_setattr): for   *)
(* any number of threads and blocks, however write-back and truncations    *)
(* interleave and whatever is in new pages.                                *)
THEOREM FileCurrentHolds == Spec => []FileCurrent
BY InitType, InitSize, InitPage, TypeStep, SizeStep, PageStep, CurrentBytes, PTL DEF Spec

(* A step that dirties no page and keeps the size and the stored size      *)
(* keeps DirtyInv.                                                         *)
LEMMA DirtyFrame ==
    ASSUME DirtyInv, UNCHANGED <<i_size, bytes>>, Content'[InodeId] = Content[InodeId],
           \A b \in Blocks : page'[b].dirty => page[b].dirty,
           \A b \in Blocks : page'[b].dirty /\ Cutting(b) => Cutting(b)' \/ Off(b) < i_size,
           \A t \in All : Shrinking(t)' => Shrinking(t),
           \A t \in All : pc'[t] = "setsize" => pc[t] = "setsize" /\ loc'[t].size = loc[t].size,
           \/ Len(bytes) <= Content[InodeId]
           \/ \A b \in Blocks : page[b].dirty \/ Writing(b) => page'[b].dirty \/ Writing(b)'
    PROVE  DirtyInv'
<1>1. \A b \in Blocks : page'[b].dirty => Cutting(b)' \/ Off(b) < i_size
    BY DEF DirtyInv
<1>2. ASSUME NEW t \in All, Shrinking(t)' PROVE Len(bytes) <= Content[InodeId]
  <2>1. Shrinking(t)  BY <1>2
  <2> QED BY <2>1 DEF DirtyInv
<1>3. Len(bytes) <= Content[InodeId] \/ \E b \in Blocks : page'[b].dirty \/ Writing(b)'
    BY DEF DirtyInv
<1>4. ASSUME NEW t \in All, pc'[t] = "setsize" PROVE loc'[t].size <= i_size
  <2>1. pc[t] = "setsize" /\ loc'[t].size = loc[t].size  BY <1>4
  <2> QED BY <2>1 DEF DirtyInv
<1> QED BY <1>1, <1>2, <1>3, <1>4 DEF DirtyInv

(* A step of one thread that dirties no page keeps what the other threads' *)
(* fsyncs have done, since it starts to write only dirty pages.            *)
LEMMA SyncedStep ==
    ASSUME TypeInv, SyncedInv, NEW t \in All,
           \A u \in All \ {t} : pc'[u] = pc[u] /\ loc'[u] = loc[u],
           mods' = mods, \A b \in Blocks : page'[b].dirty => page[b].dirty,
           pc'[t] = "write_page" => page[loc'[t].blk].dirty,
           t \in Threads /\ pc'[t] = "fsync" => Synced(t, loc[t].todo, loc[t].mods)',
           t \in Threads /\ pc'[t] = "write_page" /\ loc'[t].next = "fsync" =>
                Synced(t, loc[t].rest.todo, loc[t].rest.mods)'
    PROVE  SyncedInv'
<1>1. ASSUME NEW v \in Threads, v # t, NEW todo, NEW m, Synced(v, todo, m)
      PROVE  Synced(v, todo, m)'
    BY <1>1 DEF Synced
<1> SUFFICES ASSUME NEW v \in Threads
             PROVE  /\ pc'[v] = "fsync" => Synced(v, loc[v].todo, loc[v].mods)'
                    /\ pc'[v] = "write_page" /\ loc'[v].next = "fsync" =>
                            Synced(v, loc[v].rest.todo, loc[v].rest.mods)'
    BY DEF SyncedInv
<1>2. CASE v = t  BY <1>2
<1>3. CASE v # t
  <2>1. pc'[v] = pc[v] /\ loc'[v] = loc[v]  BY <1>3 DEF All
  <2>2. ASSUME pc[v] = "fsync" PROVE Synced(v, loc[v].todo, loc[v].mods)'
    <3>1. PICK todo, m : todo = loc[v].todo /\ m = loc[v].mods  OBVIOUS
    <3>2. Synced(v, todo, m)'  BY <1>1, <1>3, <2>2, <3>1 DEF SyncedInv
    <3> QED BY <2>1, <3>1, <3>2 DEF Synced
  <2>3. ASSUME pc[v] = "write_page", loc[v].next = "fsync"
        PROVE  Synced(v, loc[v].rest.todo, loc[v].rest.mods)'
    <3>1. PICK todo, m : todo = loc[v].rest.todo /\ m = loc[v].rest.mods  OBVIOUS
    <3>2. Synced(v, todo, m)'  BY <1>1, <1>3, <2>3, <3>1 DEF SyncedInv
    <3> QED BY <2>1, <3>1, <3>2 DEF Synced
  <2> QED BY <2>1, <2>2, <2>3
<1> QED BY <1>2, <1>3

(* An fsync goes on: the pages in done are clean and not being written by  *)
(* others.                                                                 *)
LEMMA SyncedMore ==
    ASSUME NEW t \in All, NEW todo, NEW m, NEW done, Synced(t, todo, m),
           \A u \in All \ {t} : pc'[u] = pc[u] /\ loc'[u] = loc[u],
           mods' = mods, \A b \in Blocks : page'[b].dirty => page[b].dirty,
           \A b \in Blocks \cap done :
                ~page'[b].dirty /\ \A u \in All \ {t} : ~(pc[u] = "write_page" /\ loc[u].blk = b)
    PROVE  Synced(t, todo \ done, m)'
BY DEF Synced

(* After a change of the file no fsync that is under way promises          *)
(* anything.                                                               *)
LEMMA SyncedChanged ==
    ASSUME TypeInv, SyncedInv, NEW t \in All,
           \A u \in All \ {t} : pc'[u] = pc[u] /\ loc'[u] = loc[u],
           mods' = mods + 1, pc'[t] \notin {"fsync", "write_page"}
    PROVE  SyncedInv'
<1> SUFFICES ASSUME NEW v \in Threads
             PROVE  /\ pc'[v] = "fsync" => loc'[v].mods < mods'
                    /\ pc'[v] = "write_page" /\ loc'[v].next = "fsync" => loc'[v].rest.mods < mods'
  <2>1. mods' \in Nat  BY DEF TypeInv, MemInv
  <2> SUFFICES ASSUME TRUE PROVE \A v \in Threads :
            /\ pc'[v] = "fsync" => loc'[v].mods \in Nat
            /\ pc'[v] = "write_page" /\ loc'[v].next = "fsync" => loc'[v].rest.mods \in Nat
    BY <2>1 DEF SyncedInv, Synced
  <2> QED BY DEF TypeInv, CallsInv, CallInv, FsyncLocs, All
<1>1. mods \in Nat  BY DEF TypeInv, MemInv
<1>2. v \in All  BY DEF All
<1>3. CASE v = t  BY <1>3
<1>4. CASE v # t
  <2>1. pc'[v] = pc[v] /\ loc'[v] = loc[v] /\ CallInv(v)
    BY <1>2, <1>4 DEF TypeInv, CallsInv
  <2>2. pc[v] = "fsync" => loc[v].mods \in Nat /\ loc[v].mods <= mods
    BY <2>1 DEF CallInv, FsyncLocs, SyncedInv, Synced
  <2>3. pc[v] = "write_page" /\ loc[v].next = "fsync" =>
            loc[v].rest.mods \in Nat /\ loc[v].rest.mods <= mods
    BY <2>1 DEF CallInv, FsyncLocs, SyncedInv, Synced
  <2> QED BY <1>1, <2>1, <2>2, <2>3
<1> QED BY <1>3, <1>4

(* A step that leaves alone which pages are dirty, sizes and contents, and *)
(* neither begins nor ends a write of a page or the cutting of pages.      *)
LEMMA QuietSync ==
    ASSUME TypeInv, DirtyInv, SyncedInv, NEW t \in All,
           \A u \in All \ {t} : pc'[u] = pc[u] /\ loc'[u] = loc[u],
           pc[t] # "write_page", ~Shrinking(t), pc'[t] # "write_page", ~Shrinking(t)',
           UNCHANGED <<i_size, bytes, mods>>, Content'[InodeId] = Content[InodeId],
           \A b \in Blocks : page'[b].dirty = page[b].dirty,
           t \in Threads /\ pc'[t] = "fsync" => Synced(t, loc[t].todo, loc[t].mods)'
    PROVE  DirtyInv' /\ SyncedInv'
<1>1. \A b \in Blocks : (Cutting(b) => Cutting(b)') /\ (Writing(b) => Writing(b)')
    BY OthersBusy
<1>2. \A u \in All : Shrinking(u)' => Shrinking(u)  BY DEF Shrinking
<1>3. \A u \in All : pc'[u] = "setsize" => pc[u] = "setsize" /\ loc'[u].size = loc[u].size
    BY DEF Shrinking
<1>4. DirtyInv'  BY <1>1, <1>2, <1>3, DirtyFrame
<1>5. SyncedInv'  BY SyncedStep
<1> QED BY <1>4, <1>5

(* A write makes its page dirty and, if need be, the file longer.          *)
LEMMA WriteEndSync ==
    ASSUME TypeInv, DirtyInv, SyncedInv, NEW t \in All, bilbyfs_write_end_writeback(t)
    PROVE  DirtyInv' /\ SyncedInv'
<1>0. pc[t] = "write_end" /\ loc[t] \in WriteLocs /\ i_lock = t /\ page \in [Blocks -> Pages]
    BY DEF bilbyfs_write_end_writeback, TypeInv, CallsInv, CallInv, MemInv
<1>1. PICK b \in Blocks, end \in Nat :
        b = loc[t].pos \div BlockSize /\ end = loc[t].pos + loc[t].len /\ Off(b) < end
  <2>1. PICK c \in Blocks, r \in 0 .. BlockSize - 1, p \in Nat, n \in 1 .. BlockSize :
            c = loc[t].pos \div BlockSize /\ p = loc[t].pos /\ n = loc[t].len /\ p = Off(c) + r
    BY <1>0, WritePos
  <2>2. Off(c) \in Nat /\ BlockSize \in Nat  BY OffFacts, FileAssumption
  <2>3. p + n \in Nat /\ Off(c) < p + n  BY <2>1, <2>2
  <2> QED BY <2>1, <2>3
<1>2. /\ i_size' = (IF end > i_size THEN end ELSE i_size) /\ mods' = mods + 1
      /\ pc' = [pc EXCEPT ![t] = "idle"] /\ UNCHANGED loc
      /\ \E o : page' = [page EXCEPT ![b].data = o, ![b].dirty = TRUE, ![b].lock = None]
    BY <1>1 DEF bilbyfs_write_end_writeback, Goto
<1>3. pc'[t] = "idle" /\ \A u \in All \ {t} : pc'[u] = pc[u] /\ loc'[u] = loc[u]
    BY <1>2 DEF TypeInv, MemInv
<1>4. page'[b].dirty /\ \A e \in Blocks \ {b} : page'[e] = page[e]
    BY <1>0, <1>2 DEF Pages
<1>5. i_size \in Nat /\ i_size' \in Nat /\ end <= i_size' /\ i_size <= i_size'
  <2>1. i_size \in Nat  BY <1>1, BlockTypes
  <2> QED BY <1>2, <2>1
<1>6. (\A u \in All : ~Shrinking(u)) /\ \A e : ~Cutting(e)
    BY <1>0, Busy DEF Shrinking
<1>7. \A u \in All : ~Shrinking(u)'  BY <1>3, <1>6 DEF Shrinking
<1>8. ASSUME NEW e \in Blocks, page'[e].dirty PROVE Off(e) < i_size'
  <2>1. Off(e) \in Nat  BY OffFacts
  <2>2. CASE e = b  BY <1>1, <1>5, <2>1, <2>2
  <2>3. CASE e # b
    <3>1. Off(e) < i_size  BY <1>4, <1>6, <1>8, <2>3 DEF DirtyInv
    <3> QED BY <1>5, <2>1, <3>1
  <2> QED BY <2>2, <2>3
<1>9. DirtyInv'  BY <1>4, <1>7, <1>8 DEF DirtyInv, Shrinking
<1>10. SyncedInv'  BY <1>2, <1>3, SyncedChanged
<1> QED BY <1>9, <1>10

(* When the page is stored, so is the size.                                *)
LEMMA WritePageSync ==
    ASSUME Sound, DirtyInv, SyncedInv, NEW t \in All, WritePage(t), Unharmed'
    PROVE  DirtyInv' /\ SyncedInv'
<1> USE DEF Sound
<1>1. /\ pc[t] = "write_page" /\ fsop_write_end(loc[t].blk, loc[t].len) /\ UNCHANGED <<bytes, mods>>
      /\ page' = [page EXCEPT ![loc[t].blk].lock = None]
      /\ pc' = [pc EXCEPT ![t] = loc[t].next] /\ loc' = [loc EXCEPT ![t] = loc[t].rest]
  <2>1. ~Refused({"write"})  BY DEF Refused, Unharmed
  <2> QED BY <2>1 DEF WritePage, Goto, file_vars
<1>2. loc[t] \in PageLocs  BY <1>1 DEF TypeInv, CallsInv, CallInv
<1>3. /\ pc'[t] = loc[t].next /\ loc'[t] = loc[t].rest /\ pc'[t] \in {"idle", "fsync"}
      /\ \A u \in All \ {t} : pc'[u] = pc[u] /\ loc'[u] = loc[u]
    BY <1>1, <1>2 DEF TypeInv, MemInv, PageLocs
<1>4. \A e \in Blocks : page'[e].dirty = page[e].dirty
    BY <1>1, <1>2 DEF PageLocs, Pages, TypeInv, MemInv
<1>5. PICK n \in Nat, m \in Nat : n = i_size /\ m = i_size' /\ n <= m /\ Content'[InodeId] = m
  <2>1. PICK c, end : /\ Good(c) /\ log' = Append(log, c) /\ c[InodeId] = i_size'
                      /\ i_size' = (IF end > i_size THEN end ELSE i_size)
                      /\ end = Off(loc[t].blk) + loc[t].len
    BY <1>1, PageWritten
  <2>2. end \in Nat /\ i_size \in Nat
    BY <1>2, <2>1, OffFacts, FileAssumption, BlockTypes DEF PageLocs
  <2>3. Content' = c  BY <2>1, Appended DEF TypeInv
  <2>4. PICK n \in Nat, m \in Nat : n = i_size /\ m = (IF end > n THEN end ELSE n) /\ n <= m
    BY <2>2
  <2>5. m = i_size'  BY <2>1, <2>4
  <2> QED BY <2>1, <2>3, <2>4, <2>5, Zenon
<1>6. \A e \in Blocks : Cutting(e) => Cutting(e)'
    BY <1>1, <1>3, OthersBusy DEF Shrinking
<1>7. \A u \in All : Shrinking(u)' => pc'[u] = pc[u] /\ loc'[u] = loc[u]
    BY <1>3 DEF Shrinking
<1>8. ASSUME NEW e \in Blocks, page'[e].dirty PROVE Cutting(e)' \/ Off(e) < i_size'
  <2>1. Cutting(e) \/ Off(e) < i_size  BY <1>4, <1>8 DEF DirtyInv
  <2>2. Off(e) \in Nat  BY OffFacts
  <2> QED BY <1>5, <1>6, <2>1, <2>2
<1>9. Len(bytes) <= Content'[InodeId]
  <2>1. Len(bytes) \in Nat /\ Len(bytes) <= i_size
    BY DEF Current, LengthInv, Long, TypeInv, MemInv
  <2> QED BY <1>5, <2>1
<1>10. ASSUME NEW u \in All, pc'[u] = "setsize" PROVE loc'[u].size <= i_size'
  <2>1. pc[u] = "setsize" /\ loc'[u] = loc[u]  BY <1>7, <1>10 DEF Shrinking
  <2>2. PICK s \in Nat : s = loc[u].size
    BY <2>1, FileAssumption DEF TypeInv, CallsInv, CallInv, SetsizeLocs, Sizes
  <2>3. s <= i_size  BY <2>1, <2>2 DEF DirtyInv
  <2> QED BY <1>5, <2>1, <2>2, <2>3
<1>11. DirtyInv'  BY <1>1, <1>8, <1>9, <1>10 DEF DirtyInv
<1>12. ASSUME t \in Threads, pc'[t] = "fsync" PROVE Synced(t, loc[t].todo, loc[t].mods)'
  <2>1. PICK todo, ms : todo = loc[t].rest.todo /\ ms = loc[t].rest.mods  OBVIOUS
  <2>2. Synced(t, todo, ms)  BY <1>1, <1>3, <1>12, <2>1 DEF SyncedInv
  <2>3. Synced(t, todo \ {}, ms)'  BY <1>1, <1>3, <1>4, <2>2, SyncedMore
  <2>4. todo \ {} = todo  OBVIOUS
  <2> QED BY <1>3, <2>1, <2>3, <2>4 DEF Synced
<1>13. SyncedInv'  BY <1>1, <1>3, <1>4, <1>12, SyncedStep
<1> QED BY <1>11, <1>13

(* A page that is written back is clean; the thread that writes it will    *)
(* store the size with it.                                                 *)
LEMMA WritebackSync ==
    ASSUME Sound, DirtyInv, SyncedInv, NEW t \in All, NEW b \in Blocks, NEW next, NEW rest,
           bilbyfs_writepage(t, b, next, rest),
           \/ next = "idle" /\ pc[t] = "idle"
           \/ /\ next = "fsync" /\ pc[t] = "fsync" /\ t \in Threads
              /\ rest.todo = loc[t].todo \ {b} /\ rest.mods = loc[t].mods
    PROVE  DirtyInv' /\ SyncedInv'
<1> USE DEF Sound
<1>1. /\ UNCHANGED <<log, i_size, bytes, mods>> /\ page[b].lock = None /\ page[b].dirty
      /\ page \in [Blocks -> Pages] /\ i_size \in Nat /\ pc[t] \in {"idle", "fsync"}
    BY BlockTypes DEF bilbyfs_writepage, store_vars, file_vars, TypeInv, MemInv
<1>2. Content' = Content  BY <1>1 DEF Content
<1>3. ~Writing(b)  BY <1>1, NotWriting
<1>4. /\ \A u \in All \ {t} : pc'[u] = pc[u] /\ loc'[u] = loc[u]
      /\ \A e \in Blocks \ {b} : page'[e] = page[e]
      /\ ~page'[b].dirty
  <2>1. \/ page' = [page EXCEPT ![b].dirty = FALSE]
        \/ \E g : page' = [page EXCEPT ![b].dirty = FALSE, ![b].lock = t, ![b].data = g]
    BY DEF bilbyfs_writepage
  <2>2. \A e \in Blocks \ {b} : page'[e] = page[e]  BY <1>1, <2>1
  <2>3. ~page'[b].dirty  BY <1>1, <2>1 DEF Pages
  <2>4. \A u \in All \ {t} : pc'[u] = pc[u] /\ loc'[u] = loc[u]
    BY DEF bilbyfs_writepage, Goto, TypeInv, MemInv
  <2> QED BY <2>2, <2>3, <2>4
<1>5. \A e \in Blocks : page'[e].dirty => page[e].dirty  BY <1>4
<1>6. \A e \in Blocks : (Cutting(e) => Cutting(e)') /\ (Writing(e) => Writing(e)')
    BY <1>1, <1>4, OthersBusy DEF Shrinking
<1>7. ASSUME next = "fsync" PROVE Synced(t, rest.todo, rest.mods)'
  <2>1. PICK todo, m : todo = loc[t].todo /\ m = loc[t].mods  OBVIOUS
  <2>2. Synced(t, todo, m)  BY <1>7, <2>1 DEF SyncedInv
  <2>3. \A u \in All \ {t} : ~(pc[u] = "write_page" /\ loc[u].blk = b)
    BY <1>3 DEF Writing
  <2>4. Synced(t, todo \ {b}, m)'
    BY <2>2, <2>3, <1>1, <1>4, <1>5, SyncedMore, ZenonT(60)
  <2>5. rest.todo = todo \ {b} /\ rest.mods = m  BY <1>7, <2>1
  <2> QED BY <2>4, <2>5 DEF Synced
<1>8. CASE b * BlockSize >= i_size
  <2>1. pc' = pc /\ loc'[t] = rest
    BY <1>8 DEF bilbyfs_writepage, TypeInv, MemInv
  <2>2. Len(bytes) <= Content[InodeId]
    <3>1. ~(Off(b) < i_size)  BY <1>1, <1>8, OffFacts DEF Off
    <3>2. Cutting(b)  BY <1>1, <3>1 DEF DirtyInv
    <3> QED BY <3>2 DEF DirtyInv, Cutting
  <2>3. \A u \in All : Shrinking(u)' => Shrinking(u)  BY <2>1 DEF Shrinking
  <2>4. \A u \in All : pc'[u] = "setsize" => pc[u] = "setsize" /\ loc'[u].size = loc[u].size
    BY <1>1, <1>4, <2>1
  <2>5. DirtyInv'  BY <1>1, <1>2, <1>5, <1>6, <2>2, <2>3, <2>4, DirtyFrame
  <2>6. t \in Threads /\ pc'[t] = "fsync" => Synced(t, loc[t].todo, loc[t].mods)'
    BY <1>7, <2>1 DEF Synced
  <2>7. SyncedInv'  BY <1>1, <1>4, <1>5, <2>1, <2>6, SyncedStep
  <2> QED BY <2>5, <2>7
<1>9. CASE ~(b * BlockSize >= i_size)
  <2>1. pc'[t] = "write_page" /\ loc'[t].blk = b /\ loc'[t].next = next /\ loc'[t].rest = rest
    <3>1. PICK len : /\ loc' = [loc EXCEPT ![t] = [blk |-> b, len |-> len, next |-> next, rest |-> rest]]
                     /\ pc' = [pc EXCEPT ![t] = "write_page"]
      BY <1>9 DEF bilbyfs_writepage, Goto
    <3> QED BY <3>1 DEF TypeInv, MemInv
  <2>2. Writing(b)'  BY <2>1 DEF Writing
  <2>3. \A u \in All : Shrinking(u)' => Shrinking(u)  BY <1>4, <2>1 DEF Shrinking
  <2>4. \A u \in All : pc'[u] = "setsize" => pc[u] = "setsize" /\ loc'[u].size = loc[u].size
    BY <1>4, <2>1
  <2>5. \A e \in Blocks : page[e].dirty \/ Writing(e) => page'[e].dirty \/ Writing(e)'
    BY <1>4, <1>6, <2>2
  <2>6. DirtyInv'  BY <1>1, <1>2, <1>5, <1>6, <2>3, <2>4, <2>5, DirtyFrame
  <2>7. loc'[t].next = "fsync" => Synced(t, loc[t].rest.todo, loc[t].rest.mods)'
    BY <1>7, <2>1 DEF Synced
  <2>8. SyncedInv'  BY <1>1, <1>4, <1>5, <2>1, <2>7, SyncedStep
  <2> QED BY <2>6, <2>8
<1> QED BY <1>8, <1>9

(* An fsync writes a page, or finds that it need not.                      *)
LEMMA FsyncPageSync ==
    ASSUME Sound, DirtyInv, SyncedInv, NEW t \in All, FsyncPage(t)
    PROVE  DirtyInv' /\ SyncedInv'
<1> USE DEF Sound
<1>0. pc[t] = "fsync" /\ t \in Threads /\ loc[t] \in FsyncLocs
    BY DEF FsyncPage, TypeInv, CallsInv, CallInv
<1>1. PICK b, rest :
        /\ b \in Blocks
        /\ rest = [loc[t] EXCEPT !.todo = @ \ {b}]
        /\ \/ bilbyfs_writepage(t, b, "fsync", rest)
           \/ /\ ~page[b].dirty /\ page[b].lock = None
              /\ loc' = [loc EXCEPT ![t] = rest]
              /\ UNCHANGED <<store_vars, i_size, i_lock, page, eio, pc, file_vars, lost, bounds>>
    BY <1>0 DEF FsyncPage, FsyncLocs
<1>2. rest.todo = loc[t].todo \ {b} /\ rest.mods = loc[t].mods
    BY <1>0, <1>1 DEF FsyncLocs
<1>3. CASE bilbyfs_writepage(t, b, "fsync", rest)  BY <1>0, <1>1, <1>2, <1>3, WritebackSync
<1>4. CASE /\ ~page[b].dirty /\ page[b].lock = None
           /\ loc' = [loc EXCEPT ![t] = rest]
           /\ UNCHANGED <<store_vars, i_size, i_lock, page, eio, pc, file_vars, lost, bounds>>
  <2>1. UNCHANGED <<log, i_size, bytes, mods, page, pc>> /\ Content' = Content
    BY <1>4 DEF store_vars, file_vars, Content
  <2>2. loc'[t] = rest /\ \A u \in All \ {t} : pc'[u] = pc[u] /\ loc'[u] = loc[u]
    BY <1>4 DEF TypeInv, MemInv
  <2>3. \A u \in All \ {t} : ~(pc[u] = "write_page" /\ loc[u].blk = b)
    BY <1>1, <1>4, NotWriting DEF Writing
  <2>4. PICK todo, m : todo = loc[t].todo /\ m = loc[t].mods  OBVIOUS
  <2>5. Synced(t, todo, m)  BY <1>0, <2>4 DEF SyncedInv
  <2>6. Synced(t, todo \ {b}, m)'
    BY <1>4, <2>1, <2>2, <2>3, <2>5, SyncedMore
  <2>7. Synced(t, loc[t].todo, loc[t].mods)'  BY <1>2, <2>2, <2>4, <2>6 DEF Synced
  <2>8. ~Shrinking(t) /\ ~Shrinking(t)'  BY <1>0, <2>1 DEF Shrinking
  <2> QED BY <1>0, <2>1, <2>2, <2>7, <2>8, QuietSync
<1> QED BY <1>1, <1>3, <1>4

(* fsop_truncate stores the new size, and every page is yet to be cut.     *)
LEMMA TruncateSync ==
    ASSUME Sound, DirtyInv, SyncedInv, NEW t \in All, fsop_truncate(t), Unharmed'
    PROVE  DirtyInv' /\ SyncedInv'
<1> USE DEF Sound
<1>1. pc[t] = "truncate" /\ i_lock = t /\ loc[t] \in TruncateLocs /\ UNCHANGED <<page, loc>>
    BY DEF fsop_truncate, TypeInv, CallsInv, CallInv
<1>2. PICK new \in Sizes : new = loc[t].size  BY <1>1 DEF TruncateLocs
<1>3. \A u \in All : ~Shrinking(u)  BY <1>1, Busy DEF Shrinking
<1>4. ASSUME NEW w, Refused(w), UNCHANGED <<i_size, file_vars>>, pc' = [pc EXCEPT ![t] = "idle"]
      PROVE  DirtyInv' /\ SyncedInv'
  <2>1. Content' = Content
    BY <1>4, RefusedFacts DEF TypeInv, MemInv, Content, store_vars
  <2>2. pc'[t] = "idle" /\ \A u \in All \ {t} : pc'[u] = pc[u] /\ loc'[u] = loc[u]
    BY <1>1, <1>4 DEF TypeInv, MemInv
  <2> QED BY <1>1, <1>3, <1>4, <2>1, <2>2, QuietSync DEF file_vars, Shrinking
<1>5. CASE /\ Written(TruncateObjs(Content, i_size, new))
           /\ i_size' = new /\ bytes' = Resized(bytes, new) /\ mods' = mods + 1
           /\ pc' = [pc EXCEPT ![t] = "setattr"]
  <2>1. pc'[t] = "setattr" /\ \A u \in All \ {t} : pc'[u] = pc[u] /\ loc'[u] = loc[u]
    BY <1>1, <1>5 DEF TypeInv, MemInv
  <2>2. Content'[InodeId] = new  BY <1>5, Truncated, Appended DEF TypeInv
  <2>3. Len(bytes') = new /\ new \in Nat
    <3>1. bytes \in Seq(Bytes) /\ new \in Nat  BY FileAssumption DEF TypeInv, MemInv, Sizes
    <3> QED BY <1>5, <3>1, Resize
  <2>4. Len(bytes') <= Content'[InodeId]  BY <2>2, <2>3
  <2>5. \A b \in Blocks : Cutting(b)'  BY <2>1 DEF Cutting, Shrinking
  <2>6. \A u \in All : pc'[u] # "setsize"  BY <1>3, <2>1 DEF Shrinking
  <2>7. DirtyInv'  BY <2>4, <2>5, <2>6 DEF DirtyInv
  <2>8. SyncedInv'  BY <1>5, <2>1, SyncedChanged
  <2> QED BY <2>7, <2>8
<1>6. lost' # lost \cup {"truncate"}  BY DEF Unharmed
<1> QED BY <1>2, <1>4, <1>5, <1>6 DEF fsop_truncate, Goto

(* The size is read and set again; all pages are still to be cut.          *)
LEMMA SizeWriteSync ==
    ASSUME TypeInv, DirtyInv, SyncedInv, NEW t \in All, bilbyfs_setattr(t) \/ i_size_write(t)
    PROVE  DirtyInv' /\ SyncedInv'
<1>1. /\ pc[t] \in {"setattr", "i_size_write"} /\ loc[t] \in TruncateLocs /\ i_lock = t
      /\ UNCHANGED <<log, page, bytes, mods>>
    BY DEF bilbyfs_setattr, i_size_write, TypeInv, CallsInv, CallInv, store_vars, file_vars
<1>2. /\ \A u \in All \ {t} : pc'[u] = pc[u] /\ loc'[u] = loc[u]
      /\ \/ pc'[t] = "i_size_write"
         \/ pc'[t] = "setsize" /\ loc'[t].todo = Blocks /\ loc'[t].size = i_size'
  <2>1. CASE bilbyfs_setattr(t)
    BY <2>1 DEF bilbyfs_setattr, Goto, TypeInv, MemInv
  <2>2. CASE i_size_write(t)
    BY <2>2 DEF i_size_write, Goto, TypeInv, MemInv
  <2> QED BY <2>1, <2>2
<1>3. \A u \in All \ {t} : ~Shrinking(u)
    BY <1>1 DEF Shrinking, TypeInv, CallsInv, CallInv
<1>4. Content' = Content /\ Len(bytes) <= Content[InodeId]
    BY <1>1 DEF Content, DirtyInv, Shrinking
<1>5. \A b \in Blocks : Cutting(b)'  BY <1>2 DEF Cutting, Shrinking
<1>6. ASSUME NEW u \in All, pc'[u] = "setsize" PROVE loc'[u].size <= i_size'
  <2>1. u = t /\ loc'[u].size = i_size'  BY <1>2, <1>3, <1>6 DEF Shrinking
  <2>2. i_size' \in Nat
    <3>1. i_size \in Sizes /\ loc[t].size \in Sizes /\ i_size' \in {i_size, loc[t].size}
      BY <1>1 DEF TruncateLocs, TypeInv, MemInv, bilbyfs_setattr, i_size_write
    <3> QED BY <3>1, FileAssumption DEF Sizes
  <2> QED BY <2>1, <2>2
<1>7. DirtyInv'  BY <1>1, <1>4, <1>5, <1>6 DEF DirtyInv
<1>8. t \in Threads /\ pc'[t] = "fsync" => Synced(t, loc[t].todo, loc[t].mods)'  BY <1>2
<1>9. SyncedInv'  BY <1>1, <1>2, SyncedStep
<1> QED BY <1>7, <1>9

(* The pages that stay begin before the end of the file.                   *)
LEMMA SetsizeSync ==
    ASSUME TypeInv, DirtyInv, SyncedInv, NEW t \in All, truncate_setsize(t)
    PROVE  DirtyInv' /\ SyncedInv'
<1>0. pc[t] = "setsize" /\ loc[t] \in SetsizeLocs /\ page \in [Blocks -> Pages]
    BY DEF truncate_setsize, TypeInv, CallsInv, CallInv, MemInv
<1>s. PICK size \in Nat : size = loc[t].size /\ size <= i_size
    BY <1>0, FileAssumption DEF SetsizeLocs, Sizes, DirtyInv
<1>1. PICK b \in loc[t].todo :
        /\ page' = IF b * BlockSize >= size THEN [page EXCEPT ![b] = NoPage]
                   ELSE IF (b + 1) * BlockSize > size /\ page[b].up
                   THEN [page EXCEPT ![b].data = SubSeq(page[b].data, 1, size - b * BlockSize)
                                                 \o Zeros((b + 1) * BlockSize - size)]
                   ELSE page
        /\ loc' = [loc EXCEPT ![t].todo = @ \ {b}]
        /\ \/ pc' = [pc EXCEPT ![t] = "idle"] /\ loc[t].todo = {b}
           \/ UNCHANGED pc
    BY <1>s DEF truncate_setsize, Goto
<1>2. b \in Blocks /\ UNCHANGED <<log, i_size, bytes, mods>> /\ Content' = Content
    BY <1>0 DEF truncate_setsize, SetsizeLocs, store_vars, file_vars, Content
<1>3. /\ \A u \in All \ {t} : pc'[u] = pc[u] /\ loc'[u] = loc[u]
      /\ loc'[t].todo = loc[t].todo \ {b} /\ loc'[t].size = loc[t].size
      /\ pc'[t] = "setsize" \/ (pc'[t] = "idle" /\ loc[t].todo = {b})
    BY <1>0, <1>1 DEF TypeInv, MemInv, SetsizeLocs
<1>4. \A e \in Blocks \ {b} : Cutting(e) => Cutting(e)'
    BY <1>0, <1>3 DEF Cutting, Shrinking
<1>5. \A e \in Blocks \ {b} : page'[e] = page[e]  BY <1>0, <1>1, <1>2
<1>6. page'[b].dirty => page[b].dirty /\ Off(b) < i_size
  <2>1. Off(b) \in Nat /\ i_size \in Nat  BY <1>2, BlockTypes
  <2>2. CASE b * BlockSize >= size  BY <1>0, <1>1, <1>2, <2>2 DEF NoPage
  <2>3. CASE ~(b * BlockSize >= size)
    <3>1. Off(b) < i_size  BY <1>s, <2>1, <2>3 DEF Off
    <3>2. page' = page \/ \E g : page' = [page EXCEPT ![b].data = g]  BY <1>1, <2>3
    <3> QED BY <1>0, <1>2, <3>1, <3>2 DEF Pages
  <2> QED BY <2>2, <2>3
<1>7. \A e \in Blocks : page'[e].dirty => page[e].dirty  BY <1>5, <1>6
<1>8. \A e \in Blocks : page'[e].dirty /\ Cutting(e) => Cutting(e)' \/ Off(e) < i_size
    BY <1>4, <1>6
<1>9. \A u \in All : Shrinking(u)' => Shrinking(u)  BY <1>0, <1>3 DEF Shrinking
<1>10. \A u \in All : pc'[u] = "setsize" => pc[u] = "setsize" /\ loc'[u].size = loc[u].size
    BY <1>0, <1>3
<1>11. Len(bytes) <= Content[InodeId]  BY <1>0 DEF DirtyInv, Shrinking
<1>12. DirtyInv'  BY <1>2, <1>7, <1>8, <1>9, <1>10, <1>11, DirtyFrame
<1>13. SyncedInv'  BY <1>2, <1>3, <1>7, SyncedStep
<1> QED BY <1>12, <1>13

(* Storing the inode stores the size in memory; failing to changes nothing.*)
LEMMA SetattrSync ==
    ASSUME Sound, DirtyInv, SyncedInv, NEW t \in Threads, SetattrCall(t)
    PROVE  DirtyInv' /\ SyncedInv'
<1> USE DEF Sound
<1> DEFINE c == Apply(Content, <<InodeObj(i_size)>>)
<1>1. UNCHANGED <<i_size, bytes, mods, page, pc, loc>>  BY DEF SetattrCall, file_vars
<1>2. SyncedInv'  BY <1>1 DEF SyncedInv, Synced
<1>3. CASE Written(<<InodeObj(i_size)>>)
  <2>1. log' = Append(log, c)  BY <1>3 DEF Written, WriteObjs
  <2>2. Good(c) /\ c[InodeId] = i_size  BY CurrentGood, WriteInode DEF TypeInv, MemInv
  <2>3. Content' = c  BY <2>1, <2>2, Appended DEF TypeInv
  <2> HIDE DEF c
  <2>4. Len(bytes') <= Content'[InodeId]  BY <1>1, <2>2, <2>3 DEF Current, LengthInv, Long
  <2> QED BY <1>1, <1>2, <2>4 DEF DirtyInv, Cutting, Shrinking
<1>4. CASE Refused({})
  <2>1. Content' = Content  BY <1>4, RefusedFacts DEF TypeInv, MemInv, Content, store_vars
  <2> QED BY <1>1, <1>2, <2>1 DEF DirtyInv, Cutting, Shrinking, Writing
<1> QED BY <1>3, <1>4 DEF SetattrCall

(* After a power failure nothing is dirty and memory has the stored size.  *)
LEMMA CrashSync ==
    ASSUME TypeInv, PowerFailure
    PROVE  DirtyInv' /\ SyncedInv'
<1>1. PICK n \in DOMAIN log :
        log' = <<log[n]>> /\ i_size' = log[n][InodeId] /\ bytes' = Stored(log[n])
    BY DEF PowerFailure
<1>2. Good(log[n])  BY DEF TypeInv, StoreInv
<1>3. Content'[InodeId] = Len(bytes') /\ Len(bytes') \in Nat
    BY <1>1, <1>2, Replaced, StoredFacts, FileAssumption DEF Good, Sizes
<1>4. (\A b \in Blocks : ~page'[b].dirty) /\ \A u \in All : pc'[u] = "idle"
    BY DEF PowerFailure, NoPage
<1>5. Len(bytes') <= Content'[InodeId]  BY <1>3
<1> QED BY <1>4, <1>5 DEF DirtyInv, SyncedInv, Shrinking, All

(* Every step keeps FsyncInv.                                              *)
LEMMA FsyncStep == TypeInv /\ SizeInv /\ PageInv /\ FsyncInv /\ [Next]_vars => FsyncInv'
<1> SUFFICES ASSUME TypeInv, SizeInv, PageInv, FsyncInv, [Next]_vars, Unharmed', ~PowerFailure
             PROVE  DirtyInv' /\ SyncedInv'
    BY CrashSync DEF FsyncInv
<1>s. Sound /\ DirtyInv /\ SyncedInv
    BY LostGrows DEF Sound, PageInv, FsyncInv, Unharmed
<1>0. page \in [Blocks -> Pages] /\ mods \in Nat  BY DEF TypeInv, MemInv
<1>1. ASSUME NEW t \in Threads, NEW n, NEW l, WriteCall(t, n, l) \/ TruncateCall(t, n)
      PROVE  DirtyInv' /\ SyncedInv'
  <2>1. /\ t \in All /\ pc[t] = "idle" /\ UNCHANGED <<log, i_size, bytes, mods, page>>
        /\ \E x \in {"write_begin", "truncate"} : \E y :
            pc' = [pc EXCEPT ![t] = x] /\ loc' = [loc EXCEPT ![t] = y]
    BY <1>1 DEF WriteCall, TruncateCall, Enter, Goto, store_vars, file_vars, All
  <2>2. pc'[t] \in {"write_begin", "truncate"} /\ \A u \in All \ {t} : pc'[u] = pc[u] /\ loc'[u] = loc[u]
    BY <2>1 DEF TypeInv, MemInv
  <2> QED BY <1>s, <2>1, <2>2, QuietSync DEF Content, Shrinking
<1>2. ASSUME NEW t \in Threads, FsyncCall(t) PROVE DirtyInv' /\ SyncedInv'
  <2>1. /\ t \in All /\ pc[t] = "idle" /\ UNCHANGED <<log, i_size, bytes, mods, page>>
        /\ pc' = [pc EXCEPT ![t] = "fsync"]
        /\ loc' = [loc EXCEPT ![t] = [todo |-> Blocks, mods |-> mods]]
    BY <1>2 DEF FsyncCall, Enter, Goto, store_vars, file_vars, All
  <2>2. /\ pc'[t] = "fsync" /\ loc'[t] = [todo |-> Blocks, mods |-> mods]
        /\ \A u \in All \ {t} : pc'[u] = pc[u] /\ loc'[u] = loc[u]
    BY <2>1 DEF TypeInv, MemInv
  <2>3. Synced(t, loc[t].todo, loc[t].mods)'  BY <1>0, <2>1, <2>2 DEF Synced
  <2> QED BY <1>s, <2>1, <2>2, <2>3, QuietSync DEF Content, Shrinking
<1>3. ASSUME NEW t \in All, bilbyfs_write_begin(t) PROVE DirtyInv' /\ SyncedInv'
  <2>1. PICK b \in Blocks : b = loc[t].pos \div BlockSize
    <3>1. loc[t] \in WriteLocs  BY <1>3 DEF bilbyfs_write_begin, TypeInv, CallsInv, CallInv
    <3> QED BY <3>1, WritePos
  <2>2. /\ pc[t] = "write_begin" /\ UNCHANGED <<log, i_size, bytes, mods, loc>>
        /\ \E x \in {"write_end", "idle"} : pc' = [pc EXCEPT ![t] = x]
        /\ \/ UNCHANGED page
           \/ page' = [page EXCEPT ![b].lock = t]
           \/ ~page[b].up /\ \E d : page' = [page EXCEPT ![b] = [NoPage EXCEPT !.up = TRUE, !.lock = t, !.data = d]]
    BY <1>3, <2>1 DEF bilbyfs_write_begin, Goto, store_vars, file_vars
  <2>3. /\ pc'[t] \in {"write_end", "idle"}
        /\ \A u \in All \ {t} : pc'[u] = pc[u] /\ loc'[u] = loc[u]
    BY <2>2 DEF TypeInv, MemInv
  <2>4. \A e \in Blocks : page'[e].dirty = page[e].dirty
    <3>1. ~page[b].up => ~page[b].dirty  BY <1>s DEF Sound, Current, BlockInv
    <3>2. CASE UNCHANGED page  BY <3>2
    <3>3. CASE page' = [page EXCEPT ![b].lock = t]  BY <1>0, <3>3 DEF Pages
    <3>4. ASSUME NEW d, ~page[b].up,
                 page' = [page EXCEPT ![b] = [NoPage EXCEPT !.up = TRUE, !.lock = t, !.data = d]]
          PROVE  \A e \in Blocks : page'[e].dirty = page[e].dirty
      BY <1>0, <3>1, <3>4 DEF NoPage, Pages
    <3> QED BY <2>2, <3>2, <3>3, <3>4
  <2> QED BY <1>s, <2>2, <2>3, <2>4, QuietSync DEF Content, Shrinking
<1>4. ASSUME NEW t \in All, FsyncEnd(t) PROVE DirtyInv' /\ SyncedInv'
    BY <1>s, <1>4, FsyncEndStep, QuietSync DEF Shrinking
<1>5. ASSUME NEW t \in All, Continue(t) PROVE DirtyInv' /\ SyncedInv'
  <2>1. CASE bilbyfs_write_end_writeback(t)  BY <1>s, <2>1, WriteEndSync
  <2>2. CASE WritePage(t)  BY <1>s, <2>2, WritePageSync
  <2>3. CASE FsyncPage(t)  BY <1>s, <2>3, FsyncPageSync
  <2>4. CASE fsop_truncate(t)  BY <1>s, <2>4, TruncateSync
  <2>5. CASE bilbyfs_setattr(t) \/ i_size_write(t)  BY <1>s, <2>5, SizeWriteSync
  <2>6. CASE truncate_setsize(t)  BY <1>s, <2>6, SetsizeSync
  <2> QED BY <1>3, <1>4, <1>5, <2>1, <2>2, <2>3, <2>4, <2>5, <2>6 DEF Continue
<1>6. ASSUME NEW b \in Blocks, pc[Flusher] = "idle", bilbyfs_writepage(Flusher, b, "idle", <<>>)
      PROVE  DirtyInv' /\ SyncedInv'
  <2>1. Flusher \in All  BY DEF All
  <2> QED BY <1>s, <1>6, <2>1, WritebackSync
<1>7. ASSUME NEW b \in Blocks, bilbyfs_readpage(b) \/ ReclaimPage(b) PROVE DirtyInv' /\ SyncedInv'
  <2>1. UNCHANGED <<log, i_size, bytes, mods, pc, loc>> /\ Content' = Content
    BY <1>7 DEF bilbyfs_readpage, ReclaimPage, store_vars, file_vars, Content
  <2>2. \A e \in Blocks : page'[e].dirty = page[e].dirty
    <3>1. ~page[b].up => ~page[b].dirty  BY <1>s DEF Sound, Current, BlockInv
    <3>2. ~page[b].dirty /\ (page' = [page EXCEPT ![b] = NoPage]
                \/ \E d : page' = [page EXCEPT ![b] = [NoPage EXCEPT !.up = TRUE, !.data = d]])
      BY <1>7, <3>1 DEF bilbyfs_readpage, ReclaimPage
    <3>3. CASE page' = [page EXCEPT ![b] = NoPage]
      BY <1>0, <3>2, <3>3 DEF NoPage, Pages
    <3>4. ASSUME NEW d, page' = [page EXCEPT ![b] = [NoPage EXCEPT !.up = TRUE, !.data = d]]
          PROVE  \A e \in Blocks : page'[e].dirty = page[e].dirty
      BY <1>0, <3>2, <3>4 DEF NoPage, Pages
    <3> QED BY <3>2, <3>3, <3>4
  <2>3. \A e \in Blocks : (Cutting(e)' <=> Cutting(e)) /\ (Writing(e)' <=> Writing(e))
    BY <2>1 DEF Cutting, Writing, Shrinking
  <2>4. DirtyInv'  BY <1>s, <2>1, <2>2, <2>3 DEF DirtyInv, Shrinking
  <2>5. SyncedInv'  BY <1>s, <2>1, <2>2 DEF SyncedInv, Synced
  <2> QED BY <2>4, <2>5
<1>8. ASSUME UNCHANGED vars PROVE DirtyInv' /\ SyncedInv'
  <2>1. UNCHANGED <<log, i_size, page, pc, loc, bytes, mods>> /\ Content' = Content
    BY <1>8 DEF vars, store_vars, mem_vars, file_vars, Content
  <2> QED BY <1>s, <2>1 DEF DirtyInv, SyncedInv, Synced, Cutting, Writing, Shrinking
<1> QED BY <1>s, <1>1, <1>2, <1>5, <1>6, <1>7, <1>8, SetattrSync DEF Next

(* When no page is dirty or being written and the stored size is large     *)
(* enough, the store has the file.                                         *)
LEMMA CleanStored ==
    ASSUME Sound, Len(bytes) <= Content[InodeId],
           \A b \in Blocks : ~page[b].dirty /\ ~Writing(b)
    PROVE  Honours(Stored(Content))
<1> USE DEF Sound
<1> DEFINE s == Stored(Content)
<1>1. Good(Content)  BY CurrentGood DEF TypeInv
<1>2. Len(s) = Content[InodeId] /\ Content[InodeId] \in Nat
    BY <1>1, StoredFacts, FileAssumption DEF Good, Sizes
<1>3. /\ bytes \in Seq(Bytes) /\ Len(bytes) \in Nat /\ DOMAIN bytes = 1 .. Len(bytes)
      /\ i_size \in Sizes /\ i_size \in Nat /\ Len(bytes) <= i_size
    BY FileAssumption DEF TypeInv, MemInv, Current, LengthInv, Long, Sizes
<1>4. ASSUME NEW k \in 1 .. Len(bytes)
      PROVE  (bytes[k] = 1 => s[k] = 1) /\ (lost = {} /\ s[k] = 1 => bytes[k] = 1)
  <2>1. k \in 1 .. i_size /\ k <= Content[InodeId]  BY <1>2, <1>3
  <2>2. PICK b \in Blocks, j \in 1 .. BlockSize : k = Off(b) + j  BY <1>3, <2>1, Position
  <2>3. s[k] = read_block(Content, b)[j]  BY <1>1, <2>1, <2>2, StoredFacts
  <2>4. StoreRight(b, j)  BY DEF Current, BlockInv
  <2>5. Has(Off(b) + j) <=> bytes[k] = 1  BY <2>2 DEF Has
  <2> QED BY <2>3, <2>4, <2>5 DEF StoreRight
<1>5. ASSUME lost = {} PROVE Len(s) = Len(bytes)
  <2>1. Fitting /\ i_size = Len(bytes)  BY <1>5 DEF Fitting, Current, LengthInv, Long
  <2>2. Content[InodeId] <= Len(bytes)  BY <2>1 DEF SizeInv
  <2> QED BY <1>2, <1>3, <2>2
<1>6. Len(bytes) <= Len(s)  BY <1>2
<1> HIDE DEF s
<1>7. Honours(s)  BY <1>3, <1>4, <1>5, <1>6 DEF Honours
<1> QED BY <1>7 DEF s

(* bilbyfs_fsync returns 0 only through ostore_sync, if no object is lost. *)
LEMMA FsyncReturn ==
    ASSUME TypeInv, [Next]_vars, NEW t \in Threads, Unharmed,
           pc[t] = "fsync", pc'[t] = "idle", ~eio, fails' = fails, crashes' = crashes
    PROVE  FsyncEnd(t) /\ SyncObjs
<1>0. t \in All /\ fails \in Nat /\ crashes \in Nat  BY DEF All, TypeInv, MemInv
<1>r. ASSUME NEW w, Refused(w) PROVE FALSE
    BY <1>r, RefusedFacts DEF TypeInv, MemInv
<1>1. ASSUME NEW u \in All, u # t, NEW x, pc' = [pc EXCEPT ![u] = x] PROVE FALSE
    BY <1>0, <1>1 DEF TypeInv, MemInv
<1>2. ASSUME UNCHANGED pc PROVE FALSE  BY <1>2
<1>3. ~UNCHANGED vars  BY <1>2 DEF vars, mem_vars
<1>4. ~PowerFailure  BY <1>0 DEF PowerFailure
<1>5. ASSUME NEW u \in All, Continue(u) PROVE FsyncEnd(t)
  <2>1. CASE u = t
    <3>1. ~FsyncPage(t)
      <4>1. ASSUME NEW b, NEW r, bilbyfs_writepage(t, b, "fsync", r) PROVE FALSE
        <5>1. UNCHANGED pc \/ pc' = [pc EXCEPT ![t] = "write_page"]
          BY <4>1 DEF bilbyfs_writepage, Goto
        <5> QED BY <1>0, <5>1 DEF TypeInv, MemInv
      <4> QED BY <4>1 DEF FsyncPage
    <3> QED BY <1>5, <2>1, <3>1 DEF Continue, bilbyfs_write_begin, bilbyfs_write_end_writeback,
                WritePage, fsop_truncate, bilbyfs_setattr, i_size_write, truncate_setsize
  <2>2. CASE u # t
    <3>1. UNCHANGED pc \/ \E x : pc' = [pc EXCEPT ![u] = x]
      <4>1. ASSUME NEW b, NEW r, bilbyfs_writepage(u, b, "fsync", r)
            PROVE  UNCHANGED pc \/ \E x : pc' = [pc EXCEPT ![u] = x]
        BY <4>1 DEF bilbyfs_writepage, Goto
      <4>2. CASE FsyncPage(u)  BY <4>1, <4>2 DEF FsyncPage
      <4> QED BY <1>5, <4>2 DEF Continue, bilbyfs_write_begin, bilbyfs_write_end_writeback, WritePage,
                  FsyncEnd, fsop_truncate, bilbyfs_setattr, i_size_write, truncate_setsize, Goto
    <3> QED BY <1>1, <1>2, <2>2, <3>1
  <2> QED BY <2>1, <2>2
<1>6. ASSUME NEW u \in Threads, NEW n, NEW l,
             WriteCall(u, n, l) \/ TruncateCall(u, n) \/ FsyncCall(u) \/ SetattrCall(u)
      PROVE  FALSE
  <2>1. UNCHANGED pc \/ (pc[u] = "idle" /\ \E x : pc' = [pc EXCEPT ![u] = x])
    BY <1>6 DEF WriteCall, TruncateCall, FsyncCall, SetattrCall, Enter, Goto
  <2> QED BY <1>1, <1>2, <2>1 DEF All
<1>7. ASSUME NEW b, bilbyfs_writepage(Flusher, b, "idle", <<>>) \/ bilbyfs_readpage(b) \/ ReclaimPage(b)
      PROVE  FALSE
  <2>1. UNCHANGED pc \/ \E x : pc' = [pc EXCEPT ![Flusher] = x]
    BY <1>7 DEF bilbyfs_writepage, bilbyfs_readpage, ReclaimPage, Goto
  <2> QED BY <1>1, <1>2, <2>1, ThreadAssumption DEF All
<1>8. FsyncEnd(t)
    BY <1>3, <1>4, <1>5, <1>6, <1>7 DEF Next
<1> QED BY <1>8, <1>r DEF FsyncEnd, Unharmed

(* When bilbyfs_fsync returns 0 everything that was written before is on   *)
(* the flash in every state a power failure can leave, if the file was not *)
(* changed meanwhile and no earlier call reported a damage: for any number *)
(* of threads and blocks, in whatever order and by whomever the pages were *)
(* written, and whatever write-back and truncations did to each other.     *)
THEOREM FsyncDurableHolds == Spec => FsyncDurable
<1> DEFINE Durable ==
        \A t \in Threads :
            pc[t] = "fsync" /\ pc'[t] = "idle" /\ ~eio /\ fails' = fails /\ Unharmed
                /\ mods = loc[t].mods /\ crashes' = crashes
            => \A n \in DOMAIN log' : Honours(Stored(log'[n]))
<1>1. TypeInv /\ SizeInv /\ PageInv /\ FsyncInv /\ [Next]_vars => [Durable]_vars
  <2> SUFFICES ASSUME TypeInv, SizeInv, PageInv, FsyncInv, [Next]_vars, NEW t \in Threads,
                      pc[t] = "fsync", pc'[t] = "idle", ~eio, fails' = fails, Unharmed,
                      mods = loc[t].mods, crashes' = crashes
               PROVE  \A n \in DOMAIN log' : Honours(Stored(log'[n]))
    OBVIOUS
  <2>1. FsyncEnd(t) /\ SyncObjs  BY FsyncReturn
  <2>2. Sound /\ DirtyInv /\ SyncedInv  BY DEF Sound, PageInv, FsyncInv
  <2>3. Synced(t, {}, mods)  BY <2>1, <2>2 DEF SyncedInv, FsyncEnd
  <2>4. \A b \in Blocks : ~page[b].dirty /\ ~Writing(b)
    BY <2>3 DEF Synced, Writing
  <2>5. Len(bytes) <= Content[InodeId]  BY <2>2, <2>4 DEF DirtyInv
  <2>6. Honours(Stored(Content))  BY <2>2, <2>4, <2>5, CleanStored
  <2>7. Good(Content) /\ log' = <<Content>>  BY <2>1, CurrentGood DEF TypeInv, SyncObjs
  <2>8. \A n \in DOMAIN log' : log'[n] = Content  BY <2>7, Replaced
  <2> QED BY <2>6, <2>8
<1>2. Init => FsyncInv
  <2> SUFFICES ASSUME Init PROVE DirtyInv /\ SyncedInv  BY DEF FsyncInv
  <2>1. (\A b \in Blocks : ~page[b].dirty) /\ \A u \in All : pc[u] = "idle"
    BY DEF Init, NoPage
  <2>2. Len(bytes) <= Content[InodeId]
    <3> DEFINE c == [Empty EXCEPT ![InodeId] = 0]
    <3>1. c[InodeId] = 0  BY FileAssumption DEF Empty
    <3>2. log = <<c>> /\ bytes = <<>>  BY DEF Init
    <3> HIDE DEF c
    <3> QED BY <3>1, <3>2 DEF Content
  <2> QED BY <2>1, <2>2 DEF DirtyInv, SyncedInv, Shrinking, All
<1>3. Spec => [][Durable]_vars
  BY InitType, InitSize, InitPage, TypeStep, SizeStep, PageStep, FsyncStep, <1>1, <1>2, PTL DEF Spec
<1> QED BY <1>3 DEF FsyncDurable
=============================================================================
