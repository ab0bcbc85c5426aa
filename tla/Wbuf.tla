-------------------------------- MODULE Wbuf --------------------------------
(***************************************************************************)
(* The write buffer (wbuf.c) and the flash below it.  The buffer collects  *)
(* the objects of the LEB being filled; a commit programs the pages between*)
(* sync_offs and used.  The flash (UBI, external) only knows sequential    *)
(* page writes to an LEB and whole-LEB erasure; a power failure during a   *)
(* write leaves the pages programmed so far.                               *)
(***************************************************************************)
EXTENDS ObjDefs, SequencesExt

VARIABLES
    flash,       \* UBI: the objects programmed in each LEB, <<>> when unmapped
    buf,         \* wbuf.buf: the objects below wbuf.used
    used,        \* wbuf.used
    avail,       \* wbuf.avail
    sync_offs,   \* wbuf.sync_offs
    sync_n       \* number of objects of buf below sync_offs

wbuf_vars == <<buf, used, avail, sync_offs, sync_n>>

(* ubi_is_mapped                                                           *)
ubi_is_mapped(lnum) == flash[lnum] # <<>>

(* The bytes the objects of s reach to.                                    *)
EndOffs(s) == IF s = <<>> THEN 0 ELSE s[Len(s)].offs + s[Len(s)].len

(* The buffer as wbuf_init leaves it: nothing may be written to it.        *)
wbuf_init ==
    buf = <<>> /\ used = 0 /\ avail = 0 /\ sync_offs = 0 /\ sync_n = 0
wbuf_reset ==
    buf' = <<>> /\ used' = 0 /\ avail' = 0 /\ sync_offs' = 0 /\ sync_n' = 0

\* Mutant of wbuf_start: the synchronised offset of the last LEB is kept.
Mutant_wbuf_start ==
    buf' = <<>> /\ used' = 0 /\ avail' = LebSize /\ UNCHANGED <<sync_offs, sync_n>>
wbuf_start ==
    buf' = <<>> /\ used' = 0 /\ avail' = LebSize /\ sync_offs' = 0 /\ sync_n' = 0

(* wbuf_write_obj, when the object fits.                                   *)
wbuf_write_obj(o) ==
    /\ buf' = Append(buf, [o EXCEPT !.offs = used])
    /\ used' = used + o.len
    /\ avail' = avail - o.len
    /\ UNCHANGED <<sync_offs, sync_n>>

(* wbuf_prepare_commit: the padding up to the next page.                   *)
CommitPadSize == ALIGN(used, MinIoSize) - used

(* The objects a commit programs, when the buffer has grown to b.          *)
\* Mutant of wbuf_commit: the whole buffer is written again.
Mutant_Pending(b) == b
Pending(b) == SubSeq(b, sync_n + 1, Len(b))

(* A power failure while the objects of s are programmed from sync_offs    *)
(* on, with pages pages done: an object that ends in a programmed page is  *)
(* there, one that only starts in one has a header and a wrong CRC, a run  *)
(* of pad bytes is just shorter.                                           *)
TornPrefix(s, pages) ==
    LET limit == sync_offs + pages * MinIoSize
        Cut(o) == CASE o.offs + o.len <= limit -> o
                    [] o.type = RAW -> [o EXCEPT !.len = limit - o.offs]
                    [] OTHER -> [o EXCEPT !.type = TORN]
    IN [k \in 1 .. Cardinality({j \in DOMAIN s : s[j].offs < limit}) |-> Cut(s[k])]

(* wbuf_read_sum: the summary of an LEB, found through the last word.      *)
HasSummary(lnum) ==
    LET last == flash[lnum][Len(flash[lnum])]
    IN last.type = SUM /\ EndOffs(flash[lnum]) = LebSize

(* wbuf_erase: ubi_leb_erase                                               *)
wbuf_erase(lnum) == flash' = [flash EXCEPT ![lnum] = <<>>]
=============================================================================
