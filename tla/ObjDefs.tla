------------------------------ MODULE ObjDefs ------------------------------
(***************************************************************************)
(* The object layer of BilbyFs (bilbyfs.h, packobj.c): the types the store *)
(* itself writes, transaction marks, object sizes and the geometry of the  *)
(* UBI volume.  Every other module of the object store extends this one.   *)
(*                                                                         *)
(* An object keeps what the store looks at: type, identifier, length,      *)
(* sequence number, position in its transaction.  The payload is a number  *)
(* val, the version a client wrote, so that two versions can be told apart.*)
(***************************************************************************)
EXTENDS ObjIds, FiniteSets

CONSTANTS
    LogFstLnum,      \* BILBYFS_LOG_FST_LNUM: first LEB of the log
    LebCnt,          \* super.leb_cnt
    LebSize,         \* super.leb_size
    MinIoSize,       \* super.min_io_size: the flash page
    ObjPadding,      \* BILBYFS_OBJ_PADDING
    ChSz,            \* BILBYFS_CH_SZ = BILBYFS_MIN_OBJ_SZ
    SumSz,           \* BILBYFS_SUM_SZ
    SumEntrySz,      \* BILBYFS_SUM_ENTRY_SZ
    SumOffsSz,       \* BILBYFS_OBJ_SUM_OFFS_SZ
    MaxObjPerTrans,  \* BILBYFS_MAX_OBJ_PER_TRANS
    NbReservedGc,    \* super.nb_reserved_gc
    NbReservedDel,   \* super.nb_reserved_del
    U32,             \* modulus of a 32 bit counter
    U16              \* modulus of a 16 bit counter

\* The shape of the volume that ubi_get_volume_info() and mount_check_super()
\* leave: whole pages, whole padding units, a log of at least two LEBs.
ASSUME GeometryAssumption ==
    /\ LogFstLnum \in Nat \ {0} /\ LebCnt \in Nat /\ LogFstLnum + 2 <= LebCnt
    /\ NbReservedGc \in Nat /\ NbReservedDel \in Nat
    /\ NbReservedGc + NbReservedDel + 2 <= LebCnt
    /\ LebSize \in Nat /\ MinIoSize \in Nat \ {0} /\ ObjPadding \in Nat \ {0}
    /\ LebSize % MinIoSize = 0 /\ LebSize % ObjPadding = 0
    /\ MinIoSize % ObjPadding = 0 /\ MinIoSize <= LebSize
    /\ ChSz \in Nat \ {0} /\ SumSz \in Nat /\ SumEntrySz \in Nat /\ SumOffsSz \in Nat
    /\ MaxObjPerTrans \in Nat \ {0}
    /\ U32 \in Nat \ {0} /\ U16 \in Nat \ {0} /\ NbXinfo \in Nat \ {0}
    /\ Ids \subseteq Nat \ {0}

\* The identifiers a client uses are those of inodes, data and dentarrs
\* (inode_id_init, data_id_init and dentarr_id_init of obj.h).
ASSUME IdsAssumption == \A x \in Ids : type_from_id(x) \in IndexedTypes

Lnums == LogFstLnum .. (LebCnt - 1)      \* the LEBs of the log

----------------------------------------------------------------------------
(* Object types (enum of bilbyfs.h).  "raw" stands for the run of          *)
(* BILBYFS_PAD_BYTE written where no header fits, "torn" for an object     *)
(* whose pages were only partly programmed.                                *)

PAD == 4
SUM == 6
RAW == 7
TORN == 8
Types == IndexedTypes \cup {PAD, DEL, SUM, RAW, TORN}

(* Transaction marks.                                                      *)
TRANS_ST == 1
TRANS_IN == 2
TRANS_END == 4
TRANS_ATOM == 5

get_obj_trans(count, i) ==
    IF count = 1 THEN TRANS_ATOM
    ELSE IF i = 1 THEN TRANS_ST
    ELSE IF i = count THEN TRANS_END ELSE TRANS_IN

(* check_trans_pos: what the mark pos means once n objects of the current  *)
(* transaction have been read.                                             *)
\* Mutant of check_trans_pos: every object ends a transaction.
Mutant_trans_pos(n, pos) == "last"
check_trans_pos(n, pos) ==
    IF (pos \in {TRANS_ATOM, TRANS_ST}) # (n = 0) THEN "invalid"
    ELSE IF pos \in {TRANS_ATOM, TRANS_END} THEN "last" ELSE "more"

----------------------------------------------------------------------------
ALIGN(n, a) == ((n + a - 1) \div a) * a

(* Size of a summary of n entries, and of one that has room for extra more.*)
obj_sum_size(n) == ALIGN(SumSz + n * SumEntrySz + SumOffsSz, ObjPadding)
obj_sum_size_with_extra(n, extra) ==
    ALIGN(obj_sum_size(n) + extra * SumEntrySz, ObjPadding)

(* Address of an object (struct obj_addr); sqnum 0 marks "no address".     *)
Addr == [lnum : Nat, offs : Nat, len : Nat, sqnum : Nat]
NoAddr == [lnum |-> 0, offs |-> 0, len |-> 0, sqnum |-> 0]

(* Entry of a summary (struct obj_sum_entry).                              *)
SumEntry == [id : Ids, sqnum : Nat, len : Nat, offs : Nat,
             del : BOOLEAN, count : Nat]

(* An object in a buffer or on the flash.  ents is the body of a summary.  *)
Item == [type : Types, id : Ids \cup {NIL_ID}, len : Nat, offs : Nat,
         sqnum : Nat, trans : Nat, val : Nat, ents : Seq(SumEntry)]

PadItem(offs, len, sqnum) ==
    [type |-> PAD, id |-> NIL_ID, len |-> len, offs |-> offs, sqnum |-> sqnum,
     trans |-> TRANS_ATOM, val |-> 0, ents |-> <<>>]
RawItem(offs, len) == [PadItem(offs, len, 0) EXCEPT !.type = RAW]
SumItem(offs, len, sqnum, ents) ==
    [PadItem(offs, len, sqnum) EXCEPT !.type = SUM, !.ents = ents]

(* What fills len bytes at offs: a pad object when a header fits, a run of *)
(* pad bytes when it does not, nothing when there is nothing to fill.      *)
Padding(offs, len, sqnum) ==
    IF len = 0 THEN <<>>
    ELSE IF len < ChSz THEN <<RawItem(offs, len)>>
    ELSE <<PadItem(offs, len, sqnum)>>

(* The sequence numbers the padding consumes: one if it is a pad object.   *)
PadSqnums(len) == IF len < ChSz THEN 0 ELSE 1
=============================================================================
