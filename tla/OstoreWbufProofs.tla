-------------------------- MODULE OstoreWbufProofs --------------------------
(***************************************************************************)
(* The types of the object store, the write buffer against the flash, and  *)
(* the order in which the flash is programmed.                             *)
(*                                                                         *)
(* The types of Ostore are not inductive as they stand: an object that is  *)
(* read back from the flash is indexed by its identifier, so the flash, the*)
(* buffer and the lists must hold objects that have one (LogItem); an      *)
(* object is indexed under the LEB being filled, so there must be one      *)
(* (OpenInv); and how much is in the buffer follows from where the objects *)
(* in it are (WbufInv with Contiguous).  TypeInv is the conjunction; it is *)
(* preserved together with LogInv of OstoreProofs.                         *)
(***************************************************************************)
EXTENDS OstoreProofs, SequenceTheorems

(* The types of objects a client writes; an object of such a type has an   *)
(* identifier, on the flash as well.                                       *)
ClientTypes == IndexedTypes \cup {DEL}
LogItem == {o \in Item : o.type \in ClientTypes => o.id \in Ids}
LiveItem == {o \in LogItem : o.type \in ClientTypes}
LiveOp == {o \in Op : o.objs \in Seq(LiveItem) /\ o.i >= 1}

(* Addresses in the log, and jobs that concern one.                        *)
LogAddr == [lnum : Lnums, offs : Nat, len : Nat, sqnum : Nat]
LogJob == {j \in Job : j.addr \in LogAddr}

(* The types of the variables, in the groups the actions change them in.   *)
FlashType == flash \in [Lnums -> Seq(LogItem)]
SuperType ==
    super \in Nat /\ super_sqnum \in Nat /\ formatting \in BOOLEAN /\ next_sqnum \in Nat
BufType ==
    /\ buf \in Seq(LogItem) /\ used \in Nat /\ avail \in Nat
    /\ sync_offs \in Nat /\ sync_n \in Nat
DirtyType == dirty_list \in [Lnums -> Nat]
IndexType == idx \in [Ids -> LogAddr \cup {NoAddr}] /\ gim \in [Ids -> GimNode]
OpType == op \in LiveOp /\ caller \in Seq(LiveOp) /\ Len(caller) <= 1
ControlType ==
    /\ pc \in Labels /\ sforce \in BOOLEAN /\ sret \in Labels /\ dret \in Labels
    /\ pc = "gcgim" => caller # <<>>
GcType ==
    /\ gc_lnum \in Lnums \cup {0} /\ gc_list \in Seq(LogItem) /\ gc_valid \in Seq(LiveItem)
    /\ scan \in Seq(LogItem)
MountType ==
    mq \in Seq(LogJob) /\ del_list \in Seq(LogJob) /\ tot_used \in Nat /\ mlnum \in Nat
DelType == dcur \in Ids \cup {NIL_ID} /\ del \in Job
SummaryType == summary \in Seq(SumEntry)
GhostType ==
    hist \in Seq([Ids -> Int]) /\ hist # <<>> /\ nsync \in Nat /\ stale \in BOOLEAN
BoundsType == ntxn \in Nat /\ ncrash \in Nat /\ nunmount \in Nat /\ nfail \in Nat

(* While a list is written into the buffer, and its objects are indexed,   *)
(* there is an LEB being filled.                                           *)
Filling ==
    \/ pc \in {"presync", "pack", "write", "pool", "index"}
    \/ pc = "sync" /\ sret \in {"pack", "alloc", "pool"}
    \/ pc = "del" /\ dret = "index"
OpenInv == Filling => fsm_lnum # 0

(* Sequences of objects each of which begins where the one before it ends. *)
Contiguous ==
    {s \in Seq(LogItem) :
        /\ \A k \in DOMAIN s :
            s[k].offs = IF k = 1 THEN 0 ELSE s[k - 1].offs + s[k - 1].len
        /\ \A j, k \in DOMAIN s : j < k => s[j].offs + s[j].len <= s[k].offs}
(* The buffer starts with what is on the flash, in as many objects as      *)
(* sync_n says, and its objects lie one behind the other.                  *)
WbufInv ==
    fsm_lnum # 0 =>
        /\ used + avail = LebSize /\ sync_offs <= used
        /\ used = EndOffs(buf) /\ sync_offs = EndOffs(flash[fsm_lnum])
        /\ sync_n <= Len(buf) /\ flash[fsm_lnum] = SubSeq(buf, 1, sync_n)
        /\ buf \in Contiguous
(* The inductive invariant.                                                *)
TypeInv ==
    /\ FlashType /\ SuperType /\ BufType /\ DirtyType /\ IndexType /\ OpType
    /\ ControlType /\ GcType /\ MountType /\ DelType /\ SummaryType /\ GhostType
    /\ BoundsType /\ OpenInv /\ WbufInv

(* Objects of a client are objects of the log, and those are objects.      *)
LEMMA LiveSub == LiveItem \subseteq LogItem /\ LogItem \subseteq Item
BY DEF LiveItem, LogItem

(* ALIGN rounds up to the next multiple.                                   *)
LEMMA AlignFacts ==
    ASSUME NEW n \in Nat, NEW a \in Nat \ {0}
    PROVE  /\ ALIGN(n, a) \in Nat /\ n <= ALIGN(n, a) /\ ALIGN(n, a) < n + a
           /\ ALIGN(n, a) % a = 0
<1> DEFINE q == (n + a - 1) \div a
           r == (n + a - 1) % a
<1>1. q \in Nat /\ r \in 0 .. a - 1 /\ n + a - 1 = q * a + r  OBVIOUS
<1>2. (q * a) % a = 0  BY <1>1
<1> HIDE DEF q, r
<1>3. ALIGN(n, a) = q * a  BY DEF ALIGN, q
<1>4. q * a \in Nat BY <1>1
<1> QED BY <1>1, <1>2, <1>3, <1>4

(* obj_sum_size is a size.                                                 *)
LEMMA SumSizeNat ==
    ASSUME NEW n \in Nat
    PROVE  obj_sum_size(n) \in Nat
<1> DEFINE m == SumSz + n * SumEntrySz + SumOffsSz
<1>1. n * SumEntrySz \in Nat  BY GeometryAssumption
<1>2. m \in Nat  BY <1>1, GeometryAssumption
<1> HIDE DEF m
<1>3. ALIGN(m, ObjPadding) \in Nat  BY <1>2, AlignFacts, GeometryAssumption
<1> QED BY <1>3 DEF obj_sum_size, m

(* Objects that no client wrote need no identifier.                        *)
LEMMA NotClient ==
    \A o \in Item : o.type \in {PAD, RAW, SUM, TORN} => o \in LogItem
BY DEF LogItem, ClientTypes, IndexedTypes, PAD, RAW, SUM, TORN, DEL, INODE, DATA, DENTARR

(* The padding and the summary are well-formed objects.                    *)
LEMMA PadItemFacts ==
    ASSUME NEW offs \in Nat, NEW len \in Nat, NEW sqnum \in Nat
    PROVE  /\ PadItem(offs, len, sqnum) \in LogItem
           /\ PadItem(offs, len, sqnum).offs = offs /\ PadItem(offs, len, sqnum).len = len
<1> DEFINE o == PadItem(offs, len, sqnum)
           Q == Seq(SumEntry)
<1>1. <<>> \in Q  OBVIOUS
<1> HIDE DEF Q
<1>2. o \in [type : Types, id : Ids \cup {NIL_ID}, len : Nat, offs : Nat,
             sqnum : Nat, trans : Nat, val : Nat, ents : Q]
    BY <1>1 DEF PadItem, Types, TRANS_ATOM
<1>3. o \in Item  BY <1>2 DEF Item, Q
<1>4. o.type = PAD /\ o.offs = offs /\ o.len = len  BY DEF PadItem
<1> QED BY <1>3, <1>4, NotClient

(* Pad bytes are a well-formed object of the given place and length.       *)
LEMMA RawItemFacts ==
    ASSUME NEW offs \in Nat, NEW len \in Nat
    PROVE  /\ RawItem(offs, len) \in LogItem
           /\ RawItem(offs, len).offs = offs /\ RawItem(offs, len).len = len
<1> DEFINE o == RawItem(offs, len)
           Q == Seq(SumEntry)
<1>1. <<>> \in Q  OBVIOUS
<1> HIDE DEF Q
<1>2. o \in [type : Types, id : Ids \cup {NIL_ID}, len : Nat, offs : Nat,
             sqnum : Nat, trans : Nat, val : Nat, ents : Q]
    BY <1>1 DEF RawItem, PadItem, Types, TRANS_ATOM
<1>3. o \in Item  BY <1>2 DEF Item, Q
<1>4. o.type = RAW /\ o.offs = offs /\ o.len = len  BY DEF RawItem, PadItem
<1> QED BY <1>3, <1>4, NotClient

(* A summary is a well-formed object of the given place and length.        *)
LEMMA SumItemFacts ==
    ASSUME NEW offs \in Nat, NEW len \in Nat, NEW sqnum \in Nat, NEW ents \in Seq(SumEntry)
    PROVE  /\ SumItem(offs, len, sqnum, ents) \in LogItem
           /\ SumItem(offs, len, sqnum, ents).offs = offs
           /\ SumItem(offs, len, sqnum, ents).len = len
<1> DEFINE o == SumItem(offs, len, sqnum, ents)
           Q == Seq(SumEntry)
<1>1. ents \in Q  OBVIOUS
<1> HIDE DEF Q
<1>2. o \in [type : Types, id : Ids \cup {NIL_ID}, len : Nat, offs : Nat,
             sqnum : Nat, trans : Nat, val : Nat, ents : Q]
    BY <1>1 DEF SumItem, PadItem, Types, TRANS_ATOM
<1>3. o \in Item  BY <1>2 DEF Item, Q
<1>4. o.type = SUM /\ o.offs = offs /\ o.len = len  BY DEF SumItem, PadItem
<1> QED BY <1>3, <1>4, NotClient

(* A sequence of objects reaches to some offset.                           *)
LEMMA EndOffsNat == \A s \in Seq(LogItem) : EndOffs(s) \in Nat
<1> SUFFICES ASSUME NEW s \in Seq(LogItem), s # <<>> PROVE EndOffs(s) \in Nat  BY DEF EndOffs
<1>1. s[Len(s)] \in LogItem  OBVIOUS
<1>2. s[Len(s)].offs \in Nat /\ s[Len(s)].len \in Nat  BY <1>1 DEF LogItem, Item
<1> QED BY <1>2 DEF EndOffs

(* An object that begins where a sequence ends can be put behind it.       *)
LEMMA ContiguousAppend ==
    ASSUME NEW s \in Contiguous, NEW o \in LogItem, o.offs = EndOffs(s),
           NEW t, t = s \o <<o>>
    PROVE  /\ t \in Contiguous /\ Len(t) = Len(s) + 1
           /\ EndOffs(t) = EndOffs(s) + o.len
           /\ \A k \in 1 .. Len(s) : t[k] = s[k]
<1>0. s \in Seq(LogItem)  BY DEF Contiguous
<1>1. /\ t \in Seq(LogItem) /\ Len(t) = Len(s) + 1 /\ t # <<>>
      /\ \A k \in 1 .. Len(s) : t[k] = s[k]
      /\ t[Len(s) + 1] = o
    BY <1>0, AppendProperties, AppendIsConcat
<1>2. EndOffs(t) = EndOffs(s) + o.len  BY <1>0, <1>1 DEF EndOffs
<1>3. ASSUME NEW k \in DOMAIN t
      PROVE  t[k].offs = IF k = 1 THEN 0 ELSE t[k - 1].offs + t[k - 1].len
  <2>1. CASE k \in 1 .. Len(s)
    <3>1. k \in DOMAIN s /\ t[k] = s[k] /\ (k # 1 => t[k - 1] = s[k - 1])  BY <1>0, <1>1, <2>1
    <3> QED BY <3>1 DEF Contiguous
  <2>2. CASE k = Len(s) + 1
    <3>1. CASE Len(s) = 0
      <4>1. s = <<>>  BY <1>0, <3>1
      <4> QED BY <1>1, <2>2, <3>1, <4>1 DEF EndOffs
    <3>2. CASE Len(s) # 0
      <4>1. s # <<>> /\ k # 1 /\ t[k - 1] = s[Len(s)] /\ t[k] = o  BY <1>0, <1>1, <2>2, <3>2
      <4> QED BY <4>1 DEF EndOffs
    <3> QED BY <3>1, <3>2
  <2> QED BY <1>0, <1>1, <2>1, <2>2
<1>4. ASSUME NEW j \in DOMAIN t, NEW k \in DOMAIN t, j < k
      PROVE  t[j].offs + t[j].len <= t[k].offs
  <2>1. j \in DOMAIN s /\ t[j] = s[j] /\ s # <<>>  BY <1>0, <1>1, <1>4
  <2>2. CASE k \in 1 .. Len(s)
    <3>1. k \in DOMAIN s /\ t[k] = s[k]  BY <1>0, <1>1, <2>2
    <3> QED BY <1>4, <2>1, <3>1 DEF Contiguous
  <2>3. CASE k = Len(s) + 1
    <3>1. t[k] = o /\ o.offs = s[Len(s)].offs + s[Len(s)].len  BY <1>1, <2>1, <2>3 DEF EndOffs
    <3>2. CASE j = Len(s)
      <4>1. o.offs \in Nat BY DEF LogItem, Item
      <4> QED BY <2>1, <3>1, <3>2, <4>1
    <3>3. CASE j # Len(s)
      <4>1. j < Len(s) /\ Len(s) \in DOMAIN s  BY <1>0, <2>1, <3>3
      <4>2. s[j].offs + s[j].len <= s[Len(s)].offs  BY <2>1, <4>1 DEF Contiguous
      <4>3. \A i \in DOMAIN s : s[i].offs \in Nat /\ s[i].len \in Nat
        <5>1. \A x \in LogItem : x.offs \in Nat /\ x.len \in Nat  BY DEF LogItem, Item
        <5>2. \A i \in DOMAIN s : s[i] \in LogItem  BY <1>0
        <5> QED BY <5>1, <5>2
      <4> QED BY <2>1, <3>1, <4>1, <4>2, <4>3, SMTT(30)
    <3> QED BY <3>2, <3>3
  <2> QED BY <1>0, <1>1, <2>2, <2>3
<1>5. t \in Contiguous  BY <1>1, <1>3, <1>4 DEF Contiguous
<1> QED BY <1>1, <1>2, <1>5

(* Padding fills what it is asked to fill, with at most one object.        *)
LEMMA PaddingFacts ==
    ASSUME NEW e \in Nat, NEW n \in Nat, NEW sqnum \in Nat
    PROVE  \/ n = 0 /\ Padding(e, n, sqnum) = <<>>
           \/ \E o \in LogItem : Padding(e, n, sqnum) = <<o>> /\ o.offs = e /\ o.len = n
<1>1. /\ PadItem(e, n, sqnum) \in LogItem
      /\ PadItem(e, n, sqnum).offs = e /\ PadItem(e, n, sqnum).len = n
    BY PadItemFacts
<1>2. /\ RawItem(e, n) \in LogItem
      /\ RawItem(e, n).offs = e /\ RawItem(e, n).len = n
    BY RawItemFacts
<1>3. n # 0 => \/ Padding(e, n, sqnum) = <<RawItem(e, n)>>
               \/ Padding(e, n, sqnum) = <<PadItem(e, n, sqnum)>>
    BY DEF Padding
<1>4. n = 0 => Padding(e, n, sqnum) = <<>>  BY DEF Padding
<1> QED BY <1>1, <1>2, <1>3, <1>4

(* What ostore_sync appends to the buffer: it begins where the buffer ends,*)
(* reaches to SyncUsed, and fits.                                          *)
LEMMA SyncFacts ==
    ASSUME FlashType, SuperType, BufType, SummaryType, WbufInv, SyncAsserts
    PROVE  /\ SyncPadSize \in Nat /\ SyncUsed \in Nat /\ SyncSqnum \in Nat
           /\ used <= SyncUsed /\ SyncUsed - used <= avail
           /\ SyncItems \in Seq(LogItem) /\ buf \o SyncItems \in Contiguous
           /\ Len(buf \o SyncItems) >= Len(buf)
           /\ \A k \in 1 .. Len(buf) : (buf \o SyncItems)[k] = buf[k]
           /\ EndOffs(buf \o SyncItems) = SyncUsed
<1>1. /\ buf \in Seq(LogItem) /\ used \in Nat /\ avail \in Nat /\ next_sqnum \in Nat
      /\ summary \in Seq(SumEntry) /\ Len(summary) \in Nat
      /\ used + avail = LebSize /\ used = EndOffs(buf) /\ buf \in Contiguous
    BY DEF SuperType, BufType, SummaryType, WbufInv, SyncAsserts
<1>2. obj_sum_size(Len(summary)) \in Nat  BY <1>1, SumSizeNat
<1> DEFINE n == SyncPadSize
           z == obj_sum_size(Len(summary))
           sq == SyncSqnum
           pad == Padding(used, n, next_sqnum + 1)
           b == buf \o pad
<1>3. /\ n \in Nat /\ SyncUsed \in Nat /\ used <= SyncUsed /\ SyncUsed - used <= avail
      /\ SyncUsed = used + n + (IF SyncWithSummary THEN z ELSE 0)
  <2>1. CASE SyncWithSummary
    BY <1>1, <1>2, <2>1 DEF SyncPadSize, SyncUsed, SyncAsserts
  <2>2. CASE ~SyncWithSummary
    <3>1. MinIoSize \in Nat \ {0}  BY GeometryAssumption
    <3>2. ALIGN(used, MinIoSize) \in Nat /\ used <= ALIGN(used, MinIoSize)
        BY <1>1, <3>1, AlignFacts
    <3>3. CommitPadSize \in Nat  BY <1>1, <3>2 DEF CommitPadSize
    <3> QED BY <1>1, <2>2, <3>3 DEF SyncPadSize, SyncUsed, SyncAsserts
  <2> QED BY <2>1, <2>2
<1>4. sq \in Nat  BY <1>1 DEF SyncSqnum, PadSqnums
<1>5. SyncItems = pad \o (IF SyncWithSummary THEN <<SumItem(used + n, z, sq, summary)>> ELSE <<>>)
    BY DEF SyncItems
<1> HIDE DEF n, z, sq
<1>6. /\ pad \in Seq(LogItem) /\ b \in Contiguous /\ Len(b) >= Len(buf)
      /\ \A k \in 1 .. Len(buf) : b[k] = buf[k]
      /\ EndOffs(b) = used + n
  <2>0. PICK m \in Nat : m = next_sqnum + 1  BY <1>1
  <2>1. pad = Padding(used, n, m) /\ b = buf \o pad  BY <2>0
  <2> HIDE DEF b, pad
  <2>2. buf \in Contiguous /\ used \in Nat /\ used = EndOffs(buf) /\ n \in Nat
        /\ buf \in Seq(LogItem) /\ Len(buf) \in Nat
    BY <1>1, <1>3
  <2>3. CASE n = 0 /\ pad = <<>>
    <3>0. pad \in Seq(LogItem)  BY <2>3
    <3>1. b = buf  BY <2>1, <2>2, <2>3, ConcatEmptySeq
    <3>2. used + n = used  BY <2>2, <2>3
    <3>3. Len(b) >= Len(buf) /\ EndOffs(b) = used + n  BY <2>2, <3>1, <3>2
    <3> QED BY <2>2, <3>0, <3>1, <3>3
  <2>4. CASE \E o \in LogItem : pad = <<o>> /\ o.offs = used /\ o.len = n
    <3>1. PICK o \in LogItem : pad = <<o>> /\ o.offs = used /\ o.len = n  BY <2>4
    <3>2. pad \in Seq(LogItem)  BY <3>1
    <3>3. b = buf \o <<o>>  BY <2>1, <3>1
    <3>4. /\ b \in Contiguous /\ Len(b) = Len(buf) + 1 /\ EndOffs(b) = used + n
          /\ \A k \in 1 .. Len(buf) : b[k] = buf[k]
        BY <2>2, <3>1, <3>3, ContiguousAppend
    <3>5. Len(b) >= Len(buf)  BY <2>2, <3>4
    <3> QED BY <3>2, <3>4, <3>5
  <2>5. \/ n = 0 /\ pad = <<>>
        \/ \E o \in LogItem : pad = <<o>> /\ o.offs = used /\ o.len = n
    <3>1. used \in Nat /\ n \in Nat /\ m \in Nat /\ pad = Padding(used, n, m)  BY <2>0, <2>1, <2>2
    <3>2. PICK u \in Nat, v \in Nat : u = used /\ v = n  BY <3>1
    <3>3. \/ v = 0 /\ Padding(u, v, m) = <<>>
          \/ \E o \in LogItem : Padding(u, v, m) = <<o>> /\ o.offs = u /\ o.len = v
        BY <3>1, <3>2, PaddingFacts
    <3> QED BY <3>1, <3>2, <3>3
  <2> QED BY <2>3, <2>4, <2>5
<1> HIDE DEF b, pad
<1>7. CASE ~SyncWithSummary
  <2>1. SyncItems = pad  BY <1>5, <1>6, <1>7, ConcatEmptySeq
  <2>2. buf \o SyncItems = b  BY <2>1 DEF b
  <2>3. EndOffs(b) = SyncUsed  BY <1>1, <1>3, <1>6, <1>7
  <2> QED BY <1>3, <1>4, <1>6, <2>1, <2>2, <2>3 DEF n, sq
<1>8. CASE SyncWithSummary
  <2> DEFINE o == SumItem(used + n, z, sq, summary)
  <2>0. z \in Nat /\ used + n \in Nat
    <3>1. z \in Nat  BY <1>2 DEF z
    <3>2. used \in Nat /\ n \in Nat  BY <1>1, <1>3
    <3> QED BY <3>1, <3>2
  <2>1. o \in LogItem /\ o.offs = used + n /\ o.len = z
    <3>1. PICK m \in Nat : m = used + n  BY <2>0
    <3>2. /\ SumItem(m, z, sq, summary) \in LogItem
          /\ SumItem(m, z, sq, summary).offs = m /\ SumItem(m, z, sq, summary).len = z
      <4>1. z \in Nat /\ sq \in Nat /\ summary \in Seq(SumEntry)  BY <2>0, <1>1, <1>4
      <4> QED BY <4>1, SumItemFacts
    <3> QED BY <3>1, <3>2
  <2>2. SyncItems = pad \o <<o>>  BY <1>5, <1>8
  <2> HIDE DEF o
  <2>3. <<o>> \in Seq(LogItem)  BY <2>1
  <2>4. SyncItems \in Seq(LogItem)  BY <1>6, <2>2, <2>3, ConcatProperties
  <2>5. buf \o SyncItems = b \o <<o>>
    BY <1>1, <1>6, <2>2, <2>3, ConcatAssociative, SMTT(30) DEF b, Contiguous
  <2>6. /\ b \o <<o>> \in Contiguous /\ Len(b \o <<o>>) = Len(b) + 1
        /\ EndOffs(b \o <<o>>) = EndOffs(b) + z
        /\ \A k \in 1 .. Len(b) : (b \o <<o>>)[k] = b[k]
    <3> DEFINE t == b \o <<o>>
    <3>1. t = b \o <<o>>  OBVIOUS
    <3> HIDE DEF t
    <3>2. /\ t \in Contiguous /\ Len(t) = Len(b) + 1
          /\ EndOffs(t) = EndOffs(b) + z
          /\ \A k \in 1 .. Len(b) : t[k] = b[k]
        BY <1>6, <2>1, <3>1, ContiguousAppend
    <3> QED BY <3>2 DEF t
  <2>7. \A k \in 1 .. Len(buf) : (b \o <<o>>)[k] = buf[k]  BY <1>1, <1>6, <2>6
  <2>8. EndOffs(b) + z = SyncUsed /\ Len(b) + 1 >= Len(buf)  BY <1>1, <2>0, <1>3, <1>6, <1>8
  <2> QED BY <1>3, <1>4, <2>4, <2>5, <2>6, <2>7, <2>8 DEF n, sq
<1> QED BY <1>7, <1>8

(* The first objects of an increasing sequence of offsets are the ones     *)
(* below a limit.                                                          *)
LEMMA FirstOnes ==
    ASSUME NEW n \in Nat, NEW S \in SUBSET (1 .. n), NEW k \in 1 .. Cardinality(S),
           \A i, j \in 1 .. n : i < j /\ j \in S => i \in S
    PROVE  k \in S /\ k <= n
<1>1. IsFiniteSet(1 .. n) /\ Cardinality(1 .. n) = n  BY FS_Interval
<1>2. Cardinality(S) \in Nat /\ Cardinality(S) <= n /\ IsFiniteSet(S)
    BY <1>1, FS_Subset, FS_CardinalityType
<1>3. k \in 1 .. n  BY <1>2
<1>4. ASSUME k \notin S PROVE FALSE
  <2>1. S \subseteq 1 .. (k - 1)
    <3> SUFFICES ASSUME NEW j \in S PROVE j \in 1 .. (k - 1)  OBVIOUS
    <3>1. j \in 1 .. n /\ j # k  BY <1>4
    <3> QED BY <1>3, <1>4, <3>1
  <2>2. PICK m \in Nat : m = k - 1  BY <1>3
  <2>3. IsFiniteSet(1 .. m) /\ Cardinality(1 .. m) = m  BY <2>2, FS_Interval
  <2>4. Cardinality(S) <= m  BY <2>1, <2>2, <2>3, FS_Subset
  <2> QED BY <1>2, <1>3, <2>2, <2>4
<1> QED BY <1>3, <1>4

(* An object that is cut short, marked as torn or put at another offset is *)
(* still a well-formed object.                                             *)
LEMMA ItemUpdates ==
    ASSUME NEW o \in LogItem, NEW n \in Nat
    PROVE  /\ [o EXCEPT !.len = n] \in LogItem /\ [o EXCEPT !.len = n].offs = o.offs
           /\ [o EXCEPT !.type = TORN] \in LogItem /\ [o EXCEPT !.type = TORN].offs = o.offs
           /\ [o EXCEPT !.offs = n] \in LogItem /\ [o EXCEPT !.offs = n].offs = n
           /\ [o EXCEPT !.offs = n].len = o.len
<1> DEFINE Q == Seq(SumEntry)
<1>1. Item = [type : Types, id : Ids \cup {NIL_ID}, len : Nat, offs : Nat,
              sqnum : Nat, trans : Nat, val : Nat, ents : Q]
    BY DEF Item
<1> HIDE DEF Q
<1>2. o \in Item /\ TORN \in Types /\ o.offs \in Nat  BY <1>1 DEF LogItem, Types, Item
<1>3. /\ [o EXCEPT !.len = n] \in Item /\ [o EXCEPT !.len = n].offs = o.offs
      /\ [o EXCEPT !.len = n].type = o.type /\ [o EXCEPT !.len = n].id = o.id
    BY <1>1, <1>2
<1>4. /\ [o EXCEPT !.offs = n] \in Item /\ [o EXCEPT !.offs = n].offs = n
      /\ [o EXCEPT !.offs = n].type = o.type /\ [o EXCEPT !.offs = n].id = o.id
      /\ [o EXCEPT !.offs = n].len = o.len
    BY <1>1, <1>2
<1>5. /\ [o EXCEPT !.type = TORN] \in Item /\ [o EXCEPT !.type = TORN].offs = o.offs
      /\ [o EXCEPT !.type = TORN].type = TORN
    BY <1>1, <1>2
<1> QED BY <1>2, <1>3, <1>4, <1>5, NotClient DEF LogItem

(* What a power failure leaves of a commit is a sequence of well-formed    *)
(* objects, which begins where the commit begins.                          *)
LEMMA TornFacts ==
    ASSUME NEW s \in Seq(LogItem), sync_offs \in Nat, NEW pages \in Nat \ {0},
           \A j, k \in DOMAIN s : j < k => s[j].offs <= s[k].offs
    PROVE  /\ TornPrefix(s, pages) \in Seq(LogItem)
           /\ s # <<>> /\ s[1].offs = sync_offs =>
                /\ TornPrefix(s, pages) # <<>>
                /\ TornPrefix(s, pages)[1].offs = sync_offs
<1>1. PICK limit \in Nat : limit = sync_offs + pages * MinIoSize /\ sync_offs < limit
  <2>1. pages * MinIoSize \in Nat \ {0}  BY GeometryAssumption
  <2> QED BY <2>1
<1> DEFINE S == {j \in DOMAIN s : s[j].offs < limit}
           n == Cardinality(S)
           Cut(o) == CASE o.offs + o.len <= limit -> o
                       [] o.type = RAW -> [o EXCEPT !.len = limit - o.offs]
                       [] OTHER -> [o EXCEPT !.type = TORN]
<1>2. TornPrefix(s, pages) = [k \in 1 .. n |-> Cut(s[k])]  BY <1>1 DEF TornPrefix
<1>3. \A o \in LogItem : o.offs \in Nat /\ o.len \in Nat  BY DEF LogItem, Item
<1>4. ASSUME NEW o \in LogItem, o.offs < limit
      PROVE  Cut(o) \in LogItem /\ Cut(o).offs = o.offs
  <2>1. limit - o.offs \in Nat  BY <1>3, <1>4
  <2>2. PICK m \in Nat : m = limit - o.offs  BY <2>1
  <2>3. /\ [o EXCEPT !.len = m] \in LogItem /\ [o EXCEPT !.len = m].offs = o.offs
        /\ [o EXCEPT !.type = TORN] \in LogItem /\ [o EXCEPT !.type = TORN].offs = o.offs
      BY <2>2, ItemUpdates
  <2>4. \/ Cut(o) = o \/ Cut(o) = [o EXCEPT !.len = m] \/ Cut(o) = [o EXCEPT !.type = TORN]
      BY <2>2
  <2> QED BY <2>3, <2>4
<1> HIDE DEF Cut
<1>5. DOMAIN s = 1 .. Len(s) /\ Len(s) \in Nat /\ \A k \in 1 .. Len(s) : s[k] \in LogItem  OBVIOUS
<1>6. \A i, j \in 1 .. Len(s) : i < j /\ j \in S => i \in S
  <2> SUFFICES ASSUME NEW i \in 1 .. Len(s), NEW j \in 1 .. Len(s), i < j, j \in S PROVE i \in S
    OBVIOUS
  <2>1. s[i].offs <= s[j].offs /\ s[i] \in LogItem /\ s[j] \in LogItem /\ s[j].offs < limit  BY <1>5
  <2>2. s[i].offs < limit  BY <1>3, <2>1
  <2> QED BY <1>5, <2>2
<1>7. S \in SUBSET (1 .. Len(s))  BY <1>5
<1>8. IsFiniteSet(S) /\ n \in Nat
  <2> HIDE DEF S
  <2>1. IsFiniteSet(1 .. Len(s))  BY <1>5, FS_Interval
  <2>2. IsFiniteSet(S)  BY <1>7, <2>1, FS_Subset
  <2> QED BY <2>2, FS_CardinalityType
<1> HIDE DEF n
<1>9. ASSUME NEW k \in 1 .. n PROVE k \in S /\ k \in 1 .. Len(s) /\ s[k] \in LogItem /\ s[k].offs < limit
  <2>1. k \in S /\ k <= Len(s)
    <3> HIDE DEF S
    <3> QED BY <1>5, <1>6, <1>7, FirstOnes DEF n
  <2> QED BY <1>5, <1>8, <2>1
<1>10. \A k \in 1 .. n : Cut(s[k]) \in LogItem /\ Cut(s[k]).offs = s[k].offs  BY <1>4, <1>9
<1>11. [k \in 1 .. n |-> Cut(s[k])] \in Seq(LogItem)  BY <1>8, <1>10
<1>12. ASSUME s # <<>>, s[1].offs = sync_offs
       PROVE  1 \in 1 .. n /\ Cut(s[1]).offs = sync_offs
  <2>1. 1 \in S  BY <1>1, <1>5, <1>12
  <2>2. n # 0
    <3>1. Cardinality(S) = 0 <=> S = {}  BY <1>8, FS_EmptySet
    <3> QED BY <2>1, <3>1 DEF n
  <2>3. 1 \in 1 .. n  BY <1>8, <2>2
  <2> QED BY <1>10, <1>12, <2>3
<1>13. 1 \in 1 .. n => [k \in 1 .. n |-> Cut(s[k])] # <<>>  BY <1>8
<1> QED BY <1>2, <1>11, <1>12, <1>13

(* fsm_mark_dirty keeps the counters in range, whatever it is told to add. *)
LEMMA MarkDirtyType ==
    ASSUME NEW d \in [Lnums -> Nat], NEW l, NEW n \in Int
    PROVE  fsm_mark_dirty(d, l, n) \in [Lnums -> Nat]
<1>1. U32 \in Nat \ {0}  BY GeometryAssumption
<1>2. \A m \in Nat : (m + n) % U32 \in Nat  BY <1>1
<1> QED BY <1>2 DEF fsm_mark_dirty

(* gim_mark_garbage_cnt keeps the garbage index well-formed.               *)
LEMMA MarkGarbageType ==
    ASSUME NEW g \in [Ids -> GimNode], NEW x, NEW s \in Nat, NEW c \in Nat
    PROVE  gim_mark_garbage_cnt(g, x, s, c) \in [Ids -> GimNode]
<1>1. U32 \in Nat \ {0}  BY GeometryAssumption
<1>2. CASE x \in Ids
  <2>1. g[x].count \in Nat /\ g[x].sqnum \in Nat  BY <1>2 DEF GimNode
  <2>2. (g[x].count + c) % U32 \in Nat  BY <1>1, <2>1
  <2>3. [in |-> TRUE, count |-> (g[x].count + c) % U32,
         sqnum |-> IF g[x].sqnum < s THEN s ELSE g[x].sqnum] \in GimNode
      BY <2>1, <2>2 DEF GimNode
  <2> QED BY <1>2, <2>3 DEF gim_mark_garbage_cnt
<1>3. CASE x \notin Ids  BY <1>3 DEF gim_mark_garbage_cnt
<1> QED BY <1>2, <1>3

(* gim_garbage_collected keeps the garbage index well-formed.              *)
LEMMA CollectedType ==
    ASSUME NEW g \in [Ids -> GimNode], NEW o
    PROVE  gim_garbage_collected(g, o) \in [Ids -> GimNode]
<1>1. U32 \in Nat \ {0}  BY GeometryAssumption
<1> DEFINE c == (g[o.id].count - 1) % U32
<1>2. CASE o.id \in Ids
  <2>1. g[o.id] \in GimNode /\ g[o.id].count \in Nat  BY <1>2 DEF GimNode
  <2>2. c \in Nat  BY <1>1, <2>1
  <2> HIDE DEF c
  <2>3. [g[o.id] EXCEPT !.count = c] \in GimNode  BY <2>1, <2>2 DEF GimNode
  <2>4. NoGarbage \in GimNode  BY DEF NoGarbage, GimNode
  <2>5. \/ gim_garbage_collected(g, o) = g
        \/ gim_garbage_collected(g, o) = [g EXCEPT ![o.id] = NoGarbage]
        \/ gim_garbage_collected(g, o) = [g EXCEPT ![o.id] = [g[o.id] EXCEPT !.count = c]]
      BY DEF gim_garbage_collected, c
  <2> QED BY <1>2, <2>3, <2>4, <2>5
<1>3. CASE o.id \notin Ids
  BY <1>3 DEF gim_garbage_collected
<1> QED BY <1>2, <1>3

(* proc_obj for an indexed object keeps the index well-formed.             *)
LEMMA ProcIdxType ==
    ASSUME idx \in [Ids -> LogAddr \cup {NoAddr}], NEW x, NEW a \in LogAddr
    PROVE  proc_idx(x, a) \in [Ids -> LogAddr \cup {NoAddr}]
BY DEF proc_idx

(* sum_obj keeps the summary well-formed.                                  *)
LEMMA SumObjType ==
    ASSUME SummaryType, NEW o \in LiveItem, NEW a \in LogAddr
    PROVE  sum_obj(o, a) \in Seq(SumEntry)
<1>0. summary \in Seq(SumEntry) /\ U16 \in Nat \ {0}
    BY GeometryAssumption DEF SummaryType
<1>1. /\ o.id \in Ids /\ a.sqnum \in Nat /\ a.len \in Nat /\ a.offs \in Nat
    BY DEF LiveItem, LogItem, LogAddr
<1> DEFINE entry(count) == [id |-> o.id, sqnum |-> a.sqnum, len |-> a.len,
                            offs |-> a.offs, del |-> o.type = DEL, count |-> count]
           slot == SelectInSeq(summary, LAMBDA e : SumStops(e, o, a))
<1>2. \A c \in Nat : entry(c) \in SumEntry  BY <1>1 DEF SumEntry
<1> HIDE DEF slot, entry
<1>3. Append(summary, entry(0)) \in Seq(SumEntry)  BY <1>0, <1>2
<1>4. [summary EXCEPT ![slot] = entry((summary[slot].count + 1) % U16)] \in Seq(SumEntry)
  <2>1. CASE slot \in DOMAIN summary
    <3>1. summary[slot] \in SumEntry  BY <1>0, <2>1
    <3>2. summary[slot].count \in Nat  BY <3>1 DEF SumEntry
    <3>3. (summary[slot].count + 1) % U16 \in Nat  BY <1>0, <3>2
    <3>4. entry((summary[slot].count + 1) % U16) \in SumEntry  BY <1>2, <3>3
    <3> QED BY <1>0, <2>1, <3>4
  <2>2. CASE slot \notin DOMAIN summary
    <3>1. [summary EXCEPT ![slot] = entry((summary[slot].count + 1) % U16)] = summary
        BY <1>0, <2>2
    <3> QED BY <1>0, <3>1
  <2> QED BY <2>1, <2>2
<1>5. \/ sum_obj(o, a) = Append(summary, entry(0))
      \/ sum_obj(o, a) = summary
      \/ sum_obj(o, a) = [summary EXCEPT ![slot] = entry((summary[slot].count + 1) % U16)]
    BY DEF sum_obj, entry, slot
<1> QED BY <1>0, <1>3, <1>4, <1>5


(* A nonempty set of natural numbers has a least element.                  *)
LEMMA LeastOf ==
    ASSUME NEW T \in SUBSET Nat, T # {}
    PROVE  \E x \in T : \A y \in T : x <= y
<1> DEFINE R == {p \in Nat \X Nat : p[1] < p[2]}
<1>1. IsWellFoundedOn(R, Nat)  BY NatLessThanWellFounded DEF OpToRel
<1>2. \E x \in T : \A y \in T : ~(<<y, x>> \in R)  BY <1>1, WFMin
<1>3. \A x, y \in Nat : y < x => <<y, x>> \in R  OBVIOUS
<1> HIDE DEF R
<1>4. PICK x \in T : \A y \in T : ~(<<y, x>> \in R)  BY <1>2
<1>5. ASSUME NEW y \in T PROVE x <= y
  <2>1. x \in Nat /\ y \in Nat /\ ~(<<y, x>> \in R)  BY <1>4
  <2>2. ~(y < x)  BY <1>3, <2>1
  <2> QED BY <2>1, <2>2
<1> QED BY <1>5

(* Some element of a nonempty set of indices is the last one.              *)
LEMMA GreatestOf ==
    ASSUME NEW n \in Nat, NEW K \in SUBSET (1 .. n), K # {}
    PROVE  \E x \in K : \A y \in K : y <= x
<1> DEFINE U == {u \in Nat : \A y \in K : y <= u}
<1>1. n \in U  OBVIOUS
<1>2. PICK u \in U : \A v \in U : u <= v  BY <1>1, LeastOf
<1>3. ASSUME u \notin K PROVE FALSE
  <2>1. \A y \in K : y <= u - 1  BY <1>2, <1>3
  <2>2. PICK y \in K : y \in 1 .. n  OBVIOUS
  <2>3. u - 1 \in U  BY <2>1, <2>2, <1>2
  <2> QED BY <1>2, <2>3
<1> QED BY <1>2, <1>3

(* The content after a list of objects is a content.                       *)
LEMMA ApplyType ==
    ASSUME NEW m \in [Ids -> Int], NEW objs \in Seq(LiveItem)
    PROVE  Apply(m, objs) \in [Ids -> Int]
<1> DEFINE K(x) == {k \in DOMAIN objs : Affects(objs[k], x)}
           last(x) == CHOOSE k \in K(x) : \A j \in K(x) : j <= k
<1>1. DOMAIN objs = 1 .. Len(objs) /\ Len(objs) \in Nat  OBVIOUS
<1>2. \A o \in LiveItem : o.val \in Int  BY DEF LiveItem, LogItem, Item
<1>3. ASSUME NEW x \in Ids, K(x) # {} PROVE objs[last(x)].val \in Int
  <2>1. K(x) \in SUBSET (1 .. Len(objs))  BY <1>1
  <2>2. last(x) \in K(x)
    <3> DEFINE M == K(x)
    <3> HIDE DEF M
    <3>1. \E k \in M : \A j \in M : j <= k  BY <1>1, <1>3, <2>1, GreatestOf DEF M
    <3>2. (CHOOSE k \in M : \A j \in M : j <= k) \in M  BY <3>1
    <3> QED BY <3>2 DEF M
  <2>3. last(x) \in DOMAIN objs  BY <2>2
  <2> HIDE DEF last
  <2>4. objs[last(x)] \in LiveItem  BY <2>3
  <2> QED BY <1>2, <2>4
<1>4. Apply(m, objs) = [x \in Ids |-> IF K(x) = {} THEN m[x] ELSE objs[last(x)].val]
    BY DEF Apply
<1> HIDE DEF last, K
<1>5. \A x \in Ids : (IF K(x) = {} THEN m[x] ELSE objs[last(x)].val) \in Int  BY <1>3
<1> QED BY <1>4, <1>5

(* What can be read of the store is a content.                             *)
LEMMA ViewType ==
    ASSUME FlashType, BufType, IndexType
    PROVE  View \in [Ids -> Int]
<1> SUFFICES ASSUME NEW x \in Ids PROVE ReadObj(x) \in Int  BY DEF View
<1> DEFINE a == idx[x]
           s == IF a.lnum = fsm_lnum THEN buf ELSE flash[a.lnum]
           here == {k \in DOMAIN s : s[k].offs = a.offs}
           o == s[CHOOSE k \in here : TRUE]
<1>1. \/ ReadObj(x) = 0 \/ ReadObj(x) = -1
      \/ Present(x) /\ here # {} /\ ReadObj(x) = o.val
    BY DEF ReadObj
<1>2. ASSUME Present(x), here # {} PROVE o.val \in Int
  <2>1. a \in LogAddr  BY <1>2 DEF IndexType, Present, NoAddr
  <2>2. s \in Seq(LogItem)
    <3>1. a.lnum \in Lnums  BY <2>1 DEF LogAddr
    <3> QED BY <3>1 DEF FlashType, BufType
  <2>3. (CHOOSE k \in here : TRUE) \in here  BY <1>2
  <2> HIDE DEF s
  <2>4. o \in LogItem  BY <2>2, <2>3
  <2> QED BY <2>4 DEF LogItem, Item
<1> HIDE DEF o, here
<1> QED BY <1>1, <1>2

(* A new call of ostore_write_obj_list.                                    *)
LEMMA NewOpType ==
    ASSUME NEW s \in Seq(LiveItem), NEW f \in {"NONE", "DEL", "GC"}
    PROVE  NewOp(s, f) \in LiveOp
<1>1. s \in Seq(Item)
  <2>1. LiveItem \subseteq Item  BY LiveSub
  <2> QED BY <2>1
<1> DEFINE Q == Seq(Item)
<1> HIDE DEF Q
<1>2. NewOp(s, f) \in [objs : Q, flag : {"NONE", "DEL", "GC"}, i : Nat, offs : Nat,
                       serial_sz : Nat, second : BOOLEAN]
    BY <1>1 DEF NewOp, Q
<1>3. NewOp(s, f) \in Op  BY <1>2 DEF Op, Q
<1>4. NewOp(s, f).objs = s /\ NewOp(s, f).i = 1  BY DEF NewOp
<1> QED BY <1>3, <1>4 DEF LiveOp

(* What a client asks for is a list of objects.                            *)
LEMMA ClientOpType ==
    ASSUME NEW t \in Txn, NEW v \in Nat
    PROVE  ClientOp(t, v) \in LiveOp
<1>1. t.objs \in Seq(TxnObj) /\ t.flag \in {"NONE", "DEL"}  BY DEF Txn
<1>2. ASSUME NEW o \in TxnObj PROVE ClientItem(o, v) \in LiveItem
  <2> DEFINE Q == Seq(SumEntry)
  <2>1. <<>> \in Q  OBVIOUS
  <2> HIDE DEF Q
  <2>2. o.type \in ClientTypes /\ o.id \in Ids /\ o.len \in Nat  BY DEF TxnObj, ClientTypes
  <2>3. o.type \in Types  BY <2>2 DEF ClientTypes, Types
  <2>4. ClientItem(o, v) \in [type : Types, id : Ids \cup {NIL_ID}, len : Nat, offs : Nat,
                              sqnum : Nat, trans : Nat, val : Nat, ents : Q]
      BY <2>1, <2>2, <2>3 DEF ClientItem
  <2>5. ClientItem(o, v) \in Item  BY <2>4 DEF Item, Q
  <2>6. ClientItem(o, v).type = o.type /\ ClientItem(o, v).id = o.id  BY DEF ClientItem
  <2> QED BY <2>2, <2>5, <2>6 DEF LiveItem, LogItem
<1> DEFINE objs == [k \in DOMAIN t.objs |-> ClientItem(t.objs[k], v)]
<1>3. objs \in Seq(LiveItem)  BY <1>1, <1>2
<1>4. ClientOp(t, v) = NewOp(objs, t.flag)  BY DEF ClientOp
<1> HIDE DEF objs
<1> QED BY <1>1, <1>3, <1>4, NewOpType


(* The fields of a call.                                                   *)
LEMMA OpFields ==
    ASSUME NEW o \in LiveOp
    PROVE  /\ o.objs \in Seq(LiveItem) /\ o.flag \in {"NONE", "DEL", "GC"}
           /\ o.i \in Nat \ {0} /\ o.offs \in Nat /\ o.serial_sz \in Nat
           /\ o.i <= Len(o.objs) => o.objs[o.i] \in LiveItem
<1> DEFINE Q == Seq(Item)
<1>1. Op = [objs : Q, flag : {"NONE", "DEL", "GC"}, i : Nat, offs : Nat,
            serial_sz : Nat, second : BOOLEAN]
    BY DEF Op
<1> HIDE DEF Q
<1>2. o \in Op /\ o.objs \in Seq(LiveItem) /\ o.i >= 1  BY DEF LiveOp
<1>3. /\ o.flag \in {"NONE", "DEL", "GC"} /\ o.i \in Nat \ {0} /\ o.offs \in Nat
      /\ o.serial_sz \in Nat
    BY <1>1, <1>2
<1>4. o.i <= Len(o.objs) => o.objs[o.i] \in LiveItem  BY <1>2, <1>3
<1> QED BY <1>2, <1>3, <1>4

(* What the loops change of a call keeps it a call.                        *)
LEMMA OpUpdates ==
    ASSUME NEW o \in LiveOp, NEW n \in Nat \ {0}, NEW m \in Nat
    PROVE  /\ [o EXCEPT !.i = n] \in LiveOp
           /\ [o EXCEPT !.i = n, !.offs = m] \in LiveOp
           /\ [o EXCEPT !.second = TRUE] \in LiveOp
<1> DEFINE Q == Seq(Item)
           p == [o EXCEPT !.i = n]
           q == [p EXCEPT !.offs = m]
           r == [o EXCEPT !.second = TRUE]
<1>1. Op = [objs : Q, flag : {"NONE", "DEL", "GC"}, i : Nat, offs : Nat,
            serial_sz : Nat, second : BOOLEAN]
    BY DEF Op
<1> HIDE DEF Q
<1>2. o \in Op /\ o.objs \in Seq(LiveItem) /\ o.i >= 1  BY DEF LiveOp
<1>3. p \in Op /\ p.objs = o.objs /\ p.i >= 1  BY <1>1, <1>2
<1>4. q \in Op /\ q.objs = p.objs /\ q.i = p.i
  <2> HIDE DEF p
  <2> QED BY <1>1, <1>3
<1>5. r \in Op /\ r.objs = o.objs /\ r.i >= 1  BY <1>1, <1>2
<1>6. q = [o EXCEPT !.i = n, !.offs = m]  BY <1>1, <1>2
<1> HIDE DEF p, q, r
<1>7. p \in LiveOp /\ q \in LiveOp /\ r \in LiveOp  BY <1>2, <1>3, <1>4, <1>5 DEF LiveOp
<1> QED BY <1>6, <1>7 DEF p, r

(* pack_obj_header and the sizes of a list.                                *)
LEMMA PackType ==
    ASSUME NEW o \in LiveOp, o.i <= Len(o.objs), NEW s \in Nat, NEW t \in Nat
    PROVE  [o EXCEPT !.objs[o.i].sqnum = s, !.objs[o.i].trans = t,
                     !.objs[o.i].offs = o.serial_sz,
                     !.serial_sz = o.serial_sz + o.objs[o.i].len,
                     !.i = o.i + 1] \in LiveOp
<1> DEFINE x == o.objs[o.i]
           y == [x EXCEPT !.sqnum = s, !.trans = t, !.offs = o.serial_sz]
           objs == [o.objs EXCEPT ![o.i] = y]
           p == [o EXCEPT !.objs = objs, !.serial_sz = o.serial_sz + x.len, !.i = o.i + 1]
           Q == Seq(SumEntry)
           R == Seq(Item)
<1>1. x \in LiveItem /\ o.i \in Nat \ {0} /\ o.serial_sz \in Nat /\ o.objs \in Seq(LiveItem)
    BY OpFields
<1>2. x \in Item /\ x.type \in ClientTypes /\ x.id \in Ids /\ x.len \in Nat
    BY <1>1 DEF LiveItem, LogItem, Item
<1>3. y \in LiveItem
  <2>1. Item = [type : Types, id : Ids \cup {NIL_ID}, len : Nat, offs : Nat,
                sqnum : Nat, trans : Nat, val : Nat, ents : Q]
      BY DEF Item
  <2> HIDE DEF Q, x
  <2>2. y \in Item /\ y.type = x.type /\ y.id = x.id  BY <1>1, <1>2, <2>1
  <2> HIDE DEF y
  <2> QED BY <1>2, <2>2 DEF LiveItem, LogItem
<1>4. objs \in Seq(LiveItem)
  <2> HIDE DEF y
  <2> QED BY <1>1, <1>3
<1>5. objs \in R
  <2>1. LiveItem \subseteq Item  BY LiveSub
  <2> HIDE DEF objs
  <2> QED BY <1>4, <2>1
<1>6. p \in LiveOp
  <2>1. Op = [objs : R, flag : {"NONE", "DEL", "GC"}, i : Nat, offs : Nat,
              serial_sz : Nat, second : BOOLEAN]
      BY DEF Op
  <2> HIDE DEF R, objs, x
  <2>2. o \in Op /\ o.i + 1 \in Nat /\ o.i + 1 >= 1 /\ o.serial_sz + x.len \in Nat
      BY <1>1, <1>2 DEF LiveOp
  <2>3. p \in Op /\ p.objs = objs /\ p.i = o.i + 1  BY <1>5, <2>1, <2>2
  <2> HIDE DEF p
  <2> QED BY <1>4, <2>2, <2>3 DEF LiveOp
<1>7. p = [o EXCEPT !.objs[o.i].sqnum = s, !.objs[o.i].trans = t,
                    !.objs[o.i].offs = o.serial_sz,
                    !.serial_sz = o.serial_sz + o.objs[o.i].len,
                    !.i = o.i + 1]
  BY <1>1, <1>2
<1> QED BY <1>6, <1>7

(* The addresses a mount collects, from an object and from a summary entry.*)
LEMMA JobTypes ==
    ASSUME NEW l \in Lnums
    PROVE  /\ \A o \in LogItem : ItemJob(l, o) \in LogJob
           /\ \A e \in SumEntry : EntryJob(l, e) \in LogJob
<1>0. Lnums \subseteq Nat  BY LnumsNat
<1>1. ASSUME NEW o \in LogItem PROVE ItemJob(l, o) \in LogJob
  <2>1. /\ o.type \in Types /\ o.id \in Ids \cup {NIL_ID} /\ o.offs \in Nat
        /\ o.len \in Nat /\ o.sqnum \in Nat
      BY DEF LogItem, Item
  <2>2. ItemJob(l, o) \in Job  BY <1>0, <2>1 DEF ItemJob, Job, Addr
  <2>3. ItemJob(l, o).addr \in LogAddr  BY <2>1 DEF ItemJob, LogAddr
  <2> QED BY <2>2, <2>3 DEF LogJob
<1>2. ASSUME NEW e \in SumEntry PROVE EntryJob(l, e) \in LogJob
  <2>1. /\ e.id \in Ids /\ e.offs \in Nat /\ e.len \in Nat /\ e.sqnum \in Nat
        /\ e.count \in Nat /\ type_from_id(e.id) \in Types /\ DEL \in Types
      BY IdsAssumption DEF SumEntry, Types
  <2>2. EntryJob(l, e) \in Job  BY <1>0, <2>1 DEF EntryJob, Job, Addr
  <2>3. EntryJob(l, e).addr \in LogAddr  BY <2>1 DEF EntryJob, LogAddr
  <2> QED BY <2>2, <2>3 DEF LogJob
<1> QED BY <1>1, <1>2

(* A sequence keeps its type without its first element, and its first      *)
(* element is of the type of its elements.                                 *)
LEMMA HeadTailType ==
    ASSUME NEW T, NEW s \in Seq(T), s # <<>>
    PROVE  Head(s) \in T /\ Tail(s) \in Seq(T)
OBVIOUS


(* Each part of the invariant speaks of a few variables only.              *)
LEMMA Frames ==
    /\ FlashType /\ UNCHANGED flash => FlashType'
    /\ SuperType /\ UNCHANGED <<super, super_sqnum, formatting, next_sqnum>> => SuperType'
    /\ BufType /\ UNCHANGED wbuf_vars => BufType'
    /\ DirtyType /\ UNCHANGED dirty_list => DirtyType'
    /\ IndexType /\ UNCHANGED index_vars => IndexType'
    /\ OpType /\ UNCHANGED op_vars => OpType'
    /\ ControlType /\ UNCHANGED <<pc, sync_vars, dret, caller>> => ControlType'
    /\ GcType /\ UNCHANGED <<gc_vars, scan>> => GcType'
    /\ MountType /\ UNCHANGED <<mq, del_list, tot_used, mlnum>> => MountType'
    /\ DelType /\ UNCHANGED <<dcur, del>> => DelType'
    /\ SummaryType /\ UNCHANGED summary => SummaryType'
    /\ GhostType /\ UNCHANGED ghosts => GhostType'
    /\ BoundsType /\ UNCHANGED bounds => BoundsType'
    /\ OpenInv /\ UNCHANGED <<pc, sret, dret, fsm_lnum>> => OpenInv'
    /\ WbufInv /\ UNCHANGED <<flash, wbuf_vars, fsm_lnum>> => WbufInv'
<1> USE DEF wbuf_vars, index_vars, op_vars, sync_vars, gc_vars, ghosts, bounds
<1>1. FlashType /\ UNCHANGED flash => FlashType'  BY DEF FlashType
<1>2. SuperType /\ UNCHANGED <<super, super_sqnum, formatting, next_sqnum>> => SuperType'
    BY DEF SuperType
<1>3. BufType /\ UNCHANGED wbuf_vars => BufType'  BY DEF BufType
<1>4. DirtyType /\ UNCHANGED dirty_list => DirtyType'  BY DEF DirtyType
<1>5. IndexType /\ UNCHANGED index_vars => IndexType'  BY DEF IndexType
<1>6. OpType /\ UNCHANGED op_vars => OpType'  BY DEF OpType
<1>7. ControlType /\ UNCHANGED <<pc, sync_vars, dret, caller>> => ControlType'
    BY DEF ControlType
<1>8. GcType /\ UNCHANGED <<gc_vars, scan>> => GcType'  BY DEF GcType
<1>9. MountType /\ UNCHANGED <<mq, del_list, tot_used, mlnum>> => MountType'  BY DEF MountType
<1>10. DelType /\ UNCHANGED <<dcur, del>> => DelType'  BY DEF DelType
<1>11. SummaryType /\ UNCHANGED summary => SummaryType'  BY DEF SummaryType
<1>12. GhostType /\ UNCHANGED ghosts => GhostType'  BY DEF GhostType
<1>13. BoundsType /\ UNCHANGED bounds => BoundsType'  BY DEF BoundsType
<1>14. OpenInv /\ UNCHANGED <<pc, sret, dret, fsm_lnum>> => OpenInv'  BY DEF OpenInv, Filling
<1>15. WbufInv /\ UNCHANGED <<flash, wbuf_vars, fsm_lnum>> => WbufInv'  BY DEF WbufInv
<1> QED
    BY <1>1, <1>2, <1>3, <1>4, <1>5, <1>6, <1>7, <1>8, <1>9, <1>10, <1>11, <1>12,
       <1>13, <1>14, <1>15

(* A call that gives up leaves no call behind.                             *)
LEMMA ReturnErrorTypes ==
    ASSUME ReturnError
    PROVE  OpType' /\ pc' \in {"idle", "mfail"} /\ caller' = <<>>
<1>1. op' = NoOp /\ caller' = <<>> /\ pc' \in {"idle", "mfail"}  BY DEF ReturnError
<1>2. NoOp \in LiveOp
  <2>1. <<>> \in Seq(LiveItem)  OBVIOUS
  <2> QED BY <2>1, NewOpType DEF NoOp
<1>3. <<>> \in Seq(LiveOp) /\ Len(<<>>) <= 1  OBVIOUS
<1> QED BY <1>1, <1>2, <1>3 DEF OpType

(* The LEB that fsm_alloc_eb takes has nothing on the flash, so the fresh  *)
(* buffer agrees with it.                                                  *)
LEMMA AllocTakeTypes ==
    ASSUME OpType, Scanned(LebCnt), AllocTake, UNCHANGED flash
    PROVE  /\ BufType' /\ OpType' /\ WbufInv'
           /\ UNCHANGED <<dirty_list, caller>> /\ fsm_lnum' # 0
           /\ pc' \in {"presync", "write"}
<1>1. PICK l \in Lnums : ~used_leb_list[l] /\ fsm_lnum' = l
    BY DEF AllocTake, fsm_take_first_free, FreeLebs
<1>2. flash'[l] = <<>> /\ l # 0
  <2>1. l < LebCnt /\ l # 0  BY LnumsNat
  <2>2. flash[l] = <<>>  BY <1>1, <2>1 DEF Scanned
  <2> QED BY <2>1, <2>2
<1>3. buf' = <<>> /\ used' = 0 /\ avail' = LebSize /\ sync_offs' = 0 /\ sync_n' = 0
    BY DEF AllocTake, wbuf_start
<1>4. LebSize \in Nat  BY GeometryAssumption
<1>5. BufType'  BY <1>3, <1>4 DEF BufType
<1>6. WbufInv'
  <2>1. <<>> \in Contiguous  BY DEF Contiguous
  <2>2. SubSeq(<<>>, 1, 0) = <<>> /\ Len(<<>>) = 0  OBVIOUS
  <2>3. EndOffs(<<>>) = 0  BY DEF EndOffs
  <2> QED BY <1>1, <1>2, <1>3, <1>4, <2>1, <2>2, <2>3 DEF WbufInv
<1>7. /\ caller' = caller /\ pc' \in {"presync", "write"}
      /\ op' = [op EXCEPT !.i = 1, !.offs = 0] \/ op' = op
    BY DEF AllocTake
<1>8. op' \in LiveOp
  <2>1. PICK o \in LiveOp : o = op  BY DEF OpType
  <2>2. PICK n \in Nat \ {0}, m \in Nat : n = 1 /\ m = 0  OBVIOUS
  <2>3. [o EXCEPT !.i = n, !.offs = m] \in LiveOp  BY OpUpdates
  <2> QED BY <1>7, <2>1, <2>2, <2>3
<1>9. OpType'  BY <1>7, <1>8 DEF OpType
<1>10. dirty_list' = dirty_list  BY DEF AllocTake, fsm_take_first_free
<1> QED BY <1>1, <1>2, <1>5, <1>6, <1>7, <1>9, <1>10

(* An object behind the others in the buffer.                              *)
LEMMA WriteObjTypes ==
    ASSUME BufType, WbufInv, fsm_lnum # 0, NEW o \in LiveItem, avail >= o.len,
           wbuf_write_obj(o), UNCHANGED <<flash, fsm_lnum>>
    PROVE  BufType' /\ WbufInv'
<1>1. /\ buf \in Contiguous /\ buf \in Seq(LogItem) /\ used \in Nat /\ avail \in Nat
      /\ used = EndOffs(buf) /\ used + avail = LebSize /\ sync_offs <= used
      /\ sync_offs \in Nat /\ sync_n \in Nat /\ sync_n <= Len(buf)
      /\ sync_offs = EndOffs(flash[fsm_lnum]) /\ flash[fsm_lnum] = SubSeq(buf, 1, sync_n)
    BY DEF BufType, WbufInv
<1>2. PICK x : x = [o EXCEPT !.offs = used]  OBVIOUS
<1>3. x \in LogItem /\ x.offs = used /\ x.len = o.len /\ o.len \in Nat
  <2>1. PICK u \in Nat : u = used  BY <1>1
  <2>2. o \in LogItem /\ o.len \in Nat  BY DEF LiveItem, LogItem, Item
  <2>3. /\ [o EXCEPT !.offs = u] \in LogItem /\ [o EXCEPT !.offs = u].offs = u
        /\ [o EXCEPT !.offs = u].len = o.len
      BY <2>2, ItemUpdates
  <2> QED BY <1>2, <2>1, <2>2, <2>3
<1>4. /\ buf' = Append(buf, x) /\ used' = used + o.len /\ avail' = avail - o.len
      /\ sync_offs' = sync_offs /\ sync_n' = sync_n
    BY <1>2 DEF wbuf_write_obj
<1>5. PICK b \in Contiguous : b = buf  BY <1>1
<1>6. b \in Seq(LogItem) /\ Len(b) \in Nat  BY DEF Contiguous
<1>7. buf' = b \o <<x>>  BY <1>4, <1>5, <1>6, <1>3, AppendIsConcat
<1>8. /\ buf' \in Contiguous /\ Len(buf') = Len(b) + 1
      /\ EndOffs(buf') = EndOffs(b) + x.len
      /\ \A k \in 1 .. Len(b) : buf'[k] = b[k]
  <2>1. PICK t : t = b \o <<x>>  OBVIOUS
  <2>2. x.offs = EndOffs(b)  BY <1>1, <1>3, <1>5
  <2>3. /\ t \in Contiguous /\ Len(t) = Len(b) + 1 /\ EndOffs(t) = EndOffs(b) + x.len
        /\ \A k \in 1 .. Len(b) : t[k] = b[k]
      BY <1>3, <2>1, <2>2, ContiguousAppend
  <2> QED BY <1>7, <2>1, <2>3
<1>9. buf' \in Seq(LogItem)  BY <1>8 DEF Contiguous
<1>10. /\ used' \in Nat /\ avail' \in Nat /\ used' + avail' = LebSize /\ sync_offs' <= used'
       /\ sync_n' <= Len(buf') /\ used' = EndOffs(buf')
  <2>1. used' = EndOffs(buf')  BY <1>1, <1>3, <1>4, <1>5, <1>8
  <2>2. sync_n' <= Len(buf')  BY <1>1, <1>4, <1>5, <1>6, <1>8
  <2>3. /\ used' \in Nat /\ avail' \in Nat /\ used' + avail' = LebSize /\ sync_offs' <= used'
    <3>1. used \in Nat /\ avail \in Nat /\ o.len \in Nat /\ avail >= o.len  BY <1>1, <1>3
    <3>2. used + avail = LebSize /\ sync_offs <= used /\ sync_offs \in Nat  BY <1>1
    <3>3. used' = used + o.len /\ avail' = avail - o.len /\ sync_offs' = sync_offs  BY <1>4
    <3> QED BY <3>1, <3>2, <3>3
  <2> QED BY <2>1, <2>2, <2>3
<1>11. flash[fsm_lnum] = SubSeq(buf', 1, sync_n)
  <2>1. PICK n \in Nat : n = sync_n  BY <1>1
  <2>2. n <= Len(b)  BY <1>1, <1>5, <2>1
  <2>3. SubSeq(b \o <<x>>, 1, n) = SubSeq(b, 1, n)
    <3>1. SubSeq(b, 1, n) = [i \in 1 .. n |-> b[i]]  BY <1>6, <2>2
    <3>2. PICK t : t = b \o <<x>>  OBVIOUS
    <3>3. t \in Seq(LogItem) /\ Len(t) = Len(b) + 1 /\ \A k \in 1 .. Len(b) : t[k] = b[k]
        BY <1>7, <1>8, <1>9, <3>2
    <3>4. SubSeq(t, 1, n) = [i \in 1 .. n |-> t[i]]  BY <1>6, <2>2, <3>3
    <3>5. \A i \in 1 .. n : t[i] = b[i]  BY <1>6, <2>2, <3>3
    <3> QED BY <3>1, <3>2, <3>4, <3>5
  <2> QED BY <1>1, <1>5, <1>7, <2>1, <2>3
<1> QED BY <1>1, <1>4, <1>8, <1>9, <1>10, <1>11 DEF BufType, WbufInv

(* proc_obj keeps the indexes and the garbage counters well-formed.        *)
LEMMA ProcObjTypes ==
    ASSUME DirtyType, IndexType, DelType, NEW type, NEW id, NEW a \in LogAddr, NEW ret,
           type = DEL => id \in Ids \cup {NIL_ID}, proc_obj(type, id, a, ret)
    PROVE  /\ DirtyType' /\ IndexType' /\ DelType'
           /\ (pc' = ret /\ dret' = dret) \/ (pc' = "del" /\ dret' = ret)
<1> USE DEF index_vars, del_vars
<1>1. /\ a.lnum \in Lnums /\ a.len \in Nat /\ a.sqnum \in Nat /\ a.len \in Int
      /\ a \in Addr
  <2>1. a.lnum \in Lnums /\ a.len \in Nat /\ a.sqnum \in Nat  BY DEF LogAddr
  <2>2. a.len \in Int  BY <2>1
  <2>3. LogAddr \subseteq Addr  BY LnumsNat DEF LogAddr, Addr
  <2> QED BY <2>1, <2>2, <2>3
<1>2. /\ dirty_list \in [Lnums -> Nat] /\ gim \in [Ids -> GimNode]
      /\ idx \in [Ids -> LogAddr \cup {NoAddr}]
    BY DEF DirtyType, IndexType
<1>3. fsm_mark_dirty(dirty_list, a.lnum, a.len) \in [Lnums -> Nat]
  <2>1. PICK d \in [Lnums -> Nat], l \in Lnums, n \in Int : d = dirty_list /\ l = a.lnum /\ n = a.len
      BY <1>1, <1>2
  <2>2. fsm_mark_dirty(d, l, n) \in [Lnums -> Nat]  BY MarkDirtyType
  <2> QED BY <2>1, <2>2
<1>4. CASE type = PAD /\ type \notin IndexedTypes /\ type # DEL
  <2>1. /\ dirty_list' = fsm_mark_dirty(dirty_list, a.lnum, a.len) /\ pc' = ret
        /\ UNCHANGED <<index_vars, del_vars>>
      BY <1>4 DEF proc_obj
  <2> QED BY <1>3, <2>1, Frames DEF DirtyType
<1>5. CASE type \in IndexedTypes /\ type # PAD /\ type # DEL
  <2>1. /\ idx' = proc_idx(id, a) /\ gim' = proc_gim(id, a)
        /\ dirty_list' = proc_dirty(id, a) /\ pc' = ret /\ UNCHANGED del_vars
      BY <1>5 DEF proc_obj
  <2>2. idx' \in [Ids -> LogAddr \cup {NoAddr}]  BY <1>2, <2>1, ProcIdxType
  <2>3. gim' \in [Ids -> GimNode]
    <3>1. PICK g \in [Ids -> GimNode], s \in Nat, c \in Nat : g = gim /\ s = a.sqnum /\ c = 1
        BY <1>1, <1>2
    <3>2. gim_mark_garbage_cnt(g, id, s, c) \in [Ids -> GimNode]  BY MarkGarbageType
    <3> QED BY <1>2, <2>1, <3>1, <3>2 DEF proc_gim, gim_mark_garbage
  <2>4. dirty_list' \in [Lnums -> Nat]  BY <1>2, <1>3, <2>1 DEF proc_dirty
  <2>5. DelType'  BY <2>1, Frames
  <2> QED BY <2>1, <2>2, <2>3, <2>4, <2>5 DEF IndexType, DirtyType
<1>6. CASE type = DEL /\ type # PAD /\ type \notin IndexedTypes
  <2>1. /\ del' = [type |-> DEL, id |-> id, addr |-> a, count |-> 0]
        /\ dcur' = id /\ dret' = ret /\ pc' = "del" /\ UNCHANGED <<index_vars, dirty_list>>
      BY <1>6 DEF proc_obj
  <2>2. DEL \in Types /\ id \in Ids \cup {NIL_ID}  BY <1>6 DEF Types
  <2>3. del' \in Job  BY <1>1, <2>1, <2>2 DEF Job
  <2>4. DelType'  BY <2>1, <2>2, <2>3 DEF DelType
  <2> QED BY <2>1, <2>4, Frames
<1>7. /\ PAD \notin IndexedTypes /\ DEL \notin IndexedTypes /\ PAD # DEL
      /\ type = PAD \/ type \in IndexedTypes \/ type = DEL
    BY DEF proc_obj, PAD, DEL, IndexedTypes, INODE, DATA, DENTARR
<1> QED BY <1>4, <1>5, <1>6, <1>7

(* An older version of an object leaves the index when it is deleted.      *)
LEMMA DeletedTypes ==
    ASSUME DirtyType, IndexType, NEW x \in Ids
    PROVE  /\ [idx EXCEPT ![x] = NoAddr] \in [Ids -> LogAddr \cup {NoAddr}]
           /\ gim_mark_garbage(gim, x, idx[x].sqnum) \in [Ids -> GimNode]
           /\ fsm_mark_dirty(dirty_list, idx[x].lnum, idx[x].len) \in [Lnums -> Nat]
<1>1. /\ dirty_list \in [Lnums -> Nat] /\ gim \in [Ids -> GimNode]
      /\ idx \in [Ids -> LogAddr \cup {NoAddr}]
    BY DEF DirtyType, IndexType
<1>2. idx[x].sqnum \in Nat /\ idx[x].len \in Nat /\ idx[x].lnum \in Nat
  <2>1. Lnums \subseteq Nat  BY LnumsNat
  <2>2. \A a \in LogAddr : a.sqnum \in Nat /\ a.len \in Nat /\ a.lnum \in Nat
    <3>1. \A a \in LogAddr : a.sqnum \in Nat /\ a.len \in Nat /\ a.lnum \in Lnums  BY DEF LogAddr
    <3> QED BY <2>1, <3>1
  <2>3. NoAddr.sqnum \in Nat /\ NoAddr.len \in Nat /\ NoAddr.lnum \in Nat  BY DEF NoAddr
  <2> QED BY <1>1, <2>2, <2>3
<1>3. PICK g \in [Ids -> GimNode], s \in Nat, c \in Nat : g = gim /\ s = idx[x].sqnum /\ c = 1
    BY <1>1, <1>2
<1>4. gim_mark_garbage_cnt(g, x, s, c) \in [Ids -> GimNode]  BY MarkGarbageType
<1>5. PICK d \in [Lnums -> Nat], l \in Nat, n \in Int : d = dirty_list /\ l = idx[x].lnum /\ n = idx[x].len
    BY <1>1, <1>2
<1>6. fsm_mark_dirty(d, l, n) \in [Lnums -> Nat]  BY MarkDirtyType
<1> QED BY <1>1, <1>3, <1>4, <1>5, <1>6 DEF gim_mark_garbage

(* The steps of ostore_write_obj_list keep the invariant.                  *)
LEMMA WriteStepTypeInv == LogInv /\ TypeInv /\ WriteStep => TypeInv'
<1> SUFFICES ASSUME LogInv, TypeInv, WriteStep PROVE TypeInv'
    OBVIOUS
<1> USE DEF fsm_vars, wbuf_vars, index_vars, super_vars, sync_vars, op_vars,
            gc_vars, mount_vars, del_vars, ghosts, bounds
<1>a. /\ FlashType /\ SuperType /\ BufType /\ DirtyType /\ IndexType /\ OpType
      /\ ControlType /\ GcType /\ MountType /\ DelType /\ SummaryType /\ GhostType
      /\ BoundsType /\ OpenInv /\ WbufInv
    BY DEF TypeInv
<1>b. AccountInv /\ ReturnInv /\ GcInv /\ MountInv /\ FlashInv
    BY DEF LogInv
<1>c. PICK o \in LiveOp : o = op
    BY <1>a DEF OpType
<1>d. /\ o.objs \in Seq(LiveItem) /\ o.i \in Nat \ {0} /\ o.offs \in Nat
      /\ o.i <= Len(o.objs) => o.objs[o.i] \in LiveItem
    BY OpFields
<1>e. Len(o.objs) \in Nat
    BY <1>d
<1>1. CASE Enter
    <2>1. UNCHANGED <<flash, super, super_sqnum, formatting, next_sqnum, wbuf_vars,
                      dirty_list, index_vars, op_vars, gc_vars, scan, mq, del_list,
                      tot_used, mlnum, dcur, del, summary, ghosts, bounds, fsm_lnum>>
        BY <1>1 DEF Enter
    <2>2. FlashType' /\ SuperType' /\ BufType' /\ DirtyType' /\ IndexType'
          /\ OpType' /\ GcType' /\ MountType' /\ DelType' /\ SummaryType'
          /\ GhostType' /\ BoundsType' /\ WbufInv'
        BY <1>a, <2>1, Frames
    <2>3. ControlType'
        BY <1>a, <1>1 DEF Enter, ControlType, Labels
    <2>4. OpenInv'
        BY <1>a, <1>b, <1>1 DEF Enter, OpenInv, Filling, ReturnInv
    <2> QED BY <2>2, <2>3, <2>4 DEF TypeInv
<1>2. CASE Alloc
    <2>1. /\ UNCHANGED <<flash, super_vars, next_sqnum, index_vars, gc_vars, scan, mq,
                         del_list, tot_used, mlnum, dcur, del, summary, ghosts, bounds>>
          /\ UNCHANGED <<sync_vars, dret>> /\ pc = "alloc"
        BY <1>2 DEF Alloc
    <2>2. /\ FlashType' /\ SuperType' /\ IndexType' /\ GcType' /\ MountType' /\ DelType'
          /\ SummaryType' /\ GhostType' /\ BoundsType'
        BY <1>a, <2>1, Frames
    <2>3. CASE AllocTake
        <3>1. Scanned(LebCnt)
            BY <1>b, <2>1 DEF FlashInv, InLeb
        <3>2. /\ BufType' /\ OpType' /\ WbufInv'
              /\ UNCHANGED <<dirty_list, caller>> /\ fsm_lnum' # 0
              /\ pc' \in {"presync", "write"}
            BY <1>a, <2>1, <2>3, <3>1, AllocTakeTypes
        <3>3. DirtyType'
            BY <1>a, <3>2, Frames
        <3>4. ControlType' /\ OpenInv'
            BY <1>a, <2>1, <3>2 DEF ControlType, Labels, OpenInv
        <3> QED BY <2>2, <3>2, <3>3, <3>4 DEF TypeInv
    <2>4. CASE ~AllocTake
        <3>1. /\ UNCHANGED <<dirty_list, wbuf_vars>> /\ fsm_lnum' = 0
              /\ ReturnError \/ (pc' = "gc" /\ UNCHANGED op_vars)
            BY <1>2, <2>4 DEF Alloc
        <3>2. DirtyType' /\ BufType'
            BY <1>a, <3>1, Frames
        <3>3. WbufInv'
            BY <3>1 DEF WbufInv
        <3>4. OpType' /\ pc' \in {"idle", "mfail", "gc"}
            BY <1>a, <3>1, ReturnErrorTypes, Frames
        <3>5. ControlType' /\ OpenInv'
            BY <1>a, <2>1, <3>4 DEF ControlType, Labels, OpenInv, Filling
        <3> QED BY <2>2, <3>2, <3>3, <3>4, <3>5 DEF TypeInv
    <2> QED BY <2>3, <2>4
<1>3. CASE Presync
    <2>1. UNCHANGED <<flash, super, super_sqnum, formatting, next_sqnum, wbuf_vars,
                      dirty_list, index_vars, op_vars, gc_vars, scan, mq, del_list,
                      tot_used, mlnum, dcur, del, summary, ghosts, bounds, fsm_lnum>>
        BY <1>3 DEF Presync
    <2>2. FlashType' /\ SuperType' /\ BufType' /\ DirtyType' /\ IndexType'
          /\ OpType' /\ GcType' /\ MountType' /\ DelType' /\ SummaryType'
          /\ GhostType' /\ BoundsType' /\ WbufInv'
        BY <1>a, <2>1, Frames
    <2>3. ControlType'
        BY <1>a, <1>3, ZenonT(60) DEF Presync, ControlType, Labels
    <2>4. OpenInv'
        BY <1>a, <1>b, <1>3 DEF Presync, OpenInv, Filling, ReturnInv
    <2> QED BY <2>2, <2>3, <2>4 DEF TypeInv
<1>4. CASE Pack
    <2>1. UNCHANGED <<flash, wbuf_vars, dirty_list, index_vars, pc, sync_vars,
                      dret, caller, gc_vars, scan, mq, del_list, tot_used, mlnum,
                      dcur, del, summary, ghosts, bounds, fsm_lnum>>
        BY <1>4 DEF Pack
    <2>2. FlashType' /\ BufType' /\ DirtyType' /\ IndexType' /\ ControlType'
          /\ GcType' /\ MountType' /\ DelType' /\ SummaryType' /\ GhostType'
          /\ BoundsType' /\ OpenInv' /\ WbufInv'
        BY <1>a, <2>1, Frames
    <2>3. SuperType'
        BY <1>a, <1>4 DEF Pack, SuperType
    <2>4. OpType'
        <3>1. /\ op' = [op EXCEPT !.objs[op.i].sqnum = next_sqnum + 1,
                                  !.objs[op.i].trans = get_obj_trans(Len(op.objs), op.i),
                                  !.objs[op.i].offs = op.serial_sz,
                                  !.serial_sz = op.serial_sz + op.objs[op.i].len,
                                  !.i = op.i + 1]
              /\ op.i <= Len(op.objs) /\ caller' = caller
            BY <1>4 DEF Pack
        <3>2. PICK s \in Nat : s = next_sqnum + 1
            BY <1>a DEF SuperType
        <3>3. get_obj_trans(Len(o.objs), o.i) \in Nat
            BY DEF get_obj_trans, TRANS_ATOM, TRANS_ST, TRANS_END, TRANS_IN
        <3>4. PICK t \in Nat : t = get_obj_trans(Len(o.objs), o.i)
            BY <3>3
        <3>5. o.i <= Len(o.objs)
            BY <1>c, <3>1
        <3>6. [o EXCEPT !.objs[o.i].sqnum = s, !.objs[o.i].trans = t,
                        !.objs[o.i].offs = o.serial_sz,
                        !.serial_sz = o.serial_sz + o.objs[o.i].len,
                        !.i = o.i + 1] \in LiveOp
            BY <3>5, PackType
        <3>7. op' \in LiveOp
            BY <1>c, <3>1, <3>2, <3>4, <3>6
        <3> QED BY <1>a, <3>1, <3>7 DEF OpType
    <2> QED BY <2>2, <2>3, <2>4 DEF TypeInv
<1>5. CASE SpaceCheck
    <2>1. UNCHANGED <<flash, super, super_sqnum, formatting, next_sqnum, wbuf_vars,
                      dirty_list, index_vars, gc_vars, scan, mq, del_list,
                      tot_used, mlnum, dcur, del, summary, ghosts, bounds, fsm_lnum>>
        BY <1>5 DEF SpaceCheck
    <2>2. FlashType' /\ SuperType' /\ BufType' /\ DirtyType' /\ IndexType'
          /\ GcType' /\ MountType' /\ DelType' /\ SummaryType' /\ GhostType'
          /\ BoundsType' /\ WbufInv'
        BY <1>a, <2>1, Frames
    <2>3. OpType'
        <3>1. /\ op' = [op EXCEPT !.second = TRUE] \/ op' = [op EXCEPT !.i = 1, !.offs = used]
              /\ caller' = caller
            BY <1>5 DEF SpaceCheck
        <3>2. PICK n \in Nat \ {0}, m \in Nat : n = 1 /\ m = used
            BY <1>a DEF BufType
        <3>3. [o EXCEPT !.second = TRUE] \in LiveOp /\ [o EXCEPT !.i = n, !.offs = m] \in LiveOp
            BY OpUpdates
        <3>4. op' \in LiveOp
            BY <1>c, <3>1, <3>2, <3>3
        <3> QED BY <1>a, <3>1, <3>4 DEF OpType
    <2>4. ControlType'
        BY <1>a, <1>5, ZenonT(60) DEF SpaceCheck, ControlType, Labels
    <2>5. OpenInv'
        BY <1>a, <1>b, <1>5 DEF SpaceCheck, OpenInv, Filling, ReturnInv
    <2> QED BY <2>2, <2>3, <2>4, <2>5 DEF TypeInv
<1>6. CASE WriteObj
    <2>1. /\ UNCHANGED <<flash, super_vars, next_sqnum, index_vars, gc_vars, scan, mq,
                         del_list, tot_used, mlnum, dcur, del, summary, ghosts, bounds>>
          /\ UNCHANGED <<fsm_vars, sync_vars, dret>>
          /\ pc = "write" /\ op.i <= Len(op.objs)
        BY <1>6 DEF WriteObj
    <2>2. /\ FlashType' /\ SuperType' /\ IndexType' /\ GcType' /\ MountType' /\ DelType'
          /\ SummaryType' /\ GhostType' /\ BoundsType' /\ DirtyType'
        BY <1>a, <2>1, Frames
    <2>3. PICK x \in LiveItem : x = op.objs[op.i] /\ x.len \in Nat
        <3>1. o.objs[o.i] \in LiveItem
            BY <1>c, <1>d, <2>1
        <3> QED BY <1>c, <3>1 DEF LiveItem, LogItem, Item
    <2>4. CASE avail < x.len
        <3>1. ReturnError /\ UNCHANGED wbuf_vars
            BY <1>6, <2>3, <2>4 DEF WriteObj
        <3>2. BufType' /\ WbufInv'
            BY <1>a, <2>1, <3>1, Frames
        <3>3. OpType' /\ pc' \in {"idle", "mfail"}
            BY <3>1, ReturnErrorTypes
        <3>4. ControlType' /\ OpenInv'
            BY <1>a, <2>1, <3>3 DEF ControlType, Labels, OpenInv, Filling
        <3> QED BY <2>2, <3>2, <3>3, <3>4 DEF TypeInv
    <2>5. CASE ~(avail < x.len)
        <3>1. /\ wbuf_write_obj(x) /\ op' = [op EXCEPT !.i = op.i + 1]
              /\ UNCHANGED <<pc, caller>>
            BY <1>6, <2>3, <2>5 DEF WriteObj
        <3>2. avail >= x.len /\ fsm_lnum # 0
            <4>1. avail \in Nat /\ fsm_lnum # 0
                BY <1>a, <2>1 DEF BufType, OpenInv, Filling
            <4> QED BY <2>3, <2>5, <4>1
        <3>3. BufType' /\ WbufInv'
            BY <1>a, <2>1, <3>1, <3>2, WriteObjTypes
        <3>4. OpType'
            <4>1. PICK n \in Nat \ {0} : n = o.i + 1
                BY <1>d
            <4>2. [o EXCEPT !.i = n] \in LiveOp
                BY OpUpdates
            <4> QED BY <1>a, <1>c, <3>1, <4>1, <4>2 DEF OpType
        <3>5. ControlType' /\ OpenInv'
            BY <1>a, <2>1, <3>1, Frames
        <3> QED BY <2>2, <3>3, <3>4, <3>5 DEF TypeInv
    <2> QED BY <2>4, <2>5
<1>7. CASE Postsync
    <2>1. UNCHANGED <<flash, super, super_sqnum, formatting, next_sqnum, wbuf_vars,
                      dirty_list, index_vars, op_vars, gc_vars, scan, mq, del_list,
                      tot_used, mlnum, dcur, del, summary, ghosts, bounds, fsm_lnum>>
        BY <1>7 DEF Postsync
    <2>2. FlashType' /\ SuperType' /\ BufType' /\ DirtyType' /\ IndexType'
          /\ OpType' /\ GcType' /\ MountType' /\ DelType' /\ SummaryType'
          /\ GhostType' /\ BoundsType' /\ WbufInv'
        BY <1>a, <2>1, Frames
    <2>3. ControlType'
        BY <1>a, <1>7, ZenonT(60) DEF Postsync, ControlType, Labels
    <2>4. OpenInv'
        BY <1>a, <1>b, <1>7 DEF Postsync, OpenInv, Filling, ReturnInv
    <2> QED BY <2>2, <2>3, <2>4 DEF TypeInv
<1>8. CASE Pool
    <2>1. UNCHANGED <<flash, super, super_sqnum, formatting, next_sqnum, wbuf_vars,
                      dirty_list, index_vars, gc_vars, scan, mq, del_list,
                      tot_used, mlnum, dcur, del, summary, ghosts, fsm_lnum>>
        BY <1>8 DEF Pool
    <2>2. FlashType' /\ SuperType' /\ BufType' /\ DirtyType' /\ IndexType'
          /\ GcType' /\ MountType' /\ DelType' /\ SummaryType' /\ GhostType'
          /\ WbufInv'
        BY <1>a, <2>1, Frames
    <2>3. OpType'
        <3>1. (op' = [op EXCEPT !.i = 1] /\ caller' = caller) \/ ReturnError
            BY <1>8 DEF Pool
        <3>2. PICK n \in Nat \ {0} : n = 1
            OBVIOUS
        <3>3. [o EXCEPT !.i = n] \in LiveOp
            BY OpUpdates
        <3>4. op' = [op EXCEPT !.i = 1] /\ caller' = caller => OpType'
            BY <1>a, <1>c, <3>2, <3>3 DEF OpType
        <3> QED BY <3>1, <3>4, ReturnErrorTypes
    <2>4. ControlType'
        BY <1>a, <1>8 DEF Pool, ReturnError, ControlType, Labels
    <2>5. BoundsType'
        BY <1>a, <1>8 DEF Pool, Refused, BoundsType
    <2>6. OpenInv'
        BY <1>a, <1>b, <1>8 DEF Pool, ReturnError, OpenInv, Filling, ReturnInv
    <2> QED BY <2>2, <2>3, <2>4, <2>5, <2>6 DEF TypeInv
<1>9. CASE IndexObj
    <2>x. PICK x \in LiveItem : x = op.objs[op.i] /\ x = o.objs[o.i] /\ x.len \in Nat
        <3>1. o.objs[o.i] \in LiveItem
            BY <1>9, <1>c, <1>d DEF IndexObj
        <3> QED BY <1>c, <3>1 DEF LiveItem, LogItem, Item
    <2>a. PICK a \in LogAddr :
             a = [lnum |-> fsm_lnum, offs |-> op.offs, len |-> x.len, sqnum |-> x.sqnum]
        <3>1. fsm_lnum \in Lnums
            BY <1>9, <1>a, <1>b DEF IndexObj, OpenInv, Filling, AccountInv
        <3>2. x.sqnum \in Nat
            BY DEF LiveItem, LogItem, Item
        <3> QED BY <1>c, <1>d, <2>x, <3>1, <3>2 DEF LogAddr
    <2>y. /\ proc_obj(x.type, x.id, a, "index") /\ pc = "index" /\ sync_vars' = sync_vars
          /\ summary' = IF no_summary THEN summary ELSE sum_obj(x, a)
          /\ op' = [op EXCEPT !.i = op.i + 1, !.offs = op.offs + x.len]
          /\ caller' = caller /\ fsm_lnum' = fsm_lnum
        BY <1>9, <2>x, <2>a DEF IndexObj
    <2>p. /\ DirtyType' /\ IndexType' /\ DelType'
          /\ (pc' = "index" /\ dret' = dret) \/ (pc' = "del" /\ dret' = "index")
        <3>1. x.id \in Ids \cup {NIL_ID}
            BY DEF LiveItem, LogItem, Item
        <3> QED BY <1>a, <2>y, <3>1, ProcObjTypes
    <2>1. UNCHANGED <<flash, super, super_sqnum, formatting, next_sqnum, wbuf_vars,
                      gc_vars, scan, mq, del_list, tot_used, mlnum, ghosts, bounds,
                      fsm_lnum>>
        BY <1>9 DEF IndexObj
    <2>2. FlashType' /\ SuperType' /\ BufType' /\ GcType' /\ MountType'
          /\ GhostType' /\ BoundsType' /\ WbufInv'
        BY <1>a, <2>1, Frames
    <2>3. DirtyType'
        BY <2>p
    <2>4. IndexType'
        BY <2>p
    <2>5. OpType'
        <3>0. o.i + 1 \in Nat \ {0} /\ o.offs + x.len \in Nat
            BY <1>d, <2>x
        <3>1. PICK n \in Nat \ {0}, m \in Nat : n = o.i + 1 /\ m = o.offs + x.len
            BY <3>0
        <3>2. [o EXCEPT !.i = n, !.offs = m] \in LiveOp
            BY OpUpdates
        <3>3. op' \in LiveOp
            BY <1>c, <2>x, <2>y, <3>1, <3>2
        <3> QED BY <1>a, <2>y, <3>3 DEF OpType
    <2>6. ControlType'
        BY <1>a, <2>p, <2>y DEF ControlType, Labels
    <2>7. DelType'
        BY <2>p
    <2>8. SummaryType'
        <3>1. sum_obj(x, a) \in Seq(SumEntry)
            BY <1>a, SumObjType
        <3> QED BY <1>a, <2>y, <3>1 DEF SummaryType
    <2>9. OpenInv'
        BY <1>a, <2>p, <2>y DEF OpenInv, Filling
    <2> QED BY <2>2, <2>3, <2>4, <2>5, <2>6, <2>7, <2>8, <2>9 DEF TypeInv
<1>10. CASE DelStep
    <2>x. PICK x \in Ids : x = dcur
        BY <1>10, <1>a DEF DelStep, DelType
    <2>y. \/ /\ idx' = [idx EXCEPT ![x] = NoAddr]
             /\ gim' = gim_mark_garbage(gim, x, idx[x].sqnum)
             /\ dirty_list' = fsm_mark_dirty(dirty_list, idx[x].lnum, idx[x].len)
          \/ UNCHANGED <<index_vars, dirty_list>>
        BY <1>10, <2>x DEF DelStep
    <2>p. DirtyType' /\ IndexType'
        <3>1. CASE UNCHANGED <<index_vars, dirty_list>>
            BY <1>a, <3>1, Frames
        <3>2. CASE ~UNCHANGED <<index_vars, dirty_list>>
            <4>1. /\ idx' \in [Ids -> LogAddr \cup {NoAddr}] /\ gim' \in [Ids -> GimNode]
                  /\ dirty_list' \in [Lnums -> Nat]
                BY <1>a, <2>y, <3>2, DeletedTypes
            <4> QED BY <4>1 DEF DirtyType, IndexType
        <3> QED BY <3>1, <3>2
    <2>1. UNCHANGED <<flash, super, super_sqnum, formatting, next_sqnum, wbuf_vars,
                      op_vars, pc, sync_vars, dret, gc_vars, scan, mq, del_list,
                      tot_used, mlnum, summary, ghosts, bounds, fsm_lnum>>
        BY <1>10 DEF DelStep
    <2>2. FlashType' /\ SuperType' /\ BufType' /\ OpType' /\ ControlType'
          /\ GcType' /\ MountType' /\ SummaryType' /\ GhostType' /\ BoundsType'
          /\ OpenInv' /\ WbufInv'
        BY <1>a, <2>1, Frames
    <2>3. DirtyType'
        BY <2>p
    <2>4. IndexType'
        BY <2>p
    <2>5. DelType'
        <3>1. dcur' \in Ids \cup {NIL_ID}
            BY <1>10 DEF DelStep, idx_greater
        <3> QED BY <1>10, <1>a, <3>1 DEF DelStep, DelType
    <2> QED BY <2>2, <2>3, <2>4, <2>5 DEF TypeInv
<1>11. CASE DelDone
    <2>x. /\ del.id \in Ids \cup {NIL_ID} /\ del.addr.sqnum \in Nat
          /\ del.addr.len \in Nat /\ del.addr.lnum \in Nat
        BY <1>a DEF DelType, Job, Addr
    <2>1. UNCHANGED <<flash, super, super_sqnum, formatting, next_sqnum, wbuf_vars,
                      op_vars, gc_vars, scan, mq, del_list, tot_used, mlnum, dcur,
                      del, summary, ghosts, bounds, fsm_lnum>>
        BY <1>11 DEF DelDone
    <2>2. FlashType' /\ SuperType' /\ BufType' /\ OpType' /\ GcType' /\ MountType'
          /\ DelType' /\ SummaryType' /\ GhostType' /\ BoundsType' /\ WbufInv'
        BY <1>a, <2>1, Frames
    <2>3. DirtyType'
        <3>1. PICK d \in [Lnums -> Nat], l \in Nat, n \in Int :
                 d = dirty_list /\ l = del.addr.lnum /\ n = del.addr.len
            BY <1>a, <2>x DEF DirtyType
        <3>2. fsm_mark_dirty(d, l, n) \in [Lnums -> Nat]
            BY MarkDirtyType
        <3> QED BY <1>11, <3>1, <3>2 DEF DelDone, DirtyType
    <2>4. IndexType'
        <3>1. PICK g \in [Ids -> GimNode], s \in Nat, c \in Nat, x \in Ids \cup {NIL_ID} :
                 g = gim /\ s = del.addr.sqnum /\ c = 1 /\ x = del.id
            BY <1>a, <2>x DEF IndexType
        <3>2. gim_mark_garbage_cnt(g, x, s, c) \in [Ids -> GimNode]
            BY MarkGarbageType
        <3> QED BY <1>11, <1>a, <3>1, <3>2 DEF DelDone, IndexType, gim_mark_garbage
    <2>5. ControlType'
        BY <1>11, <1>a, <1>b DEF DelDone, ControlType, Labels, ReturnInv
    <2>6. OpenInv'
        BY <1>11, <1>a, <1>b DEF DelDone, OpenInv, Filling, ReturnInv
    <2> QED BY <2>2, <2>3, <2>4, <2>5, <2>6 DEF TypeInv
<1>12. CASE WriteDone
    <2>1. UNCHANGED <<flash, wbuf_vars, dirty_list, index_vars, gc_vars, scan, mq,
                      del_list, tot_used, mlnum, dcur, del, summary, bounds,
                      fsm_lnum>>
        BY <1>12 DEF WriteDone
    <2>2. FlashType' /\ BufType' /\ DirtyType' /\ IndexType' /\ GcType'
          /\ MountType' /\ DelType' /\ SummaryType' /\ BoundsType' /\ WbufInv'
        BY <1>a, <2>1, Frames
    <2>3. SuperType'
        BY <1>a, <1>12 DEF WriteDone, SuperType
    <2>4. OpType'
        <3>1. \/ UNCHANGED op_vars
              \/ op' = NoOp /\ UNCHANGED caller
            BY <1>12 DEF WriteDone
        <3>2. NoOp \in LiveOp
            <4>1. <<>> \in Seq(LiveItem)
                OBVIOUS
            <4> QED BY <4>1, NewOpType DEF NoOp
        <3> QED BY <1>a, <3>1, <3>2 DEF OpType
    <2>5. ControlType'
        BY <1>a, <1>12 DEF WriteDone, ControlType, Labels
    <2>6. GhostType'
        <3>1. UNCHANGED <<nsync, stale>>
            BY <1>12 DEF WriteDone
        <3>2. hist' = hist \/ hist' = Append(hist, Apply(hist[Len(hist)], op.objs))
            BY <1>12 DEF WriteDone
        <3>3. PICK h \in Seq([Ids -> Int]) : h = hist /\ h # <<>>
            BY <1>a DEF GhostType
        <3>4. PICK m \in [Ids -> Int] : m = h[Len(h)]
            BY <3>3
        <3>5. PICK objs \in Seq(LiveItem) : objs = op.objs
            BY <1>c, <1>d
        <3>6. PICK r \in [Ids -> Int] : r = Apply(m, objs)
            BY ApplyType
        <3>7. hist' = h \/ hist' = Append(h, r)
            BY <3>2, <3>3, <3>4, <3>5, <3>6
        <3>8. hist' \in Seq([Ids -> Int]) /\ hist' # <<>>
            BY <3>3, <3>7, AppendProperties, SMTT(30)
        <3> QED BY <1>a, <3>1, <3>8 DEF GhostType
    <2>7. OpenInv'
        BY <1>a, <1>b, <1>12 DEF WriteDone, OpenInv, Filling, ReturnInv
    <2> QED BY <2>2, <2>3, <2>4, <2>5, <2>6, <2>7 DEF TypeInv
<1> QED
    BY <1>1, <1>2, <1>3, <1>4, <1>5, <1>6, <1>7, <1>8, <1>9, <1>10, <1>11, <1>12
    DEF WriteStep

(* The first n objects of b are f, the others p.                           *)
Splits(b, n, f, p) ==
    n \in 0 .. Len(b) /\ f = SubSeq(b, 1, n) /\ p = SubSeq(b, n + 1, Len(b))

(* What a commit programs begins where the programmed part of the LEB ends,*)
(* and together they are the buffer.                                       *)
LEMMA PendingFacts ==
    ASSUME NEW b \in Contiguous, NEW n, NEW f, NEW p, Splits(b, n, f, p)
    PROVE  /\ f \o p = b /\ f \in Seq(LogItem) /\ p \in Seq(LogItem) /\ Len(f) = n
           /\ EndOffs(f) # EndOffs(b) => p # <<>>
           /\ p # <<>> => p[1].offs = EndOffs(f)
           /\ \A j, k \in DOMAIN p : j < k => p[j].offs <= p[k].offs
<1>0. b \in Seq(LogItem) /\ Len(b) \in Nat  BY DEF Contiguous
<1>1. /\ b \in Seq(LogItem) /\ Len(b) \in Nat /\ n \in Nat /\ n <= Len(b)
      /\ f = SubSeq(b, 1, n) /\ p = SubSeq(b, n + 1, Len(b))
    BY <1>0 DEF Splits
<1>2. PICK m \in Nat : m = Len(b)  BY <1>1
<1>3. /\ Len(f) = n /\ DOMAIN f = 1 .. n /\ f \in Seq(LogItem)
      /\ \A i \in 1 .. n : f[i] = b[i]
    BY <1>1
<1>4. /\ p \in Seq(LogItem) /\ Len(p) = m - n /\ DOMAIN p = 1 .. (m - n)
      /\ \A i \in 1 .. (m - n) : p[i] = b[n + i]
    BY <1>1, <1>2
<1>5. f \o p = b
  <2>1. PICK k \in 1 .. Len(b) + 1 : k = 1  BY <1>1
  <2>2. PICK i \in k - 1 .. Len(b) : i = n  BY <1>1, <2>1
  <2>3. PICK l \in i .. Len(b) : l = Len(b)  BY <1>1, <2>2
  <2>4. SubSeq(b, k, i) \o SubSeq(b, i + 1, l) = SubSeq(b, k, l)  BY <1>1, ConcatAdjacentSubSeq
  <2>5. SubSeq(b, 1, Len(b)) = b  BY <1>1, SubSeqFull
  <2> QED BY <1>1, <2>1, <2>2, <2>3, <2>4, <2>5
<1>6. ASSUME p = <<>> PROVE EndOffs(f) = EndOffs(b)
  <2>1. f = b  BY <1>3, <1>5, <1>6, ConcatEmptySeq
  <2> QED BY <2>1
<1>7. ASSUME p # <<>> PROVE p[1].offs = EndOffs(f)
  <2>1. 1 \in 1 .. (m - n) /\ n + 1 \in DOMAIN b /\ p[1] = b[n + 1]  BY <1>1, <1>2, <1>4, <1>7
  <2>2. b[n + 1].offs = IF n + 1 = 1 THEN 0 ELSE b[n].offs + b[n].len
    <3>1. PICK k \in DOMAIN b : k = n + 1  BY <2>1
    <3>2. b[k].offs = IF k = 1 THEN 0 ELSE b[k - 1].offs + b[k - 1].len  BY DEF Contiguous
    <3>3. k - 1 = n  BY <1>1, <3>1
    <3> QED BY <3>1, <3>2, <3>3
  <2>3. CASE n = 0
    <3>1. f = <<>>  BY <1>3, <2>3
    <3> QED BY <2>1, <2>2, <2>3, <3>1 DEF EndOffs
  <2>4. CASE n # 0
    <3>0. f # <<>>  BY <1>3, <2>4
    <3>1. f # <<>> /\ f[n] = b[n] /\ n + 1 # 1  BY <1>3, <2>4, <3>0
    <3> QED BY <1>3, <2>1, <2>2, <2>4, <3>1 DEF EndOffs
  <2> QED BY <2>3, <2>4
<1>8. ASSUME NEW j \in DOMAIN p, NEW k \in DOMAIN p, j < k PROVE p[j].offs <= p[k].offs
  <2>1. PICK i \in DOMAIN b, l \in DOMAIN b : i = n + j /\ l = n + k
      BY <1>1, <1>2, <1>4, SMTT(30)
  <2>2. i < l /\ p[j] = b[i] /\ p[k] = b[l]
    <3>1. i < l  BY <1>1, <1>2, <1>4, <1>8, <2>1
    <3> QED BY <1>4, <2>1, <3>1
  <2>3. b[i].offs + b[i].len <= b[l].offs  BY <2>2 DEF Contiguous
  <2>4. b[i] \in LogItem /\ b[l] \in LogItem  BY <1>1
  <2>5. b[i].offs \in Nat /\ b[i].len \in Nat /\ b[l].offs \in Nat  BY <2>4 DEF LogItem, Item
  <2>6. b[i].offs <= b[l].offs  BY <2>3, <2>5
  <2> QED BY <2>2, <2>6
<1> QED BY <1>3, <1>4, <1>5, <1>6, <1>7, <1>8

(* What ostore_sync does in memory keeps the buffer a sequence of objects  *)
(* that begins with what is on the flash.                                  *)
LEMMA SyncFillTypes ==
    ASSUME FlashType, SuperType, BufType, DirtyType, SummaryType, WbufInv,
           SyncAsserts, SyncFill
    PROVE  /\ DirtyType' /\ SummaryType' /\ next_sqnum' \in Nat
           /\ buf' \in Contiguous /\ used' \in Nat /\ avail' \in Nat
           /\ used' + avail' = LebSize /\ sync_offs <= used' /\ used' = EndOffs(buf')
           /\ used' = SyncUsed /\ sync_n <= Len(buf')
           /\ flash[fsm_lnum] = SubSeq(buf', 1, sync_n)
<1>1. /\ SyncPadSize \in Nat /\ SyncUsed \in Nat /\ SyncSqnum \in Nat
      /\ used <= SyncUsed /\ SyncUsed - used <= avail
      /\ SyncItems \in Seq(LogItem) /\ buf \o SyncItems \in Contiguous
      /\ Len(buf \o SyncItems) >= Len(buf)
      /\ \A k \in 1 .. Len(buf) : (buf \o SyncItems)[k] = buf[k]
      /\ EndOffs(buf \o SyncItems) = SyncUsed
    BY SyncFacts
<1>2. /\ buf' = buf \o SyncItems /\ used' = SyncUsed /\ avail' = avail - (SyncUsed - used)
      /\ summary' = IF SyncWithSummary THEN <<>> ELSE summary
      /\ next_sqnum' = SyncSqnum
      /\ dirty_list' = fsm_mark_dirty(dirty_list, fsm_lnum, SyncPadSize)
    BY DEF SyncFill
<1>3. /\ buf \in Seq(LogItem) /\ Len(buf) \in Nat /\ used \in Nat /\ avail \in Nat
      /\ sync_offs \in Nat /\ sync_n \in Nat /\ used + avail = LebSize /\ sync_offs <= used
      /\ sync_n <= Len(buf) /\ flash[fsm_lnum] = SubSeq(buf, 1, sync_n)
    BY DEF BufType, WbufInv, SyncAsserts
<1>4. DirtyType'
  <2>1. PICK d \in [Lnums -> Nat], n \in Int : d = dirty_list /\ n = SyncPadSize
      BY <1>1 DEF DirtyType
  <2>2. fsm_mark_dirty(d, fsm_lnum, n) \in [Lnums -> Nat]  BY MarkDirtyType
  <2> QED BY <1>2, <2>1, <2>2 DEF DirtyType
<1>5. SummaryType'  BY <1>2 DEF SummaryType
<1>6. used' \in Nat /\ avail' \in Nat /\ used' + avail' = LebSize /\ sync_offs <= used'
  <2>1. PICK u \in Nat : u = SyncUsed  BY <1>1
  <2>2. used <= u /\ u - used <= avail /\ used' = u /\ avail' = avail - (u - used)  BY <1>1, <1>2, <2>1
  <2> QED BY <1>3, <2>2
<1>7. buf' \in Contiguous /\ used' = EndOffs(buf')  BY <1>1, <1>2
<1>8. flash[fsm_lnum] = SubSeq(buf', 1, sync_n) /\ sync_n <= Len(buf')
  <2>1. PICK n \in Nat : n = sync_n  BY <1>3
  <2>2. PICK b \in Seq(LogItem) : b = buf  BY <1>3
  <2>3. PICK t : t = buf'  OBVIOUS
  <2>4. t \in Seq(LogItem)  BY <1>7, <2>3 DEF Contiguous
  <2>5. n <= Len(b) /\ Len(b) <= Len(t) /\ Len(b) \in Nat /\ Len(t) \in Nat
      BY <1>1, <1>2, <1>3, <2>1, <2>2, <2>3, <2>4
  <2>6. \A k \in 1 .. Len(b) : t[k] = b[k]  BY <1>1, <1>2, <2>2, <2>3
  <2>7. SubSeq(b, 1, n) = [i \in 1 .. n |-> b[i]]  BY <2>5
  <2>8. SubSeq(t, 1, n) = [i \in 1 .. n |-> t[i]]  BY <2>4, <2>5
  <2>9. \A i \in 1 .. n : t[i] = b[i]  BY <2>5, <2>6
  <2>10. SubSeq(t, 1, n) = SubSeq(b, 1, n)  BY <2>7, <2>8, <2>9
  <2>11. n <= Len(t)  BY <2>5
  <2> QED BY <1>3, <2>1, <2>2, <2>3, <2>10, <2>11
<1> QED BY <1>1, <1>2, <1>4, <1>5, <1>6, <1>7, <1>8

(* The steps of ostore_sync keep the invariant.                            *)
LEMMA SyncStepTypeInv == LogInv /\ TypeInv /\ SyncStep => TypeInv'
<1> SUFFICES ASSUME LogInv, TypeInv, SyncStep PROVE TypeInv'
    OBVIOUS
<1> USE DEF fsm_vars, wbuf_vars, index_vars, super_vars, sync_vars, op_vars,
            gc_vars, mount_vars, del_vars, ghosts, bounds
<1>a. /\ FlashType /\ SuperType /\ BufType /\ DirtyType /\ IndexType /\ OpType
      /\ ControlType /\ GcType /\ MountType /\ DelType /\ SummaryType /\ GhostType
      /\ BoundsType /\ OpenInv /\ WbufInv
    BY DEF TypeInv
<1>b. AccountInv /\ ReturnInv /\ GcInv /\ MountInv /\ FlashInv
    BY DEF LogInv
<1>c. hist \in Seq([Ids -> Int]) /\ Len(hist) \in Nat
    BY <1>a DEF GhostType
<1>1. CASE SyncNop
    <2>1. UNCHANGED <<flash, super, super_sqnum, formatting, next_sqnum, wbuf_vars,
                      dirty_list, index_vars, op_vars, gc_vars, scan, mq, del_list,
                      tot_used, mlnum, dcur, del, summary, bounds, fsm_lnum>>
        BY <1>1 DEF SyncNop
    <2>2. FlashType' /\ SuperType' /\ BufType' /\ DirtyType' /\ IndexType'
          /\ OpType' /\ GcType' /\ MountType' /\ DelType' /\ SummaryType'
          /\ BoundsType' /\ WbufInv'
        BY <1>a, <2>1, Frames
    <2>3. ControlType'
        BY <1>a, <1>b, <1>1 DEF SyncNop, ControlType, Labels, ReturnInv
    <2>4. OpenInv'
        BY <1>a, <1>b, <1>1 DEF SyncNop, OpenInv, Filling, ReturnInv
    <2>5. GhostType'
        BY <1>a, <1>c, <1>1 DEF SyncNop, GhostType
    <2> QED BY <2>2, <2>3, <2>4, <2>5 DEF TypeInv
<1>2. CASE SyncWrite
    <2>1. /\ UNCHANGED <<index_vars, op_vars, gc_vars, scan, mq, del_list, tot_used, mlnum,
                         dcur, del, bounds>>
          /\ UNCHANGED <<super_vars, fsm_lnum, sync_vars, dret, hist, stale>>
          /\ SyncAsserts /\ SyncFill /\ pc = "sync" /\ pc' = sret /\ nsync' = Len(hist)
          /\ flash' = [flash EXCEPT ![fsm_lnum] = @ \o Pending(buf')]
          /\ sync_offs' = used' /\ sync_n' = Len(buf')
        BY <1>2 DEF SyncWrite
    <2>2. /\ IndexType' /\ OpType' /\ GcType' /\ MountType' /\ DelType' /\ BoundsType'
        BY <1>a, <2>1, Frames
    <2>3. /\ DirtyType' /\ SummaryType' /\ next_sqnum' \in Nat
          /\ buf' \in Contiguous /\ used' \in Nat /\ avail' \in Nat
          /\ used' + avail' = LebSize /\ used' = EndOffs(buf')
          /\ sync_n <= Len(buf') /\ flash[fsm_lnum] = SubSeq(buf', 1, sync_n)
        BY <1>a, <2>1, SyncFillTypes
    <2>4. SuperType'
        BY <1>a, <2>1, <2>3 DEF SuperType
    <2>5. GhostType'
        BY <1>a, <1>c, <2>1 DEF GhostType
    <2>6. ControlType' /\ OpenInv'
        BY <1>a, <1>b, <2>1 DEF ControlType, Labels, OpenInv, Filling, ReturnInv
    <2>7. buf' \in Seq(LogItem) /\ Len(buf') \in Nat
        BY <2>3 DEF Contiguous
    <2>8. BufType'
        BY <2>1, <2>3, <2>7 DEF BufType
    <2>9. fsm_lnum \in Lnums
        BY <1>b, <2>1 DEF AccountInv, SyncAsserts
    <2>10. flash[fsm_lnum] \o Pending(buf') = buf'
        <3>1. PICK b \in Contiguous, n \in Nat : b = buf' /\ n = sync_n
            BY <1>a, <2>3 DEF BufType
        <3>2. PICK f, p : f = SubSeq(b, 1, n) /\ p = SubSeq(b, n + 1, Len(b))
            OBVIOUS
        <3>3. n <= Len(b)
            BY <2>3, <3>1
        <3>4. Splits(b, n, f, p)
            BY <2>7, <3>1, <3>2, <3>3 DEF Splits
        <3>5. f \o p = b
            BY <3>4, PendingFacts
        <3> QED BY <2>3, <3>1, <3>2, <3>5 DEF Pending
    <2>11. flash' = [flash EXCEPT ![fsm_lnum] = buf']
        BY <2>1, <2>10
    <2>12. FlashType' /\ flash'[fsm_lnum] = buf'
        BY <1>a, <2>7, <2>9, <2>11 DEF FlashType
    <2>13. SubSeq(buf', 1, Len(buf')) = buf'
        BY <2>7, SubSeqFull
    <2>14. WbufInv'
        <3>1. Len(buf') <= Len(buf') /\ used' <= used'
            BY <2>3, <2>7
        <3> QED BY <2>1, <2>3, <2>12, <2>13, <3>1 DEF WbufInv
    <2> QED BY <2>2, <2>3, <2>4, <2>5, <2>6, <2>8, <2>12, <2>14 DEF TypeInv
<1>3. CASE SyncError
    <2>1. /\ UNCHANGED <<flash, index_vars, gc_vars, scan, mq, del_list, tot_used, mlnum,
                         dcur, del, ghosts>>
          /\ UNCHANGED <<super_vars, fsm_lnum, sync_vars, dret, sync_offs, sync_n>>
          /\ SyncAsserts /\ SyncFill /\ pc = "sync"
          /\ (pc' = "super" /\ UNCHANGED op_vars) \/ ReturnError
        BY <1>3 DEF SyncError
    <2>2. /\ FlashType' /\ IndexType' /\ GcType' /\ MountType' /\ DelType' /\ GhostType'
        BY <1>a, <2>1, Frames
    <2>3. /\ DirtyType' /\ SummaryType' /\ next_sqnum' \in Nat
          /\ buf' \in Contiguous /\ used' \in Nat /\ avail' \in Nat
          /\ used' + avail' = LebSize /\ used' = EndOffs(buf') /\ sync_offs <= used'
          /\ sync_n <= Len(buf') /\ flash[fsm_lnum] = SubSeq(buf', 1, sync_n)
        BY <1>a, <2>1, SyncFillTypes
    <2>4. SuperType'
        BY <1>a, <2>1, <2>3 DEF SuperType
    <2>5. BoundsType'
        BY <1>3, <1>a DEF SyncError, Refused, BoundsType
    <2>6. OpType' /\ pc' \in {"super", "idle", "mfail"}
        BY <1>a, <2>1, ReturnErrorTypes, Frames
    <2>7. ControlType' /\ OpenInv'
        BY <1>a, <2>1, <2>6 DEF ControlType, Labels, OpenInv, Filling
    <2>8. BufType'
        BY <1>a, <2>1, <2>3 DEF BufType, Contiguous
    <2>9. WbufInv'
        BY <1>a, <2>1, <2>3 DEF WbufInv
    <2> QED BY <2>2, <2>3, <2>4, <2>5, <2>6, <2>7, <2>8, <2>9 DEF TypeInv
<1> QED BY <1>1, <1>2, <1>3 DEF SyncStep

(* The steps of gc_garbage_collect keep the invariant.                     *)
LEMMA GcStepTypeInv == LogInv /\ TypeInv /\ GcStep => TypeInv'
<1> SUFFICES ASSUME LogInv, TypeInv, GcStep PROVE TypeInv'
    OBVIOUS
<1> USE DEF fsm_vars, wbuf_vars, index_vars, super_vars, sync_vars, op_vars,
            gc_vars, mount_vars, del_vars, ghosts, bounds
<1>a. /\ FlashType /\ SuperType /\ BufType /\ DirtyType /\ IndexType /\ OpType
      /\ ControlType /\ GcType /\ MountType /\ DelType /\ SummaryType /\ GhostType
      /\ BoundsType /\ OpenInv /\ WbufInv
    BY DEF TypeInv
<1>b. AccountInv /\ ReturnInv /\ GcInv /\ MountInv /\ FlashInv
    BY DEF LogInv
<1>1. CASE GcStart
    <2>1. UNCHANGED <<flash, super, super_sqnum, formatting, next_sqnum, wbuf_vars,
                      dirty_list, index_vars, mq, del_list, tot_used, mlnum, dcur,
                      del, summary, ghosts, fsm_lnum>>
        BY <1>1 DEF GcStart
    <2>2. FlashType' /\ SuperType' /\ BufType' /\ DirtyType' /\ IndexType'
          /\ MountType' /\ DelType' /\ SummaryType' /\ GhostType' /\ WbufInv'
        BY <1>a, <2>1, Frames
    <2>3. GcType'
        <3>1. CASE UNCHANGED <<gc_vars, scan>>
            BY <1>a, <3>1, Frames
        <3>2. CASE ~UNCHANGED <<gc_vars, scan>>
            <4>1. PICK l \in Lnums : /\ gc_lnum' = l /\ scan' = flash[l]
                                     /\ gc_list' = <<>> /\ gc_valid' = <<>>
                BY <1>1, <3>2 DEF GcStart
            <4> QED BY <1>a, <4>1 DEF GcType, FlashType
        <3> QED BY <3>1, <3>2
    <2>4. OpType'
        <3>1. UNCHANGED op_vars \/ ReturnError
            BY <1>1 DEF GcStart
        <3> QED BY <1>a, <3>1, ReturnErrorTypes, Frames
    <2>5. ControlType'
        BY <1>a, <1>1 DEF GcStart, ReturnError, ControlType, Labels
    <2>6. BoundsType'
        BY <1>a, <1>1 DEF GcStart, Refused, BoundsType
    <2>7. OpenInv'
        BY <1>a, <1>b, <1>1 DEF GcStart, ReturnError, OpenInv, Filling, ReturnInv
    <2> QED BY <2>2, <2>3, <2>4, <2>5, <2>6, <2>7 DEF TypeInv
<1>2. CASE GcScan
    <2>1. UNCHANGED <<flash, super, super_sqnum, formatting, next_sqnum, wbuf_vars,
                      dirty_list, index_vars, mq, del_list, tot_used, mlnum, dcur,
                      del, summary, ghosts, bounds, fsm_lnum>>
        BY <1>2 DEF GcScan
    <2>2. FlashType' /\ SuperType' /\ BufType' /\ DirtyType' /\ IndexType'
          /\ MountType' /\ DelType' /\ SummaryType' /\ GhostType' /\ BoundsType'
          /\ WbufInv'
        BY <1>a, <2>1, Frames
    <2>3. GcType'
        <3>1. PICK s \in Seq(LogItem) : s = scan /\ s # <<>>
            BY <1>2, <1>a DEF GcScan, GcType
        <3>2. PICK x \in LogItem, t \in Seq(LogItem) : x = Head(scan) /\ t = Tail(scan)
            BY <3>1, HeadTailType
        <3>3. \/ scan' \in {<<>>, t} /\ UNCHANGED gc_vars
              \/ /\ scan' = t /\ gc_list' = Append(gc_list, x) /\ gc_lnum' = gc_lnum
                 /\ x.type \notin {RAW, TORN}
                 /\ gc_valid' = IF gim_is_removable(x) THEN gc_valid ELSE Append(gc_valid, x)
            BY <1>2, <3>2 DEF GcScan
        <3>4. x.type \notin {RAW, TORN} /\ ~gim_is_removable(x) => x \in LiveItem
            <4>1. x.type \in Types
                BY DEF LogItem, Item
            <4> QED BY <4>1 DEF LiveItem, ClientTypes, gim_is_removable, Types
        <3>5. /\ gc_list \in Seq(LogItem) /\ gc_valid \in Seq(LiveItem) /\ gc_lnum \in Lnums \cup {0}
            BY <1>a DEF GcType
        <3>6. /\ Append(gc_list, x) \in Seq(LogItem)
              /\ x \in LiveItem => Append(gc_valid, x) \in Seq(LiveItem)
            BY <3>5
        <3>7. /\ scan' \in Seq(LogItem) /\ gc_lnum' = gc_lnum
              /\ gc_list' = gc_list \/ gc_list' = Append(gc_list, x)
              /\ gc_valid' = gc_valid \/ (x \in LiveItem /\ gc_valid' = Append(gc_valid, x))
            <4>1. <<>> \in Seq(LogItem) /\ t \in Seq(LogItem)
                OBVIOUS
            <4>2. scan' \in Seq(LogItem)
                BY <3>3, <4>1
            <4>3. CASE UNCHANGED gc_vars
                BY <4>2, <4>3
            <4>4. CASE ~UNCHANGED gc_vars
                <5>1. /\ gc_list' = Append(gc_list, x) /\ gc_lnum' = gc_lnum
                      /\ x.type \notin {RAW, TORN}
                      /\ gc_valid' = IF gim_is_removable(x) THEN gc_valid ELSE Append(gc_valid, x)
                    BY <3>3, <4>4
                <5> QED BY <3>4, <4>2, <5>1
            <4> QED BY <4>3, <4>4
        <3>8. gc_list' \in Seq(LogItem) /\ gc_valid' \in Seq(LiveItem)
            BY <3>5, <3>6, <3>7
        <3> QED BY <3>5, <3>7, <3>8 DEF GcType
    <2>4. OpType'
        <3>1. UNCHANGED op_vars \/ ReturnError
            BY <1>2 DEF GcScan
        <3> QED BY <1>a, <3>1, ReturnErrorTypes, Frames
    <2>5. ControlType'
        BY <1>a, <1>2 DEF GcScan, ReturnError, ControlType, Labels
    <2>6. OpenInv'
        BY <1>a, <1>b, <1>2 DEF GcScan, ReturnError, OpenInv, Filling, ReturnInv
    <2> QED BY <2>2, <2>3, <2>4, <2>5, <2>6 DEF TypeInv
<1>3. CASE GcCopy
    <2>1. UNCHANGED <<flash, super, super_sqnum, formatting, next_sqnum, wbuf_vars,
                      dirty_list, index_vars, gc_vars, scan, mq, del_list,
                      tot_used, mlnum, dcur, del, summary, ghosts, bounds, fsm_lnum>>
        BY <1>3 DEF GcCopy
    <2>2. FlashType' /\ SuperType' /\ BufType' /\ DirtyType' /\ IndexType'
          /\ GcType' /\ MountType' /\ DelType' /\ SummaryType' /\ GhostType'
          /\ BoundsType' /\ WbufInv'
        BY <1>a, <2>1, Frames
    <2>3. OpType'
        <3>1. ReturnError \/ (caller' = <<op>> /\ op' = NewOp(gc_valid, "GC"))
            BY <1>3 DEF GcCopy
        <3>2. PICK s \in Seq(LiveItem) : s = gc_valid
            BY <1>a DEF GcType
        <3>3. NewOp(s, "GC") \in LiveOp
            BY NewOpType
        <3>4. <<op>> \in Seq(LiveOp) /\ Len(<<op>>) = 1
            BY <1>a DEF OpType
        <3>5. caller' = <<op>> /\ op' = NewOp(gc_valid, "GC") => OpType'
            BY <3>2, <3>3, <3>4 DEF OpType
        <3> QED BY <3>1, <3>5, ReturnErrorTypes
    <2>4. ControlType'
        BY <1>a, <1>3 DEF GcCopy, ReturnError, ControlType, Labels
    <2>5. OpenInv'
        BY <1>a, <1>b, <1>3 DEF GcCopy, ReturnError, OpenInv, Filling, ReturnInv
    <2> QED BY <2>2, <2>3, <2>4, <2>5 DEF TypeInv
<1>4. CASE GcErase
    <2>1. /\ UNCHANGED <<super, super_sqnum, formatting, next_sqnum, wbuf_vars, index_vars,
                         gc_vars, scan, mq, del_list, tot_used, mlnum, dcur, del, summary,
                         ghosts, fsm_lnum>>
          /\ UNCHANGED <<sync_vars, dret>> /\ pc = "gcerase" /\ caller # <<>>
        BY <1>4, <1>b DEF GcErase, GcInv
    <2>2. /\ SuperType' /\ BufType' /\ IndexType' /\ GcType' /\ MountType' /\ DelType'
          /\ SummaryType' /\ GhostType'
        BY <1>a, <2>1, Frames
    <2>3. BoundsType'
        BY <1>4, <1>a DEF GcErase, Refused, BoundsType
    <2>4. \/ /\ wbuf_erase(gc_lnum) /\ fsm_mark_erased(gc_lnum)
             /\ pc' = "gcgim" /\ UNCHANGED op_vars
          \/ ReturnError /\ UNCHANGED <<flash, dirty_list>>
        BY <1>4 DEF GcErase
    <2>5. gc_lnum \in Lnums /\ gc_lnum # fsm_lnum
        BY <1>b, <2>1 DEF GcInv, GcHolds
    <2>6. CASE ReturnError /\ UNCHANGED <<flash, dirty_list>>
        <3>1. FlashType' /\ DirtyType' /\ WbufInv'
            BY <1>a, <2>1, <2>6, Frames
        <3>2. OpType' /\ pc' \in {"idle", "mfail"}
            BY <2>6, ReturnErrorTypes
        <3>3. ControlType' /\ OpenInv'
            BY <1>a, <2>1, <3>2 DEF ControlType, Labels, OpenInv, Filling
        <3> QED BY <2>2, <2>3, <3>1, <3>2, <3>3 DEF TypeInv
    <2>7. CASE /\ wbuf_erase(gc_lnum) /\ fsm_mark_erased(gc_lnum)
               /\ pc' = "gcgim" /\ UNCHANGED op_vars
        <3>1. FlashType' /\ flash'[fsm_lnum] = flash[fsm_lnum]
            BY <1>a, <2>5, <2>7 DEF wbuf_erase, FlashType
        <3>2. DirtyType'
            BY <1>a, <2>7 DEF fsm_mark_erased, DirtyType
        <3>3. WbufInv'
            BY <1>a, <2>1, <3>1 DEF WbufInv
        <3>4. OpType'
            BY <1>a, <2>7, Frames
        <3>5. ControlType' /\ OpenInv'
            BY <1>a, <2>1, <2>7 DEF ControlType, Labels, OpenInv, Filling
        <3> QED BY <2>2, <2>3, <3>1, <3>2, <3>3, <3>4, <3>5 DEF TypeInv
    <2> QED BY <2>4, <2>6, <2>7
<1>5. CASE GcGim
    <2>1. UNCHANGED <<flash, super, super_sqnum, formatting, next_sqnum, wbuf_vars,
                      dirty_list, op_vars, pc, sync_vars, dret, mq, del_list,
                      tot_used, mlnum, dcur, del, summary, ghosts, bounds, fsm_lnum>>
        BY <1>5 DEF GcGim
    <2>2. FlashType' /\ SuperType' /\ BufType' /\ DirtyType' /\ OpType'
          /\ ControlType' /\ MountType' /\ DelType' /\ SummaryType' /\ GhostType'
          /\ BoundsType' /\ OpenInv' /\ WbufInv'
        BY <1>a, <2>1, Frames
    <2>3. IndexType'
        <3>1. PICK g, x : g \in [Ids -> GimNode] /\ g = gim /\ x = Head(gc_list)
            BY <1>a DEF IndexType
        <3>2. gim_garbage_collected(g, x) \in [Ids -> GimNode]
            BY <3>1, CollectedType
        <3> QED BY <1>5, <1>a, <3>1, <3>2 DEF GcGim, IndexType
    <2>4. GcType'
        <3>1. PICK s \in Seq(LogItem) : s = gc_list /\ s # <<>>
            BY <1>5, <1>a DEF GcGim, GcType
        <3>2. Tail(s) \in Seq(LogItem)
            BY <3>1, HeadTailType
        <3> QED BY <1>5, <1>a, <3>1, <3>2 DEF GcGim, GcType
    <2> QED BY <2>2, <2>3, <2>4 DEF TypeInv
<1>6. CASE GcReturn
    <2>1. UNCHANGED <<flash, super, super_sqnum, formatting, next_sqnum, wbuf_vars,
                      dirty_list, index_vars, gc_vars, scan, mq, del_list,
                      tot_used, mlnum, dcur, del, summary, ghosts, bounds, fsm_lnum>>
        BY <1>6 DEF GcReturn
    <2>2. FlashType' /\ SuperType' /\ BufType' /\ DirtyType' /\ IndexType'
          /\ GcType' /\ MountType' /\ DelType' /\ SummaryType' /\ GhostType'
          /\ BoundsType' /\ WbufInv'
        BY <1>a, <2>1, Frames
    <2>3. OpType'
        <3>1. op' = caller[1] /\ caller' = <<>> /\ pc = "gcgim"
            BY <1>6 DEF GcReturn
        <3>2. caller[1] \in LiveOp
            <4>1. caller \in Seq(LiveOp) /\ caller # <<>>
                BY <1>a, <3>1 DEF OpType, ControlType
            <4> QED BY <4>1
        <3> QED BY <3>1, <3>2 DEF OpType
    <2>4. ControlType'
        BY <1>a, <1>6 DEF GcReturn, ControlType, Labels
    <2>5. OpenInv'
        BY <1>a, <1>b, <1>6 DEF GcReturn, OpenInv, Filling, ReturnInv
    <2> QED BY <2>2, <2>3, <2>4, <2>5 DEF TypeInv
<1>7. CASE AllocAfterGc
    <2>1. /\ UNCHANGED <<flash, super_vars, next_sqnum, index_vars, gc_vars, scan, mq,
                         del_list, tot_used, mlnum, dcur, del, summary, ghosts, bounds>>
          /\ UNCHANGED <<sync_vars, dret>> /\ pc = "gcret"
        BY <1>7 DEF AllocAfterGc
    <2>2. /\ FlashType' /\ SuperType' /\ IndexType' /\ GcType' /\ MountType' /\ DelType'
          /\ SummaryType' /\ GhostType' /\ BoundsType'
        BY <1>a, <2>1, Frames
    <2>3. CASE AllocTake
        <3>1. Scanned(LebCnt)
            BY <1>b, <2>1 DEF FlashInv, InLeb
        <3>2. /\ BufType' /\ OpType' /\ WbufInv'
              /\ UNCHANGED <<dirty_list, caller>> /\ fsm_lnum' # 0
              /\ pc' \in {"presync", "write"}
            BY <1>a, <2>1, <2>3, <3>1, AllocTakeTypes
        <3>3. DirtyType'
            BY <1>a, <3>2, Frames
        <3>4. ControlType' /\ OpenInv'
            BY <1>a, <2>1, <3>2 DEF ControlType, Labels, OpenInv
        <3> QED BY <2>2, <3>2, <3>3, <3>4 DEF TypeInv
    <2>4. CASE ~AllocTake
        <3>1. UNCHANGED <<fsm_vars, wbuf_vars>> /\ ReturnError
            BY <1>7, <2>4 DEF AllocAfterGc
        <3>2. DirtyType' /\ BufType' /\ WbufInv'
            BY <1>a, <2>1, <3>1, Frames
        <3>3. OpType' /\ pc' \in {"idle", "mfail"}
            BY <3>1, ReturnErrorTypes
        <3>4. ControlType' /\ OpenInv'
            BY <1>a, <2>1, <3>3 DEF ControlType, Labels, OpenInv, Filling
        <3> QED BY <2>2, <3>2, <3>3, <3>4 DEF TypeInv
    <2> QED BY <2>3, <2>4
<1> QED BY <1>1, <1>2, <1>3, <1>4, <1>5, <1>6, <1>7 DEF GcStep

(* The fields of an address to process.                                    *)
LEMMA JobFields ==
    ASSUME NEW j \in LogJob
    PROVE  /\ j.addr \in LogAddr /\ j.id \in Ids \cup {NIL_ID} /\ j.count \in Nat
           /\ j.addr.len \in Nat /\ j.addr.sqnum \in Nat
<1>1. j \in Job /\ j.addr \in LogAddr  BY DEF LogJob
<1>2. j.id \in Ids \cup {NIL_ID} /\ j.count \in Nat  BY <1>1 DEF Job
<1>3. j.addr.len \in Nat /\ j.addr.sqnum \in Nat  BY <1>1 DEF LogAddr
<1> QED BY <1>1, <1>2, <1>3

(* A memory that has been lost satisfies the invariant, whatever objects   *)
(* are on the flash.                                                       *)
LEMMA LoseMemoryTypeInv ==
    ASSUME LoseMemory, FlashType', super' \in Nat, GhostType', BoundsType'
    PROVE  TypeInv'
<1>1. LebCnt \in Nat  BY GeometryAssumption
<1>2. SuperType'  BY DEF LoseMemory, SuperType
<1>3. BufType' /\ WbufInv'  BY DEF LoseMemory, BufType, wbuf_reset, fsm_reset, WbufInv
<1>4. DirtyType'  BY DEF LoseMemory, DirtyType, fsm_reset
<1>5. IndexType'  BY DEF LoseMemory, IndexType, idx_init, gim_init, NoGarbage, GimNode
<1>6. OpType'
  <2>1. <<>> \in Seq(LiveItem) /\ <<>> \in Seq(LiveOp) /\ Len(<<>>) <= 1  OBVIOUS
  <2>2. NoOp \in LiveOp  BY <2>1, NewOpType DEF NoOp
  <2> QED BY <2>1, <2>2 DEF LoseMemory, OpType
<1>7. ControlType' /\ OpenInv'
    BY DEF LoseMemory, ControlType, Labels, OpenInv, Filling
<1>8. GcType' /\ MountType' /\ SummaryType'
    BY DEF LoseMemory, GcType, MountType, SummaryType
<1>9. DelType'
  <2>1. NoJob \in Job  BY DEF NoJob, Job, NoAddr, Addr, Types
  <2> QED BY <2>1 DEF LoseMemory, DelType
<1> QED BY <1>2, <1>3, <1>4, <1>5, <1>6, <1>7, <1>8, <1>9 DEF TypeInv

(* The steps of ostore_mount keep the invariant.                           *)
LEMMA MountStepTypeInv == LogInv /\ TypeInv /\ MountStep => TypeInv'
<1> SUFFICES ASSUME LogInv, TypeInv, MountStep PROVE TypeInv'
    OBVIOUS
<1> USE DEF fsm_vars, wbuf_vars, index_vars, super_vars, sync_vars, op_vars,
            gc_vars, mount_vars, del_vars, ghosts, bounds
<1>a. /\ FlashType /\ SuperType /\ BufType /\ DirtyType /\ IndexType /\ OpType
      /\ ControlType /\ GcType /\ MountType /\ DelType /\ SummaryType /\ GhostType
      /\ BoundsType /\ OpenInv /\ WbufInv
    BY DEF TypeInv
<1>b. AccountInv /\ ReturnInv /\ GcInv /\ MountInv /\ FlashInv
    BY DEF LogInv
<1>1. CASE MountLeb
    <2>l. mlnum \in Lnums
        <3>1. mlnum \in Nat /\ LogFstLnum <= mlnum /\ mlnum < LebCnt
            BY <1>1, <1>b DEF MountLeb, MountInv
        <3> QED BY <3>1, GeometryAssumption DEF Lnums
    <2>1. UNCHANGED <<flash, super, super_sqnum, formatting, next_sqnum, wbuf_vars,
                      dirty_list, index_vars, op_vars, dcur, del, summary, ghosts,
                      bounds, fsm_lnum>>
        BY <1>1 DEF MountLeb
    <2>2. FlashType' /\ SuperType' /\ BufType' /\ DirtyType' /\ IndexType'
          /\ OpType' /\ DelType' /\ SummaryType' /\ GhostType' /\ BoundsType'
          /\ WbufInv'
        BY <1>a, <2>1, Frames
    <2>3. GcType'
        BY <1>1, <1>a, <2>l DEF MountLeb, GcType, FlashType
    <2>4. MountType'
        <3>1. CASE mq' \in {mq, <<>>}
            <4>1. <<>> \in Seq(LogJob)
                OBVIOUS
            <4>2. mlnum' \in Nat /\ tot_used' \in Nat /\ del_list' = del_list
                BY <1>1, <1>a DEF MountLeb, MountType
            <4> QED BY <1>a, <3>1, <4>1, <4>2 DEF MountType
        <3>2. CASE mq' \notin {mq, <<>>}
            <4>1. /\ mq' = [k \in DOMAIN flash[mlnum][Len(flash[mlnum])].ents |->
                                EntryJob(mlnum, flash[mlnum][Len(flash[mlnum])].ents[k])]
                  /\ tot_used' = 0 /\ ubi_is_mapped(mlnum)
                  /\ UNCHANGED <<del_list, mlnum>>
                BY <1>1, <3>2 DEF MountLeb
            <4>2. PICK s \in Seq(LogItem) : s = flash[mlnum] /\ s # <<>>
                BY <1>a, <2>l, <4>1 DEF FlashType, ubi_is_mapped
            <4>3. s[Len(s)] \in LogItem
                BY <4>2
            <4>4. PICK e \in Seq(SumEntry) : e = s[Len(s)].ents
                BY <4>3 DEF LogItem, Item
            <4>5. \A x \in SumEntry : EntryJob(mlnum, x) \in LogJob
                BY <2>l, JobTypes
            <4>6. [k \in DOMAIN e |-> EntryJob(mlnum, e[k])] \in Seq(LogJob)
                <5>1. \A k \in DOMAIN e : EntryJob(mlnum, e[k]) \in LogJob
                    BY <4>5
                <5> QED BY <5>1
            <4> QED BY <1>a, <4>1, <4>2, <4>4, <4>6 DEF MountType
        <3> QED BY <3>1, <3>2
    <2>5. ControlType'
        BY <1>a, <1>1 DEF MountLeb, ControlType, Labels
    <2>6. OpenInv'
        BY <1>a, <1>b, <1>1 DEF MountLeb, OpenInv, Filling, ReturnInv
    <2> QED BY <2>2, <2>3, <2>4, <2>5, <2>6 DEF TypeInv
<1>2. CASE MountSum
    <2>j. PICK j \in LogJob, t \in Seq(LogJob) : j = Head(mq) /\ t = Tail(mq)
        <3>1. PICK q \in Seq(LogJob) : q = mq /\ q # <<>>
            BY <1>2, <1>a DEF MountSum, MountType
        <3> QED BY <3>1, HeadTailType
    <2>f. /\ j.addr \in LogAddr /\ j.count \in Nat
          /\ j.addr.len \in Nat /\ j.addr.sqnum \in Nat
        BY JobFields
    <2>1. UNCHANGED <<flash, super, super_sqnum, formatting, next_sqnum, wbuf_vars,
                      op_vars, pc, sync_vars, dret, gc_vars, scan, dcur, del,
                      summary, ghosts, bounds, fsm_lnum>>
        BY <1>2 DEF MountSum
    <2>2. FlashType' /\ SuperType' /\ BufType' /\ OpType' /\ ControlType'
          /\ GcType' /\ DelType' /\ SummaryType' /\ GhostType' /\ BoundsType'
          /\ OpenInv' /\ WbufInv'
        BY <1>a, <2>1, Frames
    <2>3. DirtyType'
        <3>1. dirty_list' = dirty_list \/ dirty_list' = fsm_mark_dirty(dirty_list, j.addr.lnum, j.addr.len)
            BY <1>2, <2>j DEF MountSum, proc_dirty
        <3>2. PICK d \in [Lnums -> Nat], n \in Int : d = dirty_list /\ n = j.addr.len
            BY <1>a, <2>f DEF DirtyType
        <3>3. fsm_mark_dirty(d, j.addr.lnum, n) \in [Lnums -> Nat]
            BY MarkDirtyType
        <3> QED BY <1>a, <3>1, <3>2, <3>3 DEF DirtyType
    <2>4. IndexType'
        <3>1. PICK g \in [Ids -> GimNode], s \in Nat, c \in Nat, u \in Nat :
                 g = gim /\ s = j.addr.sqnum /\ c = j.count /\ u = 1
            BY <1>a, <2>f DEF IndexType
        <3>2. PICK h \in [Ids -> GimNode] : h = gim_mark_garbage_cnt(g, j.id, s, u)
            BY MarkGarbageType
        <3>3. /\ gim_mark_garbage_cnt(g, j.id, s, c) \in [Ids -> GimNode]
              /\ gim_mark_garbage_cnt(h, j.id, s, c) \in [Ids -> GimNode]
            BY MarkGarbageType
        <3>4. proc_gim(j.id, j.addr) \in {g, h}
            BY <3>1, <3>2 DEF proc_gim, gim_mark_garbage
        <3>5. gim' \in [Ids -> GimNode]
            BY <1>2, <2>j, <3>1, <3>3, <3>4 DEF MountSum
        <3>6. proc_idx(j.id, j.addr) \in [Ids -> LogAddr \cup {NoAddr}]
            BY <1>a, <2>f, ProcIdxType DEF IndexType
        <3>7. idx' = idx \/ idx' = proc_idx(j.id, j.addr)
            BY <1>2, <2>j DEF MountSum
        <3> QED BY <1>a, <3>5, <3>6, <3>7 DEF IndexType
    <2>5. MountType'
        <3>1. /\ del_list' = del_list \/ del_list' = <<j>> \o del_list
              /\ tot_used' = tot_used + j.addr.len /\ mlnum' = mlnum /\ mq' = t
            BY <1>2, <2>j DEF MountSum
        <3>2. <<j>> \o del_list \in Seq(LogJob)
            BY <1>a DEF MountType
        <3>3. tot_used' \in Nat
            BY <1>a, <2>f, <3>1 DEF MountType
        <3>4. del_list' \in Seq(LogJob)
            BY <1>a, <3>1, <3>2 DEF MountType
        <3> QED BY <1>a, <3>1, <3>3, <3>4 DEF MountType
    <2> QED BY <2>2, <2>3, <2>4, <2>5 DEF TypeInv
<1>3. CASE MountSumDone
    <2>1. UNCHANGED <<flash, super, super_sqnum, formatting, next_sqnum, wbuf_vars,
                      index_vars, op_vars, gc_vars, scan, dcur, del, summary,
                      ghosts, bounds, fsm_lnum>>
        BY <1>3 DEF MountSumDone
    <2>2. FlashType' /\ SuperType' /\ BufType' /\ IndexType' /\ OpType' /\ GcType'
          /\ DelType' /\ SummaryType' /\ GhostType' /\ BoundsType' /\ WbufInv'
        BY <1>a, <2>1, Frames
    <2>3. DirtyType'
        <3>1. PICK d \in [Lnums -> Nat], n \in Int : d = dirty_list /\ n = LebSize - tot_used
            BY <1>a, GeometryAssumption DEF DirtyType, MountType
        <3>2. fsm_mark_dirty(d, mlnum, n) \in [Lnums -> Nat]
            BY MarkDirtyType
        <3> QED BY <1>3, <3>1, <3>2 DEF MountSumDone, DirtyType
    <2>4. MountType'
        BY <1>3, <1>a DEF MountSumDone, MountType
    <2>5. ControlType'
        BY <1>a, <1>3 DEF MountSumDone, ControlType, Labels
    <2>6. OpenInv'
        BY <1>a, <1>b, <1>3 DEF MountSumDone, OpenInv, Filling, ReturnInv
    <2> QED BY <2>2, <2>3, <2>4, <2>5, <2>6 DEF TypeInv
<1>4. CASE MountScan
    <2>l. mlnum \in Lnums
        <3>1. mlnum \in Nat /\ LogFstLnum <= mlnum /\ mlnum < LebCnt
            BY <1>4, <1>b DEF MountScan, MountInv, InLeb
        <3> QED BY <3>1, GeometryAssumption DEF Lnums
    <2>s. PICK x \in LogItem, t \in Seq(LogItem) : x = Head(scan) /\ t = Tail(scan)
        <3>1. PICK q \in Seq(LogItem) : q = scan /\ q # <<>>
            BY <1>4, <1>a DEF MountScan, GcType
        <3> QED BY <3>1, HeadTailType
    <2>1. UNCHANGED <<flash, super, super_sqnum, formatting, next_sqnum, wbuf_vars,
                      dirty_list, index_vars, op_vars, dcur, del, summary, ghosts,
                      bounds, fsm_lnum>>
        BY <1>4 DEF MountScan
    <2>2. FlashType' /\ SuperType' /\ BufType' /\ DirtyType' /\ IndexType'
          /\ OpType' /\ DelType' /\ SummaryType' /\ GhostType' /\ BoundsType'
          /\ WbufInv'
        BY <1>a, <2>1, Frames
    <2>3. GcType'
        BY <1>4, <1>a, <2>s DEF MountScan, GcType
    <2>4. MountType'
        <3>1. ItemJob(mlnum, x) \in LogJob
            BY <2>l, JobTypes
        <3>2. PICK q \in Seq(LogJob) : q = Append(mq, ItemJob(mlnum, x))
            <4>1. mq \in Seq(LogJob)
                BY <1>a DEF MountType
            <4>2. Append(mq, ItemJob(mlnum, x)) \in Seq(LogJob)
                BY <3>1, <4>1, AppendProperties
            <4> QED BY <4>2
        <3>3. mq' = mq \/ mq' = <<>> \/ mq' = q
            BY <1>4, <2>s, <3>2 DEF MountScan
        <3>4. <<>> \in Seq(LogJob)
            OBVIOUS
        <3>5. UNCHANGED <<del_list, tot_used, mlnum>>
            BY <1>4 DEF MountScan
        <3> QED BY <1>a, <3>2, <3>3, <3>4, <3>5 DEF MountType
    <2>5. ControlType'
        BY <1>a, <1>4 DEF MountScan, ControlType, Labels
    <2>6. OpenInv'
        BY <1>a, <1>b, <1>4 DEF MountScan, OpenInv, Filling, ReturnInv
    <2> QED BY <2>2, <2>3, <2>4, <2>5, <2>6 DEF TypeInv
<1>5. CASE MountTrans
    <2>j. PICK j \in LogJob, t \in Seq(LogJob) : j = Head(mq) /\ t = Tail(mq)
        <3>1. PICK q \in Seq(LogJob) : q = mq /\ q # <<>>
            BY <1>5, <1>a DEF MountTrans, MountType
        <3> QED BY <3>1, HeadTailType
    <2>p. /\ DirtyType' /\ IndexType' /\ DelType'
          /\ (pc' = "mtrans" /\ dret' = dret) \/ (pc' = "del" /\ dret' = "mtrans")
        <3>1. CASE UNCHANGED <<pc, index_vars, dirty_list, del_vars>>
            BY <1>5, <1>a, <3>1, Frames DEF MountTrans
        <3>2. CASE proc_obj(j.type, j.id, j.addr, "mtrans")
            <4>1. j.addr \in LogAddr /\ j.id \in Ids \cup {NIL_ID}
                BY JobFields
            <4> QED BY <1>a, <3>2, <4>1, ProcObjTypes
        <3> QED BY <1>5, <2>j, <3>1, <3>2 DEF MountTrans
    <2>1. UNCHANGED <<flash, super, super_sqnum, formatting, next_sqnum, wbuf_vars,
                      op_vars, gc_vars, scan, summary, ghosts, bounds, fsm_lnum>>
        BY <1>5 DEF MountTrans
    <2>2. FlashType' /\ SuperType' /\ BufType' /\ OpType' /\ GcType'
          /\ SummaryType' /\ GhostType' /\ BoundsType' /\ WbufInv'
        BY <1>a, <2>1, Frames
    <2>3. DirtyType'
        BY <2>p
    <2>4. IndexType'
        BY <2>p
    <2>5. ControlType'
        BY <1>a, <1>5, <2>p DEF MountTrans, ControlType, Labels
    <2>6. MountType'
        <3>1. /\ del_list' = del_list \/ del_list' = <<j>> \o del_list
              /\ tot_used' = tot_used /\ mlnum' = mlnum /\ mq' = t
            BY <1>5, <2>j DEF MountTrans
        <3>2. <<j>> \o del_list \in Seq(LogJob)
            BY <1>a DEF MountType
        <3> QED BY <1>a, <3>1, <3>2 DEF MountType
    <2>7. DelType'
        BY <2>p
    <2>8. OpenInv'
        BY <1>a, <1>5, <2>p DEF MountTrans, OpenInv, Filling
    <2> QED BY <2>2, <2>3, <2>4, <2>5, <2>6, <2>7, <2>8 DEF TypeInv
<1>6. CASE MountTransDone
    <2>1. UNCHANGED <<flash, super, super_sqnum, formatting, next_sqnum, wbuf_vars,
                      dirty_list, index_vars, op_vars, gc_vars, scan, mq, del_list,
                      tot_used, mlnum, dcur, del, summary, ghosts, bounds, fsm_lnum>>
        BY <1>6 DEF MountTransDone
    <2>2. FlashType' /\ SuperType' /\ BufType' /\ DirtyType' /\ IndexType'
          /\ OpType' /\ GcType' /\ MountType' /\ DelType' /\ SummaryType'
          /\ GhostType' /\ BoundsType' /\ WbufInv'
        BY <1>a, <2>1, Frames
    <2>3. ControlType'
        BY <1>a, <1>6 DEF MountTransDone, ControlType, Labels
    <2>4. OpenInv'
        BY <1>a, <1>b, <1>6 DEF MountTransDone, OpenInv, Filling, ReturnInv
    <2> QED BY <2>2, <2>3, <2>4 DEF TypeInv
<1>7. CASE MountScanDone
    <2>l. mlnum \in Lnums
        <3>1. mlnum \in Nat /\ LogFstLnum <= mlnum /\ mlnum < LebCnt
            BY <1>7, <1>b DEF MountScanDone, MountInv, InLeb
        <3> QED BY <3>1, GeometryAssumption DEF Lnums
    <2>1. UNCHANGED <<flash, super, super_sqnum, formatting, next_sqnum, wbuf_vars,
                      index_vars, op_vars, gc_vars, scan, dcur, del, summary,
                      ghosts, bounds, fsm_lnum>>
        BY <1>7 DEF MountScanDone
    <2>2. FlashType' /\ SuperType' /\ BufType' /\ IndexType' /\ OpType' /\ GcType'
          /\ DelType' /\ SummaryType' /\ GhostType' /\ BoundsType' /\ WbufInv'
        BY <1>a, <2>1, Frames
    <2>3. DirtyType'
        <3>1. EndOffs(flash[mlnum]) \in Nat
            BY <1>a, <2>l, EndOffsNat DEF FlashType
        <3>2. PICK d \in [Lnums -> Nat], n \in Int :
                 d = dirty_list /\ n = LebSize - EndOffs(flash[mlnum])
            BY <1>a, <3>1, GeometryAssumption DEF DirtyType
        <3>3. fsm_mark_dirty(d, mlnum, n) \in [Lnums -> Nat]
            BY MarkDirtyType
        <3> QED BY <1>7, <3>2, <3>3 DEF MountScanDone, DirtyType
    <2>4. MountType'
        BY <1>7, <1>a DEF MountScanDone, MountType
    <2>5. ControlType'
        BY <1>a, <1>7 DEF MountScanDone, ControlType, Labels
    <2>6. OpenInv'
        BY <1>a, <1>b, <1>7 DEF MountScanDone, OpenInv, Filling, ReturnInv
    <2> QED BY <2>2, <2>3, <2>4, <2>5, <2>6 DEF TypeInv
<1>8. CASE MountDel
    <2>j. PICK j \in LogJob, t \in Seq(LogJob) : j = Head(del_list) /\ t = Tail(del_list)
        <3>1. PICK q \in Seq(LogJob) : q = del_list /\ q # <<>>
            BY <1>8, <1>a DEF MountDel, MountType
        <3> QED BY <3>1, HeadTailType
    <2>p. /\ DirtyType' /\ IndexType' /\ DelType'
          /\ (pc' = "mleb" /\ dret' = dret) \/ (pc' = "del" /\ dret' = "mleb")
        <3>1. j.addr \in LogAddr /\ j.id \in Ids \cup {NIL_ID}
            BY JobFields
        <3>2. proc_obj(DEL, j.id, j.addr, "mleb")
            BY <1>8, <2>j DEF MountDel
        <3> QED BY <1>a, <3>1, <3>2, ProcObjTypes
    <2>1. UNCHANGED <<flash, super, super_sqnum, formatting, next_sqnum, wbuf_vars,
                      op_vars, gc_vars, scan, summary, ghosts, bounds, fsm_lnum>>
        BY <1>8 DEF MountDel
    <2>2. FlashType' /\ SuperType' /\ BufType' /\ OpType' /\ GcType'
          /\ SummaryType' /\ GhostType' /\ BoundsType' /\ WbufInv'
        BY <1>a, <2>1, Frames
    <2>3. DirtyType'
        BY <2>p
    <2>4. IndexType'
        BY <2>p
    <2>5. ControlType'
        BY <1>a, <1>8, <2>p DEF MountDel, ControlType, Labels
    <2>6. MountType'
        BY <1>8, <1>a, <2>j DEF MountDel, MountType
    <2>7. DelType'
        BY <2>p
    <2>8. OpenInv'
        BY <1>a, <1>8, <2>p DEF MountDel, OpenInv, Filling
    <2> QED BY <2>2, <2>3, <2>4, <2>5, <2>6, <2>7, <2>8 DEF TypeInv
<1>9. CASE MountIndexed
    <2>1. UNCHANGED <<flash, super, super_sqnum, formatting, next_sqnum, wbuf_vars,
                      dirty_list, index_vars, op_vars, gc_vars, scan, mq, del_list,
                      tot_used, mlnum, dcur, del, summary, ghosts, bounds, fsm_lnum>>
        BY <1>9 DEF MountIndexed
    <2>2. FlashType' /\ SuperType' /\ BufType' /\ DirtyType' /\ IndexType'
          /\ OpType' /\ GcType' /\ MountType' /\ DelType' /\ SummaryType'
          /\ GhostType' /\ BoundsType' /\ WbufInv'
        BY <1>a, <2>1, Frames
    <2>3. ControlType'
        BY <1>a, <1>9 DEF MountIndexed, ControlType, Labels
    <2>4. OpenInv'
        BY <1>a, <1>b, <1>9 DEF MountIndexed, OpenInv, Filling, ReturnInv
    <2> QED BY <2>2, <2>3, <2>4 DEF TypeInv
<1>10. CASE MountDone
    <2>1. UNCHANGED <<flash, super, super_sqnum, formatting, next_sqnum, wbuf_vars,
                      dirty_list, index_vars, op_vars, gc_vars, scan, mq, del_list,
                      tot_used, mlnum, dcur, del, summary, bounds, fsm_lnum>>
        BY <1>10 DEF MountDone
    <2>2. FlashType' /\ SuperType' /\ BufType' /\ DirtyType' /\ IndexType'
          /\ OpType' /\ GcType' /\ MountType' /\ DelType' /\ SummaryType'
          /\ BoundsType' /\ WbufInv'
        BY <1>a, <2>1, Frames
    <2>3. ControlType'
        BY <1>a, <1>10 DEF MountDone, ControlType, Labels
    <2>4. GhostType'
        <3>1. PICK v \in [Ids -> Int] : v = View
            BY <1>a, ViewType
        <3>2. hist' = <<v>> /\ nsync' = 1
            BY <1>10, <3>1 DEF MountDone
        <3>3. stale' = (stale \/ \E s \in SqnumsOnFlash : s > next_sqnum)
            BY <1>10 DEF MountDone
        <3>4. stale' \in BOOLEAN
            BY <3>3
        <3>5. <<v>> \in Seq([Ids -> Int]) /\ <<v>> # <<>>
            OBVIOUS
        <3> QED BY <3>2, <3>4, <3>5 DEF GhostType
    <2>5. OpenInv'
        BY <1>a, <1>b, <1>10 DEF MountDone, OpenInv, Filling, ReturnInv
    <2> QED BY <2>2, <2>3, <2>4, <2>5 DEF TypeInv
<1>11. CASE MountRefused
    <2>1. UNCHANGED <<flash, super, super_sqnum, formatting, next_sqnum, wbuf_vars,
                      dirty_list, index_vars, op_vars, gc_vars, scan, mq, del_list,
                      tot_used, mlnum, dcur, del, summary, ghosts, fsm_lnum>>
        BY <1>11 DEF MountRefused
    <2>2. FlashType' /\ SuperType' /\ BufType' /\ DirtyType' /\ IndexType'
          /\ OpType' /\ GcType' /\ MountType' /\ DelType' /\ SummaryType'
          /\ GhostType' /\ WbufInv'
        BY <1>a, <2>1, Frames
    <2>3. ControlType'
        BY <1>a, <1>11 DEF MountRefused, ControlType, Labels
    <2>4. BoundsType'
        BY <1>a, <1>11 DEF MountRefused, Refused, BoundsType
    <2>5. OpenInv'
        BY <1>a, <1>b, <1>11 DEF MountRefused, OpenInv, Filling, ReturnInv
    <2> QED BY <2>2, <2>3, <2>4, <2>5 DEF TypeInv
<1>12. CASE MountFailed
    <2>1. LoseMemory /\ UNCHANGED <<flash, super, ghosts, bounds>>
        BY <1>12 DEF MountFailed
    <2>2. FlashType' /\ GhostType' /\ BoundsType'
        BY <1>a, <2>1, Frames
    <2>3. super' \in Nat
        BY <1>a, <2>1 DEF SuperType
    <2> QED BY <2>1, <2>2, <2>3, LoseMemoryTypeInv
<1> QED
    BY <1>1, <1>2, <1>3, <1>4, <1>5, <1>6, <1>7, <1>8, <1>9, <1>10, <1>11, <1>12
    DEF MountStep

(* What is pending, and what a power failure leaves of it, begins where    *)
(* the programmed part of the LEB ends.                                    *)
LEMMA CommitFacts ==
    ASSUME FlashType, SuperType, BufType, SummaryType, WbufInv, SyncAsserts,
           NEW b, b = buf \o SyncItems, NEW pages \in Nat \ {0}
    PROVE  /\ Pending(b) \in Seq(LogItem) /\ Pending(b) # <<>>
           /\ Pending(b)[1].offs = EndOffs(flash[fsm_lnum])
           /\ TornPrefix(Pending(b), pages) \in Seq(LogItem)
           /\ TornPrefix(Pending(b), pages) # <<>>
           /\ TornPrefix(Pending(b), pages)[1].offs = EndOffs(flash[fsm_lnum])
<1>1. /\ b \in Contiguous /\ Len(b) >= Len(buf) /\ EndOffs(b) = SyncUsed
      /\ \A k \in 1 .. Len(buf) : b[k] = buf[k]
    BY SyncFacts
<1>2. /\ buf \in Seq(LogItem) /\ Len(buf) \in Nat /\ sync_n \in Nat /\ sync_n <= Len(buf)
      /\ flash[fsm_lnum] = SubSeq(buf, 1, sync_n) /\ sync_offs \in Nat
      /\ sync_offs = EndOffs(flash[fsm_lnum]) /\ sync_offs < SyncUsed
    BY DEF BufType, WbufInv, SyncAsserts
<1>3. PICK n \in Nat, c \in Seq(LogItem) : n = sync_n /\ c = buf  BY <1>2
<1>4. b \in Seq(LogItem) /\ Len(b) \in Nat  BY <1>1 DEF Contiguous
<1>5. n \in 0 .. Len(b) /\ n <= Len(c) /\ Len(c) <= Len(b) /\ Len(c) \in Nat
    BY <1>1, <1>2, <1>3, <1>4
<1>6. PICK f, p : f = SubSeq(b, 1, n) /\ p = SubSeq(b, n + 1, Len(b))  OBVIOUS
<1>7. Splits(b, n, f, p)  BY <1>5, <1>6 DEF Splits
<1>8. f = flash[fsm_lnum]
  <2>1. SubSeq(c, 1, n) = [i \in 1 .. n |-> c[i]]  BY <1>5
  <2>2. SubSeq(b, 1, n) = [i \in 1 .. n |-> b[i]]  BY <1>4, <1>5
  <2>3. \A i \in 1 .. n : c[i] = b[i]  BY <1>1, <1>3, <1>5
  <2>4. SubSeq(c, 1, n) = SubSeq(b, 1, n)  BY <2>1, <2>2, <2>3
  <2> QED BY <1>2, <1>3, <1>6, <2>4
<1>9. /\ p \in Seq(LogItem)
      /\ EndOffs(f) # EndOffs(b) => p # <<>>
      /\ p # <<>> => p[1].offs = EndOffs(f)
      /\ \A j, k \in DOMAIN p : j < k => p[j].offs <= p[k].offs
    BY <1>1, <1>7, PendingFacts
<1>10. p = Pending(b)  BY <1>3, <1>6 DEF Pending
<1>11. EndOffs(f) # EndOffs(b)  BY <1>1, <1>2, <1>8
<1>12. p # <<>>  BY <1>9, <1>11
<1>13. sync_offs = EndOffs(f)  BY <1>2, <1>8
<1>14. p[1].offs = sync_offs  BY <1>9, <1>12, <1>13
<1>15. /\ TornPrefix(p, pages) \in Seq(LogItem)
       /\ p # <<>> /\ p[1].offs = sync_offs =>
            /\ TornPrefix(p, pages) # <<>>
            /\ TornPrefix(p, pages)[1].offs = sync_offs
  <2>1. sync_offs \in Nat  BY <1>2
  <2>2. p \in Seq(LogItem) /\ \A j, k \in DOMAIN p : j < k => p[j].offs <= p[k].offs
      BY <1>9
  <2> QED BY <2>1, <2>2, TornFacts
<1>16. PICK q : q = TornPrefix(p, pages)  OBVIOUS
<1>17. q \in Seq(LogItem) /\ q # <<>> /\ q[1].offs = EndOffs(f)
    BY <1>12, <1>13, <1>14, <1>15, <1>16
<1>18. p \in Seq(LogItem) /\ p # <<>> /\ p[1].offs = EndOffs(f)
    BY <1>9, <1>12
<1> QED BY <1>8, <1>10, <1>16, <1>17, <1>18

(* Calls, ostore_unmount and power failures keep the invariant.            *)
LEMMA OtherStepTypeInv ==
    LogInv /\ TypeInv /\ (UnmountStep \/ Call \/ Crash \/ TornCrash) => TypeInv'
<1> SUFFICES ASSUME LogInv, TypeInv, UnmountStep \/ Call \/ Crash \/ TornCrash PROVE TypeInv'
    OBVIOUS
<1> USE DEF fsm_vars, wbuf_vars, index_vars, super_vars, sync_vars, op_vars,
            gc_vars, mount_vars, del_vars, ghosts, bounds
<1>a. /\ FlashType /\ SuperType /\ BufType /\ DirtyType /\ IndexType /\ OpType
      /\ ControlType /\ GcType /\ MountType /\ DelType /\ SummaryType /\ GhostType
      /\ BoundsType /\ OpenInv /\ WbufInv
    BY DEF TypeInv
<1>b. AccountInv /\ ReturnInv /\ GcInv /\ MountInv /\ FlashInv
    BY DEF LogInv
<1>1. CASE WriteSuper
    <2>1. UNCHANGED <<flash, wbuf_vars, dirty_list, index_vars, op_vars, gc_vars,
                      scan, mq, del_list, tot_used, mlnum, dcur, del, summary,
                      ghosts, fsm_lnum>>
        BY <1>1 DEF WriteSuper
    <2>2. FlashType' /\ BufType' /\ DirtyType' /\ IndexType' /\ OpType' /\ GcType'
          /\ MountType' /\ DelType' /\ SummaryType' /\ GhostType' /\ WbufInv'
        BY <1>a, <2>1, Frames
    <2>3. SuperType'
        BY <1>1, <1>a DEF WriteSuper, SuperType
    <2>4. ControlType'
        BY <1>a, <1>1 DEF WriteSuper, ControlType, Labels
    <2>5. BoundsType'
        BY <1>a, <1>1 DEF WriteSuper, Refused, BoundsType
    <2>6. OpenInv'
        BY <1>a, <1>b, <1>1 DEF WriteSuper, OpenInv, Filling, ReturnInv
    <2> QED BY <2>2, <2>3, <2>4, <2>5, <2>6 DEF TypeInv
<1>2. CASE Clean
    <2>1. LoseMemory /\ UNCHANGED <<flash, super, ghosts, bounds>>
        BY <1>2 DEF Clean
    <2>2. FlashType' /\ GhostType' /\ BoundsType'
        BY <1>a, <2>1, Frames
    <2>3. super' \in Nat
        BY <1>a, <2>1 DEF SuperType
    <2> QED BY <2>1, <2>2, <2>3, LoseMemoryTypeInv
<1>3. ASSUME NEW t \in Txns, WriteCall(t) PROVE TypeInv'
    <2>1. UNCHANGED <<flash, super, super_sqnum, formatting, next_sqnum, wbuf_vars,
                      dirty_list, index_vars, gc_vars, scan, mq, del_list,
                      tot_used, mlnum, dcur, del, summary, ghosts, fsm_lnum>>
        BY <1>3 DEF WriteCall
    <2>2. FlashType' /\ SuperType' /\ BufType' /\ DirtyType' /\ IndexType'
          /\ GcType' /\ MountType' /\ DelType' /\ SummaryType' /\ GhostType'
          /\ WbufInv'
        BY <1>a, <2>1, Frames
    <2>3. OpType'
        <3>1. op' = ClientOp(t, ntxn + 2) /\ caller' = caller
            BY <1>3 DEF WriteCall
        <3>2. PICK r \in Txn, v \in Nat : r = t /\ v = ntxn + 2
            BY <1>a, ClientAssumption DEF BoundsType
        <3>3. ClientOp(r, v) \in LiveOp
            BY ClientOpType
        <3> QED BY <1>a, <3>1, <3>2, <3>3 DEF OpType
    <2>4. ControlType'
        BY <1>a, <1>3 DEF WriteCall, ControlType, Labels
    <2>5. BoundsType'
        BY <1>a, <1>3 DEF WriteCall, BoundsType
    <2>6. OpenInv'
        BY <1>a, <1>b, <1>3 DEF WriteCall, OpenInv, Filling, ReturnInv
    <2> QED BY <2>2, <2>3, <2>4, <2>5, <2>6 DEF TypeInv
<1>4. CASE SyncFs
    <2>1. UNCHANGED <<flash, super, super_sqnum, formatting, next_sqnum, wbuf_vars,
                      dirty_list, index_vars, op_vars, gc_vars, scan, mq, del_list,
                      tot_used, mlnum, dcur, del, summary, ghosts, bounds, fsm_lnum>>
        BY <1>4 DEF SyncFs
    <2>2. FlashType' /\ SuperType' /\ BufType' /\ DirtyType' /\ IndexType'
          /\ OpType' /\ GcType' /\ MountType' /\ DelType' /\ SummaryType'
          /\ GhostType' /\ BoundsType' /\ WbufInv'
        BY <1>a, <2>1, Frames
    <2>3. ControlType'
        BY <1>a, <1>4 DEF SyncFs, ControlType, Labels
    <2>4. OpenInv'
        BY <1>a, <1>b, <1>4 DEF SyncFs, OpenInv, Filling, ReturnInv
    <2> QED BY <2>2, <2>3, <2>4 DEF TypeInv
<1>5. CASE Unmount
    <2>1. UNCHANGED <<flash, super, super_sqnum, formatting, next_sqnum, wbuf_vars,
                      dirty_list, index_vars, op_vars, gc_vars, scan, mq, del_list,
                      tot_used, mlnum, dcur, del, summary, ghosts, fsm_lnum>>
        BY <1>5 DEF Unmount
    <2>2. FlashType' /\ SuperType' /\ BufType' /\ DirtyType' /\ IndexType'
          /\ OpType' /\ GcType' /\ MountType' /\ DelType' /\ SummaryType'
          /\ GhostType' /\ WbufInv'
        BY <1>a, <2>1, Frames
    <2>3. ControlType'
        BY <1>a, <1>5 DEF Unmount, ControlType, Labels
    <2>4. BoundsType'
        BY <1>a, <1>5 DEF Unmount, BoundsType
    <2>5. OpenInv'
        BY <1>a, <1>b, <1>5 DEF Unmount, OpenInv, Filling, ReturnInv
    <2> QED BY <2>2, <2>3, <2>4, <2>5 DEF TypeInv
<1>6. CASE Format
    <2>1. UNCHANGED <<flash, wbuf_vars, dirty_list, index_vars, gc_vars, scan, mq,
                      del_list, tot_used, mlnum, dcur, del, summary, ghosts,
                      fsm_lnum>>
        BY <1>6 DEF Format
    <2>2. FlashType' /\ BufType' /\ DirtyType' /\ IndexType' /\ GcType'
          /\ MountType' /\ DelType' /\ SummaryType' /\ GhostType' /\ WbufInv'
        BY <1>a, <2>1, Frames
    <2>3. SuperType'
        <3>1. /\ super \in Nat /\ super_sqnum \in Nat /\ formatting \in BOOLEAN
              /\ next_sqnum \in Nat
            BY <1>a DEF SuperType
        <3>2. /\ super' = next_sqnum + 2 \/ super' = super
              /\ formatting' = TRUE \/ formatting' = formatting
              /\ next_sqnum' = next_sqnum + 3 /\ super_sqnum' = super_sqnum
            BY <1>6 DEF Format
        <3>3. super' \in Nat /\ next_sqnum' \in Nat /\ super_sqnum' \in Nat
            BY <3>1, <3>2
        <3>4. formatting' \in BOOLEAN
            BY <3>1, <3>2
        <3> QED BY <3>3, <3>4 DEF SuperType
    <2>4. OpType'
        <3>1. (op' = ClientOp(RootTxn, 1) \/ op' = op) /\ caller' = caller
            BY <1>6 DEF Format
        <3>2. PICK r \in Txn, v \in Nat : r = RootTxn /\ v = 1
            BY ClientAssumption
        <3>3. ClientOp(r, v) \in LiveOp
            BY ClientOpType
        <3> QED BY <1>a, <3>1, <3>2, <3>3 DEF OpType
    <2>5. ControlType'
        BY <1>a, <1>6 DEF Format, ControlType, Labels
    <2>6. BoundsType'
        BY <1>a, <1>6 DEF Format, Refused, BoundsType
    <2>7. OpenInv'
        BY <1>a, <1>b, <1>6 DEF Format, OpenInv, Filling, ReturnInv
    <2> QED BY <2>2, <2>3, <2>4, <2>5, <2>6, <2>7 DEF TypeInv
<1>7. CASE MountStart
    <2>1. UNCHANGED <<flash, wbuf_vars, dirty_list, index_vars, op_vars, gc_vars,
                      scan, dcur, del, summary, ghosts, bounds, fsm_lnum>>
        BY <1>7 DEF MountStart
    <2>2. FlashType' /\ BufType' /\ DirtyType' /\ IndexType' /\ OpType' /\ GcType'
          /\ DelType' /\ SummaryType' /\ GhostType' /\ BoundsType' /\ WbufInv'
        BY <1>a, <2>1, Frames
    <2>3. SuperType'
        BY <1>7, <1>a DEF MountStart, SuperType
    <2>4. ControlType'
        BY <1>a, <1>7 DEF MountStart, ControlType, Labels
    <2>5. MountType'
        <3>1. LogFstLnum \in Nat
            BY GeometryAssumption
        <3> QED BY <1>7, <1>a, <3>1 DEF MountStart, MountType
    <2>6. OpenInv'
        BY <1>a, <1>b, <1>7 DEF MountStart, OpenInv, Filling, ReturnInv
    <2> QED BY <2>2, <2>3, <2>4, <2>5, <2>6 DEF TypeInv
<1>8. CASE Crash
    <2>1. LoseMemory /\ UNCHANGED <<flash, super, ghosts>>
        BY <1>8 DEF Crash
    <2>2. FlashType' /\ GhostType'
        BY <1>a, <2>1, Frames
    <2>3. super' \in Nat
        BY <1>a, <2>1 DEF SuperType
    <2>4. BoundsType'
        BY <1>8, <1>a DEF Crash, BoundsType
    <2> QED BY <2>1, <2>2, <2>3, <2>4, LoseMemoryTypeInv
<1>9. CASE TornCrash
    <2>1. LoseMemory /\ UNCHANGED <<super, ghosts>> /\ SyncAsserts
        BY <1>9 DEF TornCrash
    <2>2. PICK pages \in Nat \ {0} :
             flash' = [flash EXCEPT ![fsm_lnum] =
                          @ \o TornPrefix(Pending(buf \o SyncItems), pages)]
        <3>1. \A n : 1 .. n \subseteq Nat \ {0}
            OBVIOUS
        <3> QED BY <1>9, <3>1 DEF TornCrash
    <2>3. PICK b : b = buf \o SyncItems
        OBVIOUS
    <2>4. TornPrefix(Pending(b), pages) \in Seq(LogItem)
        BY <1>a, <2>1, <2>3, CommitFacts
    <2>5. fsm_lnum \in Lnums
        BY <1>b, <2>1 DEF AccountInv, SyncAsserts
    <2>6. flash[fsm_lnum] \in Seq(LogItem)
        BY <1>a, <2>5 DEF FlashType
    <2>7. flash[fsm_lnum] \o TornPrefix(Pending(b), pages) \in Seq(LogItem)
        BY <2>4, <2>6, ConcatProperties
    <2>8. FlashType'
        BY <1>a, <2>2, <2>3, <2>5, <2>7 DEF FlashType
    <2>9. GhostType'
        BY <1>a, <2>1, Frames
    <2>10. super' \in Nat
        BY <1>a, <2>1 DEF SuperType
    <2>11. BoundsType'
        BY <1>9, <1>a DEF TornCrash, BoundsType
    <2> QED BY <2>1, <2>8, <2>9, <2>10, <2>11, LoseMemoryTypeInv
<1> QED
    BY <1>1, <1>2, <1>3, <1>4, <1>5, <1>6, <1>7, <1>8, <1>9 DEF UnmountStep, Call

(* The store before the first mount satisfies the invariant.               *)
LEMMA InitTypeInv == Init => TypeInv
<1> SUFFICES ASSUME Init PROVE TypeInv
    OBVIOUS
<1>1. LebCnt \in Nat  BY GeometryAssumption
<1>2. FlashType /\ SuperType
  <2>1. <<>> \in Seq(LogItem)  OBVIOUS
  <2>2. FlashType  BY <2>1 DEF Init, FlashType
  <2>3. SuperType  BY DEF Init, SuperType
  <2> QED BY <2>2, <2>3
<1>3. BufType /\ WbufInv  BY DEF Init, BufType, wbuf_init, fsm_init, WbufInv
<1>4. DirtyType  BY DEF Init, DirtyType, fsm_init
<1>5. IndexType  BY DEF Init, IndexType, idx_init, gim_init, NoGarbage, GimNode
<1>6. OpType
  <2>1. <<>> \in Seq(LiveItem) /\ <<>> \in Seq(LiveOp) /\ Len(<<>>) <= 1  OBVIOUS
  <2>2. NoOp \in LiveOp  BY <2>1, NewOpType DEF NoOp
  <2> QED BY <2>1, <2>2 DEF Init, OpType
<1>7. ControlType /\ OpenInv
    BY DEF Init, ControlType, Labels, OpenInv, Filling
<1>8. GcType /\ MountType /\ SummaryType
    BY DEF Init, GcType, MountType, SummaryType
<1>9. DelType
  <2>1. NoJob \in Job  BY DEF NoJob, Job, NoAddr, Addr, Types
  <2> QED BY <2>1 DEF Init, DelType
<1>10. GhostType
  <2>1. [x \in Ids |-> 0] \in [Ids -> Int]  OBVIOUS
  <2>2. PICK Q : Q = [Ids -> Int]  OBVIOUS
  <2>3. PICK v \in Q : v = [x \in Ids |-> 0]  BY <2>1, <2>2
  <2>4. <<v>> \in Seq(Q) /\ <<v>> # <<>>  OBVIOUS
  <2> QED BY <2>2, <2>3, <2>4 DEF Init, GhostType
<1>11. BoundsType  BY DEF Init, BoundsType
<1> QED BY <1>2, <1>3, <1>4, <1>5, <1>6, <1>7, <1>8, <1>9, <1>10, <1>11 DEF TypeInv

(* A step that changes nothing keeps the invariant.                        *)
LEMMA StutterTypeInv == TypeInv /\ UNCHANGED vars => TypeInv'
<1> SUFFICES ASSUME TypeInv, UNCHANGED vars PROVE TypeInv'
    OBVIOUS
<1> USE DEF vars, fsm_vars, wbuf_vars, index_vars, super_vars, sync_vars, op_vars,
            gc_vars, mount_vars, del_vars, ghosts, bounds
<1>1. UNCHANGED <<flash, super, super_sqnum, formatting, next_sqnum, wbuf_vars, dirty_list,
                  index_vars, op_vars, pc, sync_vars, dret, gc_vars, scan, mq, del_list,
                  tot_used, mlnum, dcur, del, summary, ghosts, bounds, fsm_lnum>>
    OBVIOUS
<1> QED BY <1>1, Frames DEF TypeInv

----------------------------------------------------------------------------
(* The typed invariant holds in every state the object store reaches.      *)
THEOREM TypeInvariance == Spec => []TypeInv
<1>1. LogInv /\ TypeInv /\ [Next]_vars => TypeInv'
    BY WriteStepTypeInv, SyncStepTypeInv, GcStepTypeInv, MountStepTypeInv,
       OtherStepTypeInv, StutterTypeInv
    DEF Next, Step
<1> QED
    BY InitTypeInv, LogInvariance, <1>1, PTL DEF Spec
(* The types the model declares are wider than the ones of the invariant.  *)
LEMMA WiderTypes ==
    /\ Seq(LogItem) \subseteq Seq(Item) /\ Seq(LiveItem) \subseteq Seq(Item)
    /\ Seq(LogJob) \subseteq Seq(Job) /\ Seq(LiveOp) \subseteq Seq(Op)
    /\ LiveOp \subseteq Op /\ LogAddr \cup {NoAddr} \subseteq Addr
<1>1. LogItem \subseteq Item /\ LiveItem \subseteq Item  BY DEF LogItem, LiveItem
<1>2. LogJob \subseteq Job  BY DEF LogJob
<1>3. LiveOp \subseteq Op  BY DEF LiveOp
<1>4. LogAddr \cup {NoAddr} \subseteq Addr
  <2>1. NoAddr \in Addr  BY DEF NoAddr, Addr
  <2>2. LogAddr \subseteq Addr  BY LnumsNat DEF LogAddr, Addr
  <2> QED BY <2>1, <2>2
<1>5. \A S, T : S \subseteq T => Seq(S) \subseteq Seq(T)
  <2> SUFFICES ASSUME NEW S, NEW T, S \subseteq T, NEW s \in Seq(S) PROVE s \in Seq(T)
      OBVIOUS
  <2>1. Len(s) \in Nat /\ s = [k \in 1 .. Len(s) |-> s[k]] /\ \A k \in 1 .. Len(s) : s[k] \in T
      OBVIOUS
  <2>2. [k \in 1 .. Len(s) |-> s[k]] \in Seq(T)  BY <2>1
  <2> QED BY <2>1, <2>2
<1> QED BY <1>1, <1>2, <1>3, <1>4, <1>5

(* Every variable of the object store keeps its type: objects, addresses,  *)
(* calls and jobs stay well-formed through writes, collection, mounting    *)
(* and power failures, and the counters do not go below zero.              *)
THEOREM TypeOKHolds == Spec => []TypeOK
<1>1. LogInv /\ TypeInv => TypeOK
  <2> SUFFICES ASSUME LogInv, TypeInv PROVE TypeOK
      OBVIOUS
  <2>1. /\ FlashType /\ SuperType /\ BufType /\ DirtyType /\ IndexType /\ OpType
        /\ ControlType /\ GcType /\ MountType /\ DelType /\ SummaryType /\ GhostType
        /\ BoundsType
      BY DEF TypeInv
  <2>2. /\ used_leb_list \in [Lnums -> BOOLEAN] /\ fsm_lnum \in Lnums \cup {0}
        /\ fsm_nb_free_eb \in Int
    <3>0. IsFiniteSet(UsedLebs)  BY LnumsFinite, FS_Subset DEF UsedLebs
    <3>1. Cardinality(UsedLebs) \in Nat  BY <3>0, FS_CardinalityType
    <3>2. /\ used_leb_list \in [Lnums -> BOOLEAN] /\ fsm_lnum \in Lnums \cup {0}
          /\ fsm_nb_free_eb = LebCnt - Cardinality(UsedLebs)
        BY DEF LogInv, AccountInv
    <3>3. LebCnt \in Nat  BY GeometryAssumption
    <3>4. fsm_nb_free_eb \in Int  BY <3>1, <3>2, <3>3
    <3> QED BY <3>2, <3>4
  <2>3. flash \in [Lnums -> Seq(Item)] /\ buf \in Seq(Item)
      BY <2>1, WiderTypes DEF FlashType, BufType
  <2>4. idx \in [Ids -> Addr]
      BY <2>1, WiderTypes DEF IndexType
  <2>5. op \in Op /\ caller \in Seq(Op)
      BY <2>1, WiderTypes DEF OpType
  <2>6. gc_list \in Seq(Item) /\ gc_valid \in Seq(Item) /\ scan \in Seq(Item)
      BY <2>1, WiderTypes DEF GcType
  <2>7. mq \in Seq(Job) /\ del_list \in Seq(Job)
      BY <2>1, WiderTypes DEF MountType
  <2>8. /\ super \in Nat /\ super_sqnum \in Nat /\ formatting \in BOOLEAN
        /\ next_sqnum \in Nat
      BY <2>1 DEF SuperType
  <2>9. used \in Nat /\ avail \in Nat /\ sync_offs \in Nat /\ sync_n \in Nat
      BY <2>1 DEF BufType
  <2>10. dirty_list \in [Lnums -> Nat] /\ gim \in [Ids -> GimNode] /\ summary \in Seq(SumEntry)
      BY <2>1 DEF DirtyType, IndexType, SummaryType
  <2>11. /\ pc \in Labels /\ sforce \in BOOLEAN /\ sret \in Labels /\ dret \in Labels
         /\ Len(caller) <= 1
      BY <2>1 DEF ControlType, OpType
  <2>12. gc_lnum \in Lnums \cup {0} /\ tot_used \in Nat /\ mlnum \in Nat
      BY <2>1 DEF GcType, MountType
  <2>13. /\ dcur \in Ids \cup {NIL_ID} /\ del \in Job
         /\ hist \in Seq([Ids -> Int]) /\ nsync \in Nat /\ stale \in BOOLEAN
      BY <2>1 DEF DelType, GhostType
  <2>14. ntxn \in Nat /\ ncrash \in Nat /\ nunmount \in Nat /\ nfail \in Nat
      BY <2>1 DEF BoundsType
  <2> QED
      BY <2>2, <2>3, <2>4, <2>5, <2>6, <2>7, <2>8, <2>9, <2>10, <2>11, <2>12,
         <2>13, <2>14, Zenon
      DEF TypeOK
<1> QED
    BY LogInvariance, TypeInvariance, <1>1, PTL

(* The write buffer and the LEB it is for agree in every state: wbuf.c     *)
(* never loses track of what ubi_leb_write has programmed.                 *)
THEOREM WbufMirrorsFlashHolds == Spec => []WbufMirrorsFlash
<1>1. TypeInv => WbufMirrorsFlash
    BY DEF TypeInv, WbufInv, WbufMirrorsFlash
<1> QED
    BY TypeInvariance, <1>1, PTL

(* What follows a sequence of objects on the flash starts with the first   *)
(* object that is appended to it.                                          *)
LEMMA AppendedFacts ==
    ASSUME NEW f \in Seq(LogItem), NEW t \in Seq(LogItem), t # <<>>
    PROVE  IsPrefix(f, f \o t) /\ (f \o t)[Len(f) + 1] = t[1]
<1>1. Len(f) \in Nat /\ Len(t) \in Nat /\ Len(t) >= 1  OBVIOUS
<1>2. PICK g : g = f \o t  OBVIOUS
<1>3. g \in Seq(LogItem) /\ Len(g) = Len(f) + Len(t)  BY <1>2, ConcatProperties
<1>4. \A k \in 1 .. Len(f) : g[k] = f[k]  BY <1>1, <1>2, ConcatProperties
<1>5. g[Len(f) + 1] = t[1]
  <2>1. PICK m \in Nat, n \in Nat : m = Len(f) /\ n = Len(t) /\ n >= 1  BY <1>1
  <2>2. m + 1 \in 1 .. m + n /\ ~(m + 1 <= m) /\ (m + 1) - m = 1  BY <2>1
  <2>3. g[m + 1] = t[(m + 1) - m]  BY <1>2, <2>1, <2>2, ConcatProperties
  <2> QED BY <2>1, <2>2, <2>3
<1>6. SubSeq(f, 1, Len(f)) = [k \in 1 .. Len(f) |-> f[k]]  BY <1>1
<1>7. SubSeq(g, 1, Len(f)) = [k \in 1 .. Len(f) |-> g[k]]  BY <1>1, <1>3
<1>8. SubSeq(f, 1, Len(f)) = SubSeq(g, 1, Len(f))  BY <1>4, <1>6, <1>7
<1>9. Len(f) <= Len(g)  BY <1>1, <1>3
<1>10. IsPrefix(f, g)  BY <1>8, <1>9 DEF IsPrefix
<1> QED BY <1>2, <1>5, <1>10

(* The flash in a step: untouched, one LEB erased, or one LEB extended.    *)
FlashStep ==
    \/ flash' = flash
    \/ \E l \in Lnums : flash' = [flash EXCEPT ![l] = <<>>]
    \/ \E l \in Lnums, t \in Seq(LogItem) :
          /\ flash' = [flash EXCEPT ![l] = @ \o t]
          /\ t # <<>> /\ t[1].offs = EndOffs(flash[l])
          /\ EndOffs(flash[l]) % MinIoSize = 0

(* Only wbuf_commit, a power failure during it and the collector's erase   *)
(* touch the flash; what is programmed starts at a page boundary, where    *)
(* the programmed part of the LEB ends.                                    *)
LEMMA FlashSteps == LogInv /\ TypeInv /\ [Next]_vars => FlashStep
<1> SUFFICES ASSUME LogInv, TypeInv, [Next]_vars PROVE FlashStep
    OBVIOUS
<1>a. FlashType /\ SuperType /\ BufType /\ SummaryType /\ WbufInv
    BY DEF TypeInv
<1>b. SyncAsserts => fsm_lnum \in Lnums /\ EndOffs(flash[fsm_lnum]) % MinIoSize = 0
  <2> SUFFICES ASSUME SyncAsserts
               PROVE  fsm_lnum \in Lnums /\ EndOffs(flash[fsm_lnum]) % MinIoSize = 0
      OBVIOUS
  <2>1. fsm_lnum # 0 /\ sync_offs = ALIGN(sync_offs, MinIoSize)
      BY DEF SyncAsserts
  <2>2. fsm_lnum \in Lnums
      BY <2>1 DEF LogInv, AccountInv
  <2>3. sync_offs \in Nat /\ sync_offs = EndOffs(flash[fsm_lnum])
      BY <1>a, <2>1 DEF BufType, WbufInv
  <2>4. MinIoSize \in Nat \ {0}
      BY GeometryAssumption
  <2>5. ALIGN(sync_offs, MinIoSize) % MinIoSize = 0
      BY <2>3, <2>4, AlignFacts
  <2> QED BY <2>1, <2>2, <2>3, <2>5
<1>1. CASE SyncWrite
  <2>1. SyncAsserts /\ SyncFill /\ flash' = [flash EXCEPT ![fsm_lnum] = @ \o Pending(buf')]
      BY <1>1 DEF SyncWrite
  <2>2. buf' = buf \o SyncItems
      BY <2>1 DEF SyncFill
  <2>3. PICK b : b = buf \o SyncItems
      OBVIOUS
  <2>4. /\ Pending(b) \in Seq(LogItem) /\ Pending(b) # <<>>
        /\ Pending(b)[1].offs = EndOffs(flash[fsm_lnum])
    <3>1. PICK n \in Nat \ {0} : n = 1
        OBVIOUS
    <3> QED BY <1>a, <2>1, <2>3, <3>1, CommitFacts
  <2>5. flash' = [flash EXCEPT ![fsm_lnum] = @ \o Pending(b)]
      BY <2>1, <2>2, <2>3
  <2> QED BY <1>b, <2>1, <2>4, <2>5 DEF FlashStep
<1>2. CASE TornCrash
  <2>1. SyncAsserts
      BY <1>2 DEF TornCrash
  <2>2. PICK pages \in Nat \ {0} :
           flash' = [flash EXCEPT ![fsm_lnum] =
                        @ \o TornPrefix(Pending(buf \o SyncItems), pages)]
      <3>1. \A n : 1 .. n \subseteq Nat \ {0}
          OBVIOUS
      <3> QED BY <1>2, <3>1 DEF TornCrash
  <2>3. PICK b : b = buf \o SyncItems
      OBVIOUS
  <2>4. /\ TornPrefix(Pending(b), pages) \in Seq(LogItem)
        /\ TornPrefix(Pending(b), pages) # <<>>
        /\ TornPrefix(Pending(b), pages)[1].offs = EndOffs(flash[fsm_lnum])
      BY <1>a, <2>1, <2>3, CommitFacts
  <2>5. flash' = [flash EXCEPT ![fsm_lnum] = @ \o TornPrefix(Pending(b), pages)]
      BY <2>2, <2>3
  <2> QED BY <1>b, <2>1, <2>4, <2>5 DEF FlashStep
<1>3. CASE GcErase
  <2>1. gc_lnum \in Lnums
      BY <1>3 DEF GcErase, LogInv, GcInv, GcHolds
  <2>2. flash' = [flash EXCEPT ![gc_lnum] = <<>>] \/ flash' = flash
      BY <1>3 DEF GcErase, wbuf_erase
  <2> QED BY <2>1, <2>2 DEF FlashStep
<1>4. CASE WriteStep
    BY <1>4 DEF WriteStep, Enter, Alloc, Presync, Pack, SpaceCheck, WriteObj, Postsync,
       Pool, IndexObj, DelStep, DelDone, WriteDone, FlashStep
<1>5. CASE SyncNop \/ SyncError
    BY <1>5 DEF SyncNop, SyncError, FlashStep
<1>6. CASE GcStart \/ GcScan \/ GcCopy \/ GcGim \/ GcReturn \/ AllocAfterGc
    BY <1>6 DEF GcStart, GcScan, GcCopy, GcGim, GcReturn, AllocAfterGc, FlashStep
<1>7. CASE MountStep \/ UnmountStep \/ Call \/ Crash
    BY <1>7
    DEF MountStep, MountLeb, MountSum, MountSumDone, MountScan, MountTrans,
        MountTransDone, MountScanDone, MountDel, MountIndexed, MountDone, MountRefused,
        MountFailed, UnmountStep, WriteSuper, Clean, Call, WriteCall, SyncFs, Unmount,
        Format, MountStart, Crash, FlashStep
<1>8. CASE UNCHANGED vars
    BY <1>8 DEF vars, FlashStep
<1> QED
    BY <1>1, <1>2, <1>3, <1>4, <1>5, <1>6, <1>7, <1>8 DEF Next, Step, SyncStep, GcStep

(* The flash is used as NAND allows: in every step an LEB stays as it is,  *)
(* is erased, or is extended from a page boundary on, right behind what is *)
(* programmed - also when the power fails during ubi_leb_write.            *)
THEOREM SequentialProgrammingHolds == Spec => SequentialProgramming
<1> DEFINE Sequential ==
        \A l \in Lnums :
          \/ flash'[l] = flash[l]
          \/ flash'[l] = <<>>
          \/ /\ IsPrefix(flash[l], flash'[l])
             /\ EndOffs(flash[l]) % MinIoSize = 0
             /\ flash'[l][Len(flash[l]) + 1].offs = EndOffs(flash[l])
<1>1. TypeInv /\ FlashStep => Sequential
  <2> SUFFICES ASSUME TypeInv, FlashStep, NEW l \in Lnums
               PROVE  \/ flash'[l] = flash[l]
                      \/ flash'[l] = <<>>
                      \/ /\ IsPrefix(flash[l], flash'[l])
                         /\ EndOffs(flash[l]) % MinIoSize = 0
                         /\ flash'[l][Len(flash[l]) + 1].offs = EndOffs(flash[l])
      OBVIOUS
  <2>1. flash \in [Lnums -> Seq(LogItem)]
      BY DEF TypeInv, FlashType
  <2>2. CASE flash' = flash
      BY <2>2
  <2>3. CASE \E k \in Lnums : flash' = [flash EXCEPT ![k] = <<>>]
      BY <2>1, <2>3
  <2>4. ASSUME NEW k \in Lnums, NEW t \in Seq(LogItem),
               flash' = [flash EXCEPT ![k] = @ \o t],
               t # <<>>, t[1].offs = EndOffs(flash[k]), EndOffs(flash[k]) % MinIoSize = 0
        PROVE  \/ flash'[l] = flash[l]
               \/ /\ IsPrefix(flash[l], flash'[l])
                  /\ EndOffs(flash[l]) % MinIoSize = 0
                  /\ flash'[l][Len(flash[l]) + 1].offs = EndOffs(flash[l])
    <3>1. CASE k # l
        BY <2>1, <2>4, <3>1
    <3>2. CASE k = l
      <4>1. PICK f \in Seq(LogItem) : f = flash[l]
          BY <2>1
      <4>2. flash'[l] = f \o t
          BY <2>1, <2>4, <3>2, <4>1
      <4>3. IsPrefix(f, f \o t) /\ (f \o t)[Len(f) + 1] = t[1]
          BY <2>4, AppendedFacts
      <4> QED BY <2>4, <3>2, <4>1, <4>2, <4>3
    <3> QED BY <3>1, <3>2
  <2> QED BY <2>2, <2>3, <2>4 DEF FlashStep
<1>2. LogInv /\ TypeInv /\ [Next]_vars => [Sequential]_vars
    BY <1>1, FlashSteps
<1> QED
    BY LogInvariance, TypeInvariance, <1>2, PTL DEF Spec, SequentialProgramming

=============================================================================
