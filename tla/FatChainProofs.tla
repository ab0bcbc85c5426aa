--------------------------- MODULE FatChainProofs ---------------------------
(***************************************************************************)
(* Proofs about the cluster chains of a FAT as a whole: what an operation  *)
(* on the entries does to chains that are disjoint, when a chain is made   *)
(* of free clusters, given to another owner, linked to another, cut, or    *)
(* freed from its first cluster on.                                        *)
(***************************************************************************)
EXTENDS FatEntProofs, Sequences, FiniteSetTheorems

(* E maps a cluster to its entry, ch each owner of O to its chain.         *)
Link(s, k) == IF k = Len(s) THEN FAT_ENT_EOF ELSE s[k + 1]
ChainOK(O, E, ch) ==
    /\ ch \in [O -> Seq(Clusters)]
    /\ \A x \in O : \A k \in 1 .. Len(ch[x]) : E[ch[x][k]] = Link(ch[x], k)
    /\ \A x, y \in O : \A j \in 1 .. Len(ch[x]) : \A k \in 1 .. Len(ch[y]) :
            ch[x][j] = ch[y][k] => x = y /\ j = k
Owned(O, ch) == {c \in Clusters : \E x \in O : \E k \in 1 .. Len(ch[x]) : ch[x][k] = c}
NoneLost(O, E, ch) == \A c \in Clusters : E[c] = FAT_ENT_FREE \/ c \in Owned(O, ch)

(* A sequence whose elements differ.                                       *)
Distinct(s) == \A j, k \in 1 .. Len(s) : s[j] = s[k] => j = k
Elems(s) == {s[k] : k \in 1 .. Len(s)}
FreeSet(E) == {c \in Clusters : E[c] = FAT_ENT_FREE}
SameBut(E, F, c) == \A d \in Clusters : d # c => F[d] = E[d]

LEMMA ClusterFacts ==
    /\ Clusters \subseteq Nat /\ FAT_ENT_FREE \notin Clusters /\ 0 \notin Clusters
    /\ FAT_ENT_FREE # FAT_ENT_EOF /\ FAT_ENT_FREE = 0
    /\ IsFiniteSet(Clusters) /\ Cardinality(Clusters) = max_cluster - FAT_START_ENT
<1>1. PICK m \in Nat : m = max_cluster /\ m > 2  BY BlockAssumption DEF FAT_START_ENT
<1>2. Clusters = 2 .. m - 1  BY <1>1 DEF Clusters, FAT_START_ENT
<1>3. IsFiniteSet(2 .. m - 1) /\ Cardinality(2 .. m - 1) = m - 2  BY <1>1, FS_Interval
<1>4. FAT_ENT_FREE = 0 /\ FAT_ENT_FREE # FAT_ENT_EOF  BY DEF FAT_ENT_FREE, FAT_ENT_EOF
<1> QED BY <1>1, <1>2, <1>3, <1>4 DEF FAT_START_ENT
LEMMA NotEof ==
    ASSUME NEW bits \in Widths
    PROVE  FAT_ENT_EOF \notin Clusters /\ max_cluster < FAT_ENT_EOF
BY SMT, BlockAssumption DEF Widths, BadEntry, BAD_FAT12, BAD_FAT16, BAD_FAT32, FAT_ENT_EOF, Clusters, FAT_START_ENT

(* A sequence of clusters that differ has no more of them than there are.  *)
LEMMA DistinctLen ==
    ASSUME NEW s \in Seq(Clusters), Distinct(s)
    PROVE  /\ Len(s) <= max_cluster - FAT_START_ENT
           /\ IsFiniteSet(Elems(s))
           /\ Cardinality(Elems(s)) = Len(s)
<1> USE DEF Elems
<1> DEFINE R == {s[k] : k \in 1 .. Len(s)}
           D == 1 .. Len(s)
<1>1. IsFiniteSet(D) /\ Cardinality(D) = Len(s)
  <2>1. Len(s) \in Nat /\ 1 \in Int /\ Len(s) \in Int  OBVIOUS
  <2> QED BY <2>1, FS_Interval, SMTT(30)
<1>2. ExistsBijection(D, R)
  <2> DEFINE g == [k \in D |-> s[k]]
  <2>1. g \in Bijection(D, R)
    <3>1. g \in [D -> R]  OBVIOUS
    <3>2. \A j, k \in D : g[j] = g[k] => j = k  BY DEF Distinct
    <3>3. \A y \in R : \E k \in D : g[k] = y  OBVIOUS
    <3> HIDE DEF g, R, D
    <3> QED BY <3>1, <3>2, <3>3 DEF Bijection, Injection, Surjection, IsInjective
  <2> QED BY <2>1 DEF ExistsBijection
<1>3. IsFiniteSet(R) /\ Cardinality(R) = Len(s)
  <2> HIDE DEF D, R
  <2> QED BY <1>1, <1>2, FS_Bijection
<1>4. R \subseteq Clusters  OBVIOUS
<1>5. Cardinality(R) <= Cardinality(Clusters)
  <2> HIDE DEF R
  <2> QED BY <1>4, FS_Subset, ClusterFacts
<1> QED BY <1>3, <1>5, ClusterFacts

(* The entry of a cluster in a chain is not free.                          *)
LEMMA LinkType ==
    ASSUME NEW s \in Seq(Clusters), NEW k \in 1 .. Len(s)
    PROVE  s[k] \in Clusters /\ Link(s, k) \in Clusters \cup {FAT_ENT_EOF} /\ Link(s, k) # FAT_ENT_FREE
<1>1. s[k] \in Clusters  OBVIOUS
<1>2. CASE k = Len(s)  BY <1>1, <1>2, ClusterFacts DEF Link
<1>3. CASE k # Len(s)
  <2>1. k + 1 \in 1 .. Len(s)  BY <1>3
  <2>2. s[k + 1] \in Clusters  BY <2>1
  <2> QED BY <1>1, <1>3, <2>2, ClusterFacts DEF Link
<1> QED BY <1>2, <1>3
LEMMA ChainType ==
    ASSUME NEW O, NEW E, NEW ch, ChainOK(O, E, ch), NEW x \in O
    PROVE  /\ ch[x] \in Seq(Clusters) /\ Len(ch[x]) \in Nat /\ Distinct(ch[x])
           /\ \A k \in 1 .. Len(ch[x]) :
                /\ ch[x][k] \in Clusters /\ E[ch[x][k]] = Link(ch[x], k)
                /\ E[ch[x][k]] # FAT_ENT_FREE
<1>1. ch[x] \in Seq(Clusters) /\ Len(ch[x]) \in Nat  BY DEF ChainOK
<1>2. Distinct(ch[x])  BY DEF ChainOK, Distinct
<1>3. \A k \in 1 .. Len(ch[x]) : E[ch[x][k]] = Link(ch[x], k)  BY DEF ChainOK
<1> QED BY <1>1, <1>2, <1>3, LinkType

LEMMA OneOwner ==
    ASSUME NEW O, NEW E, NEW ch, ChainOK(O, E, ch), NEW x \in O, NEW y \in O,
           NEW j \in 1 .. Len(ch[x]), NEW k \in 1 .. Len(ch[y]), ch[x][j] = ch[y][k]
    PROVE  x = y /\ j = k
BY DEF ChainOK

(* Free clusters become the chain of an owner that had none.               *)
Allocated(E, F, s) ==
    /\ s \in Seq(Clusters) /\ Distinct(s)
    /\ \A k \in 1 .. Len(s) : E[s[k]] = FAT_ENT_FREE /\ F[s[k]] = Link(s, k)
    /\ \A c \in Clusters : c \notin Elems(s) => F[c] = E[c]
LEMMA FreeAfter ==
    ASSUME NEW E, NEW F, NEW s, Allocated(E, F, s)
    PROVE  FreeSet(F) = FreeSet(E) \ Elems(s)
<1> USE DEF Elems
<1>1. ASSUME NEW c \in Clusters PROVE c \in FreeSet(F) <=> c \in FreeSet(E) \ Elems(s)
  <2>0. s \in Seq(Clusters)  BY DEF Allocated
  <2>1. CASE c \in Elems(s)
    <3>1. PICK k \in 1 .. Len(s) : s[k] = c  BY <2>1
    <3> QED BY <2>0, <3>1, LinkType DEF FreeSet, Allocated
  <2>2. CASE c \notin Elems(s)  BY <2>2 DEF FreeSet, Allocated
  <2> QED BY <2>1, <2>2
<1> QED BY <1>1 DEF FreeSet
LEMMA ChainAlloc ==
    ASSUME NEW O, NEW E, NEW F, NEW ch, NEW t \in O, NEW s,
           ChainOK(O, E, ch), ch[t] = <<>>, Allocated(E, F, s)
    PROVE  LET new == [ch EXCEPT ![t] = s]
           IN /\ ChainOK(O, F, new)
              /\ NoneLost(O, E, ch) => NoneLost(O, F, new)
<1>0. PICK new : new = [ch EXCEPT ![t] = s]  OBVIOUS
<1> USE DEF Elems
<1>1. s \in Seq(Clusters) /\ Distinct(s)  BY DEF Allocated
<1>2. /\ new \in [O -> Seq(Clusters)] /\ new[t] = s
      /\ \A x \in O : x # t => new[x] = ch[x]
    BY <1>0, <1>1 DEF ChainOK
<1>3. ASSUME NEW x \in O, x # t, NEW k \in 1 .. Len(ch[x]), NEW j \in 1 .. Len(s)
      PROVE  ch[x][k] # s[j]
    BY ChainType DEF Allocated
<1>4. ASSUME NEW x \in O, NEW k \in 1 .. Len(new[x])
      PROVE  F[new[x][k]] = Link(new[x], k)
  <2>1. CASE x = t  BY <1>2, <1>4, <2>1 DEF Allocated
  <2>2. CASE x # t
    <3>1. new[x] = ch[x] /\ k \in 1 .. Len(ch[x])  BY <1>2, <1>4, <2>2
    <3>2. ch[x][k] \in Clusters /\ ch[x][k] \notin {s[j] : j \in 1 .. Len(s)}  BY <1>3, <2>2, <3>1, ChainType
    <3>3. F[ch[x][k]] = E[ch[x][k]]  BY <3>2 DEF Allocated
    <3> QED BY <3>1, <3>3, ChainType
  <2> QED BY <2>1, <2>2
<1>5. ASSUME NEW x \in O, NEW y \in O, NEW j \in 1 .. Len(new[x]), NEW k \in 1 .. Len(new[y]),
             new[x][j] = new[y][k]
      PROVE  x = y /\ j = k
  <2>1. CASE x # t /\ y # t  BY <1>2, <1>5, <2>1 DEF ChainOK
  <2>2. CASE x = t /\ y = t  BY <1>1, <1>2, <1>5, <2>2 DEF Distinct
  <2>3. CASE x = t /\ y # t  BY <1>2, <1>3, <1>5, <2>3
  <2>4. CASE x # t /\ y = t  BY <1>2, <1>3, <1>5, <2>4
  <2> QED BY <2>1, <2>2, <2>3, <2>4
<1>6. ChainOK(O, F, new)  BY <1>2, <1>4, <1>5 DEF ChainOK
<1>7. ASSUME NoneLost(O, E, ch), NEW c \in Clusters, F[c] # FAT_ENT_FREE
      PROVE  c \in Owned(O, new)
  <2>1. CASE c \in {s[k] : k \in 1 .. Len(s)}
    <3>1. PICK k \in 1 .. Len(s) : s[k] = c  BY <2>1
    <3> QED BY <1>2, <3>1 DEF Owned
  <2>2. CASE c \notin {s[k] : k \in 1 .. Len(s)}
    <3>1. E[c] # FAT_ENT_FREE  BY <1>7, <2>2 DEF Allocated
    <3>2. PICK x \in O : \E k \in 1 .. Len(ch[x]) : ch[x][k] = c  BY <1>7, <3>1 DEF NoneLost, Owned
    <3>3. PICK k \in 1 .. Len(ch[x]) : ch[x][k] = c  BY <3>2
    <3>4. 1 .. Len(<<>>) = {}  OBVIOUS
    <3>5. x # t  BY <3>3, <3>4
    <3>6. k \in 1 .. Len(new[x]) /\ new[x][k] = c  BY <1>2, <3>3, <3>5
    <3> QED BY <3>6 DEF Owned
  <2> QED BY <2>1, <2>2
<1> QED BY <1>0, <1>6, <1>7 DEF NoneLost

(* The first cluster of a chain is freed.                                  *)
LEMMA ChainFree ==
    ASSUME NEW O, NEW E, NEW F, NEW ch, NEW t \in O,
           ChainOK(O, E, ch), ch[t] # <<>>,
           F[ch[t][1]] = FAT_ENT_FREE,
           SameBut(E, F, ch[t][1])
    PROVE  LET new == [ch EXCEPT ![t] = Tail(ch[t])]
           IN /\ ChainOK(O, F, new)
              /\ NoneLost(O, E, ch) => NoneLost(O, F, new)
<1> USE DEF SameBut
<1>1. PICK new : new = [ch EXCEPT ![t] = Tail(ch[t])]  OBVIOUS
<1>2. PICK s \in Seq(Clusters) : s = ch[t] /\ s # <<>>  BY ChainType
<1>3. /\ Len(s) \in Nat \ {0} /\ Tail(s) \in Seq(Clusters) /\ Len(Tail(s)) = Len(s) - 1
      /\ \A k \in 1 .. Len(s) - 1 : Tail(s)[k] = s[k + 1]
    BY <1>2
<1>4. /\ new \in [O -> Seq(Clusters)] /\ new[t] = Tail(s)
      /\ \A x \in O : x # t => new[x] = ch[x]
    BY <1>1, <1>2, <1>3 DEF ChainOK
<1>5. ASSUME NEW x \in O, NEW k \in 1 .. Len(new[x])
      PROVE  /\ IF x = t THEN k + 1 \in 1 .. Len(ch[x]) /\ new[x][k] = ch[x][k + 1]
                ELSE k \in 1 .. Len(ch[x]) /\ new[x][k] = ch[x][k]
             /\ new[x][k] # ch[t][1] /\ new[x][k] \in Clusters
  <2>1. CASE x = t
    <3>1. k + 1 \in 1 .. Len(s) /\ k \in 1 .. Len(s) - 1  BY <1>3, <1>4, <1>5, <2>1
    <3>2. new[x][k] = s[k + 1]  BY <1>3, <1>4, <2>1, <3>1
    <3>3. 1 \in 1 .. Len(s) /\ k + 1 # 1  BY <1>3, <3>1
    <3>4. Distinct(s)  BY <1>2, ChainType
    <3>5. s[k + 1] # s[1] /\ s[k + 1] \in Clusters  BY <3>1, <3>3, <3>4 DEF Distinct
    <3> QED BY <1>2, <2>1, <3>1, <3>2, <3>5
  <2>2. CASE x # t
    <3>1. new[x] = ch[x] /\ 1 \in 1 .. Len(ch[t])  BY <1>2, <1>3, <1>4, <2>2
    <3> QED BY <1>5, <2>2, <3>1, ChainType DEF ChainOK
  <2> QED BY <2>1, <2>2
<1>6. ASSUME NEW x \in O, NEW k \in 1 .. Len(new[x])
      PROVE  F[new[x][k]] = Link(new[x], k)
  <2>1. F[new[x][k]] = E[new[x][k]]  BY <1>5, <1>6
  <2>2. CASE x = t
    <3>1. E[new[x][k]] = Link(s, k + 1) /\ k + 1 \in 1 .. Len(s)  BY <1>2, <1>5, <1>6, <2>2, ChainType
    <3>2. Link(s, k + 1) = Link(Tail(s), k)
      <4>1. k \in Nat /\ Len(s) \in Nat  BY <1>3, <1>6
      <4>2. CASE k + 1 = Len(s)  BY <1>3, <4>1, <4>2 DEF Link
      <4>3. CASE k + 1 # Len(s)
        <5>1. k + 1 \in 1 .. Len(s) - 1  BY <3>1, <4>1, <4>3
        <5>2. Tail(s)[k + 1] = s[(k + 1) + 1]  BY <1>3, <5>1
        <5>3. k # Len(Tail(s))
          <6>1. PICK n \in Nat : n = Len(s)  BY <4>1
          <6>2. Len(Tail(s)) = n - 1 /\ k + 1 # n  BY <1>3, <4>3, <6>1
          <6>3. k # n - 1  BY <4>1, <6>2
          <6> QED BY <6>2, <6>3
        <5> QED BY <4>3, <5>2, <5>3 DEF Link
      <4> QED BY <4>2, <4>3
    <3> QED BY <1>4, <2>1, <2>2, <3>1, <3>2
  <2>3. CASE x # t  BY <1>4, <1>5, <1>6, <2>1, <2>3, ChainType
  <2> QED BY <2>2, <2>3
<1>7. ASSUME NEW x \in O, NEW y \in O, NEW j \in 1 .. Len(new[x]), NEW k \in 1 .. Len(new[y]),
             new[x][j] = new[y][k]
      PROVE  x = y /\ j = k
  <2>1. PICK i \in 1 .. Len(ch[x]) : new[x][j] = ch[x][i] /\ i = IF x = t THEN j + 1 ELSE j
      BY <1>5, <1>7
  <2>2. PICK l \in 1 .. Len(ch[y]) : new[y][k] = ch[y][l] /\ l = IF y = t THEN k + 1 ELSE k
      BY <1>5, <1>7
  <2>3. x = y /\ i = l
    <3>1. ch[x][i] = ch[y][l]  BY <1>7, <2>1, <2>2
    <3> QED BY <3>1, OneOwner
  <2>4. j \in Int /\ k \in Int  BY <1>7
  <2> QED BY <2>1, <2>2, <2>3, <2>4
<1>8. ChainOK(O, F, new)  BY <1>4, <1>6, <1>7 DEF ChainOK
<1>9. ASSUME NoneLost(O, E, ch), NEW c \in Clusters, F[c] # FAT_ENT_FREE
       PROVE  c \in Owned(O, new)
  <2>1. c # ch[t][1] /\ E[c] # FAT_ENT_FREE  BY <1>9
  <2>2. PICK x \in O : \E k \in 1 .. Len(ch[x]) : ch[x][k] = c  BY <1>9, <2>1 DEF NoneLost, Owned
  <2>3. PICK k \in 1 .. Len(ch[x]) : ch[x][k] = c  BY <2>2
  <2>4. CASE x = t
    <3>1. k # 1  BY <2>1, <2>3, <2>4
    <3>2. k - 1 \in 1 .. Len(s) - 1 /\ (k - 1) + 1 = k  BY <1>2, <1>3, <2>3, <2>4, <3>1
    <3>3. k - 1 \in 1 .. Len(new[t]) /\ new[t][k - 1] = c  BY <1>2, <1>3, <1>4, <2>3, <2>4, <3>2
    <3> QED BY <3>3 DEF Owned
  <2>5. CASE x # t
    <3>1. k \in 1 .. Len(new[x]) /\ new[x][k] = c  BY <1>4, <2>3, <2>5
    <3> QED BY <3>1 DEF Owned
  <2> QED BY <2>4, <2>5
<1> QED BY <1>1, <1>8, <1>9 DEF NoneLost

(* A sequence is cut in two, or made of two.                               *)
LEMMA JoinFacts ==
    ASSUME NEW s \in Seq(Clusters), NEW r \in Seq(Clusters)
    PROVE  /\ s \o r \in Seq(Clusters) /\ Len(s \o r) = Len(s) + Len(r)
           /\ \A k \in 1 .. Len(s) : (s \o r)[k] = s[k]
           /\ \A k \in 1 .. Len(r) : (s \o r)[Len(s) + k] = r[k]
           /\ \A k \in 1 .. Len(s \o r) : k \in 1 .. Len(s) \/ (k - Len(s) \in 1 .. Len(r) /\ k = Len(s) + (k - Len(s)))
<1>1. s \o r \in Seq(Clusters) /\ Len(s \o r) = Len(s) + Len(r) /\ Len(s) \in Nat /\ Len(r) \in Nat
    OBVIOUS
<1>2. \A k \in 1 .. Len(s) : (s \o r)[k] = s[k]  OBVIOUS
<1>3. \A k \in 1 .. Len(r) : (s \o r)[Len(s) + k] = r[k]  OBVIOUS
<1>4. \A k \in 1 .. Len(s) + Len(r) : k \in 1 .. Len(s) \/ (k - Len(s) \in 1 .. Len(r) /\ k = Len(s) + (k - Len(s)))
    BY <1>1
<1> QED BY <1>1, <1>2, <1>3, <1>4
LEMMA CutFacts ==
    ASSUME NEW s \in Seq(Clusters), NEW n \in 1 .. Len(s)
    PROVE  LET a == SubSeq(s, 1, n)
               b == SubSeq(s, n + 1, Len(s))
           IN /\ a \in Seq(Clusters) /\ Len(a) = n /\ \A k \in 1 .. n : a[k] = s[k]
              /\ b \in Seq(Clusters) /\ Len(b) = Len(s) - n
              /\ \A k \in 1 .. Len(s) - n : b[k] = s[n + k] /\ n + k \in 1 .. Len(s)
<1>1. Len(s) \in Nat /\ n \in Nat /\ n <= Len(s)  OBVIOUS
<1>2. PICK a, b : a = SubSeq(s, 1, n) /\ b = SubSeq(s, n + 1, Len(s))  OBVIOUS
<1>3. a \in Seq(Clusters) /\ Len(a) = n /\ \A k \in 1 .. n : a[k] = s[k]  BY <1>1, <1>2
<1>4. b \in Seq(Clusters) /\ Len(b) = Len(s) - n  BY <1>1, <1>2
<1>5. ASSUME NEW k \in 1 .. Len(s) - n PROVE b[k] = s[n + k] /\ n + k \in 1 .. Len(s)
    BY <1>1, <1>2, <1>4
<1> QED BY <1>2, <1>3, <1>4, <1>5
LEMMA NoLinks ==
    ASSUME NEW s, s = <<>>  PROVE  Len(s) = 0 /\ \A k : k \notin 1 .. Len(s)
OBVIOUS

(* The chain of t is linked behind that of f.                              *)
LEMMA ChainJoin ==
    ASSUME NEW O, NEW E, NEW F, NEW ch, NEW f \in O, NEW t \in O, f # t,
           ChainOK(O, E, ch), ch[f] # <<>>, ch[t] # <<>>,
           F[ch[f][Len(ch[f])]] = ch[t][1],
           SameBut(E, F, ch[f][Len(ch[f])])
    PROVE  LET new == [ch EXCEPT ![f] = ch[f] \o ch[t], ![t] = <<>>]
           IN /\ ChainOK(O, F, new)
              /\ NoneLost(O, E, ch) => NoneLost(O, F, new)
<1> USE DEF SameBut
<1>1. PICK new : new = [ch EXCEPT ![f] = ch[f] \o ch[t], ![t] = <<>>]  OBVIOUS
<1>2. PICK s \in Seq(Clusters), r \in Seq(Clusters) : s = ch[f] /\ r = ch[t] /\ s # <<>> /\ r # <<>>
    BY ChainType
<1>3. PICK n \in Nat, m \in Nat : n = Len(s) /\ m = Len(r) /\ n > 0 /\ m > 0  BY <1>2
<1>4. PICK a \in Seq(Clusters) :
        /\ a = s \o r /\ Len(a) = n + m
        /\ \A k \in 1 .. n : a[k] = s[k]
        /\ \A k \in 1 .. m : a[n + k] = r[k]
        /\ \A k \in 1 .. n + m : k \in 1 .. n \/ (k - n \in 1 .. m /\ k = n + (k - n))
  <2>1. PICK a : a = s \o r  OBVIOUS
  <2>2. /\ a \in Seq(Clusters) /\ Len(a) = n + m
        /\ \A k \in 1 .. n : a[k] = s[k]
        /\ \A k \in 1 .. m : a[n + k] = r[k]
      BY <1>3, <2>1, JoinFacts
  <2>3. \A k \in 1 .. n + m : k \in 1 .. n \/ (k - n \in 1 .. m /\ k = n + (k - n))
      OBVIOUS
  <2> QED BY <2>1, <2>2, <2>3
<1>5. /\ new \in [O -> Seq(Clusters)] /\ new[f] = a /\ new[t] = <<>>
      /\ \A x \in O : x # f /\ x # t => new[x] = ch[x]
  <2>1. <<>> \in Seq(Clusters)  OBVIOUS
  <2> QED BY <1>1, <1>2, <1>4, <2>1 DEF ChainOK
<1>6. n \in 1 .. n /\ 1 \in 1 .. m  BY <1>3
<1> DEFINE last == s[n]
<1>7. last \in Clusters /\ F[last] = r[1] /\ r[1] \in Clusters  BY <1>2, <1>3, <1>6, ChainType
<1>8. FreeSet(F) = FreeSet(E)
  <2>1. E[last] # FAT_ENT_FREE  BY <1>2, <1>3, <1>6, ChainType
  <2>2. F[last] # FAT_ENT_FREE  BY <1>7, ClusterFacts
  <2>3. \A c \in Clusters : c # last => F[c] = E[c]  BY <1>2, <1>3
  <2> HIDE DEF last
  <2> QED BY <2>1, <2>2, <2>3 DEF FreeSet
<1>9. ASSUME NEW x \in O, NEW k \in 1 .. Len(new[x])
      PROVE  \/ x # f /\ x # t /\ k \in 1 .. Len(ch[x]) /\ new[x][k] = ch[x][k]
             \/ x = f /\ k \in 1 .. n /\ new[x][k] = s[k]
             \/ x = f /\ k - n \in 1 .. m /\ k = n + (k - n) /\ new[x][k] = r[k - n]
  <2>1. x # t  BY <1>5, <1>9, NoLinks
  <2>2. CASE x = f
    <3>1. k \in 1 .. n + m /\ new[x] = a  BY <1>4, <1>5, <1>9, <2>2
    <3>2. CASE k \in 1 .. n  BY <1>4, <2>2, <3>1, <3>2
    <3>3. CASE k - n \in 1 .. m /\ k = n + (k - n)
      <4>1. a[n + (k - n)] = r[k - n]  BY <1>4, <3>3
      <4> QED BY <2>2, <3>1, <3>3, <4>1
    <3> QED BY <1>4, <3>1, <3>2, <3>3
  <2>3. CASE x # f  BY <1>5, <1>9, <2>1, <2>3
  <2> QED BY <2>2, <2>3
<1>10. ASSUME NEW x \in O, NEW k \in 1 .. Len(new[x])
       PROVE  F[new[x][k]] = Link(new[x], k)
  <2>1. CASE x # f /\ x # t /\ k \in 1 .. Len(ch[x]) /\ new[x][k] = ch[x][k]
    <3>1. ch[x][k] # last /\ ch[x][k] \in Clusters
        BY <1>2, <1>3, <1>6, <2>1, OneOwner, ChainType
    <3>2. F[ch[x][k]] = E[ch[x][k]]  BY <1>2, <1>3, <3>1
    <3> QED BY <1>5, <2>1, <3>2, ChainType
  <2>2. CASE x = f /\ k \in 1 .. n /\ new[x][k] = s[k]
    <3>1. CASE k = n
      <4>1. a[n + 1] = r[1]  BY <1>4, <1>6
      <4>2. Link(a, k) = r[1]  BY <1>3, <1>4, <3>1, <4>1 DEF Link
      <4> QED BY <1>5, <1>7, <2>2, <3>1, <4>2
    <3>2. CASE k # n
      <4>1. k \in Nat /\ k + 1 \in 1 .. n /\ k # n + m  BY <1>3, <2>2, <3>2
      <4>2. Link(a, k) = s[k + 1] /\ Link(s, k) = s[k + 1]  BY <1>3, <1>4, <3>2, <4>1 DEF Link
      <4>3. s[k] # last /\ s[k] \in Clusters
          BY <1>2, <1>3, <1>6, <2>2, <3>2, ChainType DEF Distinct
      <4>4. F[s[k]] = E[s[k]] /\ E[s[k]] = Link(s, k)  BY <1>2, <1>3, <2>2, <4>3, ChainType
      <4> QED BY <1>5, <2>2, <4>2, <4>4
    <3> QED BY <3>1, <3>2
  <2>3. CASE x = f /\ k - n \in 1 .. m /\ k = n + (k - n) /\ new[x][k] = r[k - n]
    <3>1. PICK i \in 1 .. m : i = k - n /\ k = n + i /\ new[x][k] = r[i]  BY <2>3
    <3>2. r[i] # last /\ r[i] \in Clusters  BY <1>2, <1>3, <1>6, <3>1, OneOwner, ChainType
    <3>3. F[r[i]] = E[r[i]] /\ E[r[i]] = Link(r, i)  BY <1>2, <1>3, <3>1, <3>2, ChainType
    <3>4. Link(a, k) = Link(r, i)
      <4>1. CASE i = m  BY <1>3, <1>4, <3>1, <4>1 DEF Link
      <4>2. CASE i # m
        <5>0. i \in Nat /\ i >= 1 /\ i <= m /\ k = n + i  BY <3>1
        <5>1. i + 1 \in 1 .. m /\ k # n + m /\ k + 1 = n + (i + 1)  BY <4>2, <5>0
        <5>2. a[k + 1] = r[i + 1]  BY <1>4, <5>1
        <5> QED BY <1>3, <1>4, <4>2, <5>1, <5>2 DEF Link
      <4> QED BY <4>1, <4>2
    <3> QED BY <1>5, <2>3, <3>1, <3>3, <3>4
  <2> QED BY <1>9, <2>1, <2>2, <2>3
<1>11. ASSUME NEW x \in O, NEW y \in O, NEW j \in 1 .. Len(new[x]), NEW k \in 1 .. Len(new[y]),
              new[x][j] = new[y][k]
       PROVE  x = y /\ j = k
  <2> DEFINE Old(z, i, w, l) == /\ w \in O /\ l \in 1 .. Len(ch[w]) /\ new[z][i] = ch[w][l]
                                /\ \/ z # f /\ w = z /\ l = i
                                   \/ z = f /\ w = f /\ l = i /\ i \in 1 .. n
                                   \/ z = f /\ w = t /\ i = n + l
  <2>1. \A z \in O : \A i \in 1 .. Len(new[z]) : \E w, l : Old(z, i, w, l)
    <3> SUFFICES ASSUME NEW z \in O, NEW i \in 1 .. Len(new[z]) PROVE \E w, l : Old(z, i, w, l)
        OBVIOUS
    <3>1. CASE z # f /\ z # t /\ i \in 1 .. Len(ch[z]) /\ new[z][i] = ch[z][i]
      <4>1. Old(z, i, z, i)  BY <3>1
      <4> QED BY <4>1
    <3>2. CASE z = f /\ i \in 1 .. n /\ new[z][i] = s[i]
      <4>1. Old(z, i, f, i)  BY <1>2, <1>3, <3>2
      <4> QED BY <4>1
    <3>3. CASE z = f /\ i - n \in 1 .. m /\ i = n + (i - n) /\ new[z][i] = r[i - n]
      <4>1. Old(z, i, t, i - n)  BY <1>2, <1>3, <3>3
      <4> QED BY <4>1
    <3> HIDE DEF Old
    <3> QED BY <1>9, <3>1, <3>2, <3>3
  <2> HIDE DEF Old
  <2>2. PICK v, p : Old(x, j, v, p)  BY <2>1
  <2>3. PICK w, q : Old(y, k, w, q)  BY <2>1
  <2>4. v \in O /\ p \in 1 .. Len(ch[v]) /\ w \in O /\ q \in 1 .. Len(ch[w]) /\ ch[v][p] = ch[w][q]
      BY <1>11, <2>2, <2>3 DEF Old
  <2>5. v = w /\ p = q
    <3>1. PICK v2 \in O, w2 \in O : v2 = v /\ w2 = w  BY <2>4
    <3>2. PICK p2 \in 1 .. Len(ch[v2]), q2 \in 1 .. Len(ch[w2]) : p2 = p /\ q2 = q  BY <2>4, <3>1
    <3>3. ch[v2][p2] = ch[w2][q2]  BY <2>4, <3>1, <3>2
    <3>4. v2 = w2 /\ p2 = q2  BY ONLY ChainOK(O, E, ch), <3>3, OneOwner
    <3> QED BY <3>1, <3>2, <3>4
  <2>6. x # t /\ y # t  BY <1>5, <1>11, NoLinks
  <2> QED BY <2>2, <2>3, <2>5, <2>6 DEF Old
<1>12. ChainOK(O, F, new)  BY <1>5, <1>10, <1>11 DEF ChainOK
<1>13. Owned(O, ch) \subseteq Owned(O, new)
  <2> SUFFICES ASSUME NEW c \in Owned(O, ch) PROVE c \in Owned(O, new)
      OBVIOUS
  <2>1. PICK x \in O : c \in Clusters /\ \E k \in 1 .. Len(ch[x]) : ch[x][k] = c  BY DEF Owned
  <2>2. PICK k \in 1 .. Len(ch[x]) : ch[x][k] = c  BY <2>1
  <2>3. CASE x = f
    <3>1. k \in 1 .. n /\ s[k] = c  BY <1>2, <1>3, <2>2, <2>3
    <3>2. k \in 1 .. n + m  BY <3>1
    <3>3. k \in 1 .. Len(new[f]) /\ new[f][k] = c  BY <1>4, <1>5, <3>1, <3>2
    <3> QED BY <2>1, <3>3 DEF Owned
  <2>4. CASE x = t
    <3>1. k \in 1 .. m /\ r[k] = c  BY <1>2, <1>3, <2>2, <2>4
    <3>2. n + k \in 1 .. n + m  BY <3>1
    <3>3. n + k \in 1 .. Len(new[f]) /\ new[f][n + k] = c  BY <1>4, <1>5, <3>1, <3>2
    <3> QED BY <2>1, <3>3 DEF Owned
  <2>5. CASE x # f /\ x # t
    <3>1. k \in 1 .. Len(new[x]) /\ new[x][k] = c  BY <1>5, <2>2, <2>5
    <3> QED BY <2>1, <3>1 DEF Owned
  <2> QED BY <2>3, <2>4, <2>5
<1>14. NoneLost(O, E, ch) => NoneLost(O, F, new)
  <2>1. \A c \in Clusters : E[c] = FAT_ENT_FREE <=> F[c] = FAT_ENT_FREE  BY <1>8 DEF FreeSet
  <2> QED BY <1>13, <2>1 DEF NoneLost
<1> QED BY <1>1, <1>12, <1>14

(* The chain of f is cut behind its n-th cluster; t gets the rest.         *)
LEMMA ChainCut ==
    ASSUME NEW O, NEW E, NEW F, NEW ch, NEW f \in O, NEW t \in O, f # t,
           ChainOK(O, E, ch), ch[t] = <<>>, NEW n \in 1 .. Len(ch[f]), n # Len(ch[f]),
           F[ch[f][n]] = FAT_ENT_EOF,
           SameBut(E, F, ch[f][n])
    PROVE  LET new == [ch EXCEPT ![f] = SubSeq(ch[f], 1, n),
                                 ![t] = SubSeq(ch[f], n + 1, Len(ch[f]))]
           IN /\ ChainOK(O, F, new)
              /\ NoneLost(O, E, ch) => NoneLost(O, F, new)
<1> USE DEF SameBut
<1>1. PICK new : new = [ch EXCEPT ![f] = SubSeq(ch[f], 1, n),
                                  ![t] = SubSeq(ch[f], n + 1, Len(ch[f]))]
    OBVIOUS
<1>2. PICK s \in Seq(Clusters), l \in Nat : s = ch[f] /\ l = Len(s) /\ n \in Nat /\ 1 <= n /\ n < l
    BY ChainType
<1>3. PICK a \in Seq(Clusters), b \in Seq(Clusters) :
        /\ a = SubSeq(s, 1, n) /\ Len(a) = n /\ \A k \in 1 .. n : a[k] = s[k]
        /\ b = SubSeq(s, n + 1, l) /\ Len(b) = l - n
        /\ \A k \in 1 .. l - n : b[k] = s[n + k] /\ n + k \in 1 .. l
  <2>1. PICK a, b : a = SubSeq(s, 1, n) /\ b = SubSeq(s, n + 1, l)  OBVIOUS
  <2>2. n \in 1 .. Len(s)  BY <1>2
  <2>3. /\ a \in Seq(Clusters) /\ Len(a) = n /\ \A k \in 1 .. n : a[k] = s[k]
        /\ b \in Seq(Clusters) /\ Len(b) = l - n
        /\ \A k \in 1 .. l - n : b[k] = s[n + k] /\ n + k \in 1 .. l
      BY <1>2, <2>1, <2>2, CutFacts
  <2> QED BY <2>1, <2>3
<1>4. /\ new \in [O -> Seq(Clusters)] /\ new[f] = a /\ new[t] = b
      /\ \A x \in O : x # f /\ x # t => new[x] = ch[x]
    BY <1>1, <1>2, <1>3 DEF ChainOK
<1> DEFINE last == s[n]
<1>5. n \in 1 .. l /\ last \in Clusters /\ F[last] = FAT_ENT_EOF /\ E[last] # FAT_ENT_FREE
    BY <1>2, ChainType, SMTT(30)
<1>6. FreeSet(F) = FreeSet(E)
  <2>1. F[last] # FAT_ENT_FREE  BY <1>5, ClusterFacts
  <2>2. \A c \in Clusters : c # last => F[c] = E[c]  BY <1>2
  <2> HIDE DEF last
  <2> QED BY <1>5, <2>1, <2>2 DEF FreeSet
<1>7. ASSUME NEW x \in O, NEW k \in 1 .. Len(new[x])
      PROVE  \/ x # f /\ x # t /\ k \in 1 .. Len(ch[x]) /\ new[x][k] = ch[x][k]
             \/ x = f /\ k \in 1 .. n /\ new[x][k] = s[k]
             \/ x = t /\ k \in 1 .. l - n /\ n + k \in 1 .. l /\ new[x][k] = s[n + k]
  <2>1. CASE x = f  BY <1>3, <1>4, <1>7, <2>1
  <2>2. CASE x = t
    <3>1. k \in 1 .. l - n  BY <1>3, <1>4, <1>7, <2>2
    <3>2. b[k] = s[n + k] /\ n + k \in 1 .. l  BY <1>3, <3>1
    <3> QED BY <1>4, <2>2, <3>1, <3>2
  <2>3. CASE x # f /\ x # t  BY <1>4, <1>7, <2>3
  <2> QED BY <2>1, <2>2, <2>3
<1>8. ASSUME NEW x \in O, NEW k \in 1 .. Len(new[x])
      PROVE  F[new[x][k]] = Link(new[x], k)
  <2>1. CASE x # f /\ x # t /\ k \in 1 .. Len(ch[x]) /\ new[x][k] = ch[x][k]
    <3>1. ch[x][k] # last /\ ch[x][k] \in Clusters
        BY <1>2, <1>5, <2>1, OneOwner, ChainType
    <3>2. F[ch[x][k]] = E[ch[x][k]]  BY <1>2, <3>1
    <3> QED BY <1>4, <2>1, <3>2, ChainType
  <2>2. CASE x = f /\ k \in 1 .. n /\ new[x][k] = s[k]
    <3>1. CASE k = n  BY <1>3, <1>4, <1>5, <2>2, <3>1 DEF Link
    <3>2. CASE k # n
      <4>1. k \in Nat /\ k + 1 \in 1 .. n /\ k # l /\ k \in 1 .. l  BY <1>2, <2>2, <3>2
      <4>2. Link(a, k) = s[k + 1] /\ Link(s, k) = s[k + 1]  BY <1>2, <1>3, <3>2, <4>1 DEF Link
      <4>3. s[k] # last /\ s[k] \in Clusters
          BY <1>2, <1>5, <4>1, <3>2, ChainType DEF Distinct
      <4>4. F[s[k]] = E[s[k]] /\ E[s[k]] = Link(s, k)  BY <1>2, <4>1, <4>3, ChainType
      <4> QED BY <1>4, <2>2, <4>2, <4>4
    <3> QED BY <3>1, <3>2
  <2>3. CASE x = t /\ k \in 1 .. l - n /\ n + k \in 1 .. l /\ new[x][k] = s[n + k]
    <3>1. n + k # n  BY <1>2, <2>3
    <3>2. s[n + k] # last /\ s[n + k] \in Clusters  BY <1>2, <1>5, <2>3, <3>1, ChainType DEF Distinct
    <3>3. F[s[n + k]] = E[s[n + k]] /\ E[s[n + k]] = Link(s, n + k)  BY <1>2, <2>3, <3>2, ChainType
    <3>4. Link(b, k) = Link(s, n + k)
      <4>0. k \in Nat /\ k >= 1 /\ k <= l - n  BY <1>2, <2>3
      <4>1. CASE k = l - n
        <5>1. n + k = l  BY <1>2, <4>0, <4>1
        <5> QED BY <1>2, <1>3, <4>1, <5>1 DEF Link
      <4>2. CASE k # l - n
        <5>1. k + 1 \in 1 .. l - n /\ n + k # l /\ (n + k) + 1 = n + (k + 1)  BY <1>2, <4>0, <4>2
        <5>2. b[k + 1] = s[n + (k + 1)]  BY <1>3, <5>1
        <5> QED BY <1>2, <1>3, <4>2, <5>1, <5>2 DEF Link
      <4> QED BY <4>1, <4>2
    <3> QED BY <1>4, <2>3, <3>3, <3>4
  <2> QED BY <1>7, <2>1, <2>2, <2>3
<1>9. ASSUME NEW x \in O, NEW y \in O, NEW j \in 1 .. Len(new[x]), NEW k \in 1 .. Len(new[y]),
              new[x][j] = new[y][k]
      PROVE  x = y /\ j = k
  <2> DEFINE Old(z, i, w, p) == /\ w \in O /\ p \in 1 .. Len(ch[w]) /\ new[z][i] = ch[w][p]
                                /\ \/ z # f /\ z # t /\ w = z /\ p = i
                                   \/ z = f /\ w = f /\ p = i /\ i <= n
                                   \/ z = t /\ w = f /\ p = n + i /\ i >= 1
  <2>1. \A z \in O : \A i \in 1 .. Len(new[z]) : \E w, p : Old(z, i, w, p)
    <3> SUFFICES ASSUME NEW z \in O, NEW i \in 1 .. Len(new[z]) PROVE \E w, p : Old(z, i, w, p)
        OBVIOUS
    <3>1. CASE z # f /\ z # t /\ i \in 1 .. Len(ch[z]) /\ new[z][i] = ch[z][i]
      <4>1. Old(z, i, z, i)  BY <3>1
      <4> QED BY <4>1
    <3>2. CASE z = f /\ i \in 1 .. n /\ new[z][i] = s[i]
      <4>1. i \in 1 .. l /\ i <= n  BY <1>2, <3>2
      <4>2. Old(z, i, f, i)  BY <1>2, <3>2, <4>1
      <4> QED BY <4>2
    <3>3. CASE z = t /\ i \in 1 .. l - n /\ n + i \in 1 .. l /\ new[z][i] = s[n + i]
      <4>1. i >= 1  BY <3>3
      <4>2. Old(z, i, f, n + i)  BY <1>2, <3>3, <4>1
      <4> QED BY <4>2
    <3> HIDE DEF Old
    <3> QED BY <1>7, <3>1, <3>2, <3>3
  <2> HIDE DEF Old
  <2>2. PICK v, p : Old(x, j, v, p)  BY <2>1
  <2>3. PICK w, q : Old(y, k, w, q)  BY <2>1
  <2>4. v \in O /\ p \in 1 .. Len(ch[v]) /\ w \in O /\ q \in 1 .. Len(ch[w]) /\ ch[v][p] = ch[w][q]
      BY <1>9, <2>2, <2>3 DEF Old
  <2>5. v = w /\ p = q
    <3>1. PICK v2 \in O, w2 \in O : v2 = v /\ w2 = w  BY <2>4
    <3>2. PICK p2 \in 1 .. Len(ch[v2]), q2 \in 1 .. Len(ch[w2]) : p2 = p /\ q2 = q  BY <2>4, <3>1
    <3>3. ch[v2][p2] = ch[w2][q2]  BY <2>4, <3>1, <3>2
    <3>4. v2 = w2 /\ p2 = q2  BY ONLY ChainOK(O, E, ch), <3>3, OneOwner
    <3> QED BY <3>1, <3>2, <3>4
  <2>6. j \in Nat /\ k \in Nat /\ n \in Nat  BY <1>2, <1>9
  <2>7. /\ \/ x # f /\ x # t /\ v = x /\ p = j
           \/ x = f /\ v = f /\ p = j /\ j <= n
           \/ x = t /\ v = f /\ p = n + j /\ j >= 1
        /\ \/ y # f /\ y # t /\ w = y /\ q = k
           \/ y = f /\ w = f /\ q = k /\ k <= n
           \/ y = t /\ w = f /\ q = n + k /\ k >= 1
      BY <2>2, <2>3 DEF Old
  <2> QED BY <2>5, <2>6, <2>7
<1>10. ChainOK(O, F, new)  BY <1>4, <1>8, <1>9 DEF ChainOK
<1>11. Owned(O, ch) \subseteq Owned(O, new)
  <2> SUFFICES ASSUME NEW c \in Owned(O, ch) PROVE c \in Owned(O, new)
      OBVIOUS
  <2>1. PICK x \in O : c \in Clusters /\ \E k \in 1 .. Len(ch[x]) : ch[x][k] = c  BY DEF Owned
  <2>2. PICK k \in 1 .. Len(ch[x]) : ch[x][k] = c  BY <2>1
  <2>3. CASE x = f
    <3>1. k \in 1 .. l /\ s[k] = c /\ k \in Nat  BY <1>2, <2>2, <2>3
    <3>2. CASE k <= n
      <4>1. k \in 1 .. n  BY <3>1, <3>2
      <4>2. k \in 1 .. Len(new[f]) /\ new[f][k] = c  BY <1>3, <1>4, <3>1, <4>1
      <4> QED BY <2>1, <4>2 DEF Owned
    <3>3. CASE k > n
      <4>1. k - n \in 1 .. l - n /\ n + (k - n) = k  BY <1>2, <3>1, <3>3
      <4>2. k - n \in 1 .. Len(new[t]) /\ new[t][k - n] = c  BY <1>3, <1>4, <3>1, <4>1
      <4> QED BY <2>1, <4>2 DEF Owned
    <3> QED BY <1>2, <3>1, <3>2, <3>3
  <2>4. x # t  BY <2>2, NoLinks
  <2>5. CASE x # f
    <3>1. k \in 1 .. Len(new[x]) /\ new[x][k] = c  BY <1>4, <2>2, <2>4, <2>5
    <3> QED BY <2>1, <3>1 DEF Owned
  <2> QED BY <2>3, <2>5
<1>12. NoneLost(O, E, ch) => NoneLost(O, F, new)
  <2>1. \A c \in Clusters : E[c] = FAT_ENT_FREE <=> F[c] = FAT_ENT_FREE  BY <1>6 DEF FreeSet
  <2> QED BY <1>11, <2>1 DEF NoneLost
<1> QED BY <1>1, <1>10, <1>12

(* A chain is given to an owner that had none.                             *)
LEMMA ChainMove ==
    ASSUME NEW O, NEW E, NEW ch, NEW x \in O, NEW y \in O, x # y,
           ChainOK(O, E, ch), ch[y] = <<>>
    PROVE  LET new == [ch EXCEPT ![y] = ch[x], ![x] = <<>>]
           IN ChainOK(O, E, new) /\ (NoneLost(O, E, ch) => NoneLost(O, E, new))
<1>1. PICK new : new = [ch EXCEPT ![y] = ch[x], ![x] = <<>>]  OBVIOUS
<1>2. /\ new \in [O -> Seq(Clusters)] /\ new[y] = ch[x] /\ new[x] = <<>>
      /\ \A z \in O : z # x /\ z # y => new[z] = ch[z]
  <2>1. <<>> \in Seq(Clusters) /\ ch[x] \in Seq(Clusters)  BY ChainType
  <2> QED BY <1>1, <2>1 DEF ChainOK
<1>3. ASSUME NEW z \in O, NEW k \in 1 .. Len(new[z])
      PROVE  \E w \in O : w = (IF z = y THEN x ELSE z) /\ new[z] = ch[w] /\ z # x
  <2>1. z # x  BY <1>2, <1>3, NoLinks
  <2> QED BY <1>2, <2>1
<1>4. ASSUME NEW z \in O, NEW k \in 1 .. Len(new[z])
      PROVE  E[new[z][k]] = Link(new[z], k)
  <2>1. PICK w \in O : new[z] = ch[w]  BY <1>3, <1>4
  <2> QED BY <1>4, <2>1, ChainType
<1>5. ASSUME NEW z \in O, NEW u \in O, NEW j \in 1 .. Len(new[z]), NEW k \in 1 .. Len(new[u]),
              new[z][j] = new[u][k]
      PROVE  z = u /\ j = k
  <2>1. PICK w \in O : w = (IF z = y THEN x ELSE z) /\ new[z] = ch[w] /\ z # x  BY <1>3, <1>5
  <2>2. PICK v \in O : v = (IF u = y THEN x ELSE u) /\ new[u] = ch[v] /\ u # x  BY <1>3, <1>5
  <2>3. w = v /\ j = k  BY <1>5, <2>1, <2>2, OneOwner
  <2> QED BY <2>1, <2>2, <2>3
<1>6. ChainOK(O, E, new)  BY <1>2, <1>4, <1>5 DEF ChainOK
<1>7. Owned(O, ch) \subseteq Owned(O, new)
  <2> SUFFICES ASSUME NEW c \in Owned(O, ch) PROVE c \in Owned(O, new)
      OBVIOUS
  <2>1. PICK z \in O : c \in Clusters /\ \E k \in 1 .. Len(ch[z]) : ch[z][k] = c  BY DEF Owned
  <2>2. z # y  BY <2>1, NoLinks
  <2>3. CASE z = x  BY <1>2, <2>1, <2>3 DEF Owned
  <2>4. CASE z # x  BY <1>2, <2>1, <2>2, <2>4 DEF Owned
  <2> QED BY <2>3, <2>4
<1> QED BY <1>1, <1>6, <1>7 DEF NoneLost

(* A chain is forgotten, and its clusters lost.                            *)
LEMMA ChainDrop ==
    ASSUME NEW O, NEW E, NEW ch, NEW t \in O, ChainOK(O, E, ch)
    PROVE  ChainOK(O, E, [ch EXCEPT ![t] = <<>>])
<1>1. PICK new : new = [ch EXCEPT ![t] = <<>>]  OBVIOUS
<1>2. /\ new \in [O -> Seq(Clusters)] /\ new[t] = <<>>
      /\ \A z \in O : z # t => new[z] = ch[z]
  <2>1. <<>> \in Seq(Clusters)  OBVIOUS
  <2> QED BY <1>1, <2>1 DEF ChainOK
<1>3. ASSUME NEW z \in O, NEW k \in 1 .. Len(new[z])
      PROVE  z # t /\ new[z] = ch[z]
  <2>1. z # t  BY <1>2, <1>3, NoLinks
  <2> QED BY <1>2, <2>1
<1>4. ASSUME NEW z \in O, NEW k \in 1 .. Len(new[z])
      PROVE  E[new[z][k]] = Link(new[z], k)
  <2>1. new[z] = ch[z]  BY <1>3, <1>4
  <2> QED BY <1>4, <2>1, ChainType
<1>5. ASSUME NEW z \in O, NEW u \in O, NEW j \in 1 .. Len(new[z]), NEW k \in 1 .. Len(new[u]),
              new[z][j] = new[u][k]
      PROVE  z = u /\ j = k
  <2>1. new[z] = ch[z] /\ new[u] = ch[u]  BY <1>3, <1>5
  <2> QED BY <1>5, <2>1, OneOwner
<1> QED BY <1>1, <1>2, <1>4, <1>5 DEF ChainOK
=============================================================================
