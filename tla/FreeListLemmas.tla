--------------------------- MODULE FreeListLemmas ---------------------------
(***************************************************************************)
(* What the proofs about FreeList need to know of the operators it is made *)
(* of: sequences that lose or gain an element, the place of a block in the *)
(* list and the block fl_allocate finds, headers that are split and joined *)
(* and the words of the free blocks.  The heap, the headers and the list   *)
(* are parameters here.                                                    *)
(***************************************************************************)
EXTENDS FreeList, WellFoundedInduction, TLAPS

USE SMTT(30)

\* The blocks of a list, and a list that holds none twice.
Elems(l) == {l[i] : i \in 1 .. Len(l)}
Once(l) == \A i, j \in 1 .. Len(l) : l[i] = l[j] => i = j

\* The blocks with headers W tile the chunks H: each lies in a chunk, two do
\* not overlap, and the end of one is the next one or the end of the chunk.
Tiled(H, W) ==
  /\ \A h \in DOMAIN W : h \in Nat /\ W[h] \in Nat
  /\ \A h \in DOMAIN W : \E c \in H : c.base <= h /\ h + W[h] + 1 <= End(c)
  /\ \A g, h \in DOMAIN W : g < h => g + W[g] + 1 <= h
  /\ \A c \in H : c.base \in DOMAIN W
  /\ \A c \in H : \A h \in DOMAIN W : c.base <= h /\ h < End(c) =>
       h + W[h] + 1 = End(c) \/ h + W[h] + 1 \in DOMAIN W

\* The words of the blocks S.
WordsOf(S, W) == UNION {h .. h + W[h] : h \in S}

-----------------------------------------------------------------------------
(* Sequences.                                                              *)

\* The elements of two lists put together.
LEMMA Concat ==
  ASSUME NEW S, NEW a \in Seq(S), NEW b \in Seq(S)
  PROVE  /\ a \o b \in Seq(S)
         /\ Len(a \o b) = Len(a) + Len(b)
         /\ \A i \in 1 .. Len(a) + Len(b) :
              (a \o b)[i] = IF i <= Len(a) THEN a[i] ELSE b[i - Len(a)]
OBVIOUS

\* What unlink and link return.
LEMMA UnlinkAt ==
  ASSUME NEW S, NEW l \in Seq(S), NEW i \in 1 .. Len(l)
  PROVE  /\ unlink(l, i) \in Seq(S)
         /\ Len(unlink(l, i)) = Len(l) - 1
         /\ \A j \in 1 .. Len(l) - 1 : unlink(l, i)[j] = IF j < i THEN l[j] ELSE l[j + 1]
<1> DEFINE a == SubSeq(l, 1, i - 1)
           b == SubSeq(l, i + 1, Len(l))
<1>1. a \in Seq(S) /\ Len(a) = i - 1 /\ \A j \in 1 .. i - 1 : a[j] = l[j]
  OBVIOUS
<1>2. b \in Seq(S) /\ Len(b) = Len(l) - i /\ \A j \in 1 .. Len(l) - i : b[j] = l[i + j]
  OBVIOUS
<1> HIDE DEF a, b
<1>0. Len(l) \in Nat /\ i \in Nat /\ Len(a) + Len(b) = Len(l) - 1
  BY <1>1, <1>2
<1>3. /\ a \o b \in Seq(S)
      /\ Len(a \o b) = Len(a) + Len(b)
      /\ \A j \in 1 .. Len(a) + Len(b) : (a \o b)[j] = IF j <= Len(a) THEN a[j] ELSE b[j - Len(a)]
  BY <1>1, <1>2, Concat, Zenon
<1>4. unlink(l, i) = a \o b
  BY DEF unlink, a, b
<1>5. ASSUME NEW j \in 1 .. Len(l) - 1
      PROVE (a \o b)[j] = IF j < i THEN l[j] ELSE l[j + 1]
  <2>1. CASE j < i
    BY <2>1, <1>0, <1>1, <1>3
  <2>2. CASE j >= i
    <3>1. j - Len(a) \in 1 .. Len(l) - i /\ i + (j - Len(a)) = j + 1 /\ ~ (j <= Len(a))
      BY <2>2, <1>0, <1>1
    <3>2. (a \o b)[j] = b[j - Len(a)]
      BY <3>1, <1>0, <1>3
    <3>3. b[j - Len(a)] = l[i + (j - Len(a))]
      BY <3>1, <1>2, Zenon
    <3> QED
      BY <2>2, <3>1, <3>2, <3>3, <1>0
  <2> QED
    BY <2>1, <2>2, <1>0
<1> QED
  BY <1>0, <1>3, <1>4, <1>5

\* What link(l, i, e) holds at each place: e at i, the rest moved on.
LEMMA LinkAt ==
  ASSUME NEW S, NEW l \in Seq(S), NEW i \in 1 .. Len(l) + 1, NEW e \in S
  PROVE  /\ link(l, i, e) \in Seq(S)
         /\ Len(link(l, i, e)) = Len(l) + 1
         /\ \A j \in 1 .. Len(l) + 1 :
              link(l, i, e)[j] = IF j < i THEN l[j] ELSE IF j = i THEN e ELSE l[j - 1]
<1> DEFINE a == SubSeq(l, 1, i - 1)
           b == SubSeq(l, i, Len(l))
           c == a \o <<e>>
<1>1. a \in Seq(S) /\ Len(a) = i - 1 /\ \A j \in 1 .. i - 1 : a[j] = l[j]
  OBVIOUS
<1>2. b \in Seq(S) /\ Len(b) = Len(l) - i + 1 /\ \A j \in 1 .. Len(l) - i + 1 : b[j] = l[i + j - 1]
  OBVIOUS
<1> HIDE DEF a, b
<1>3. c \in Seq(S) /\ Len(c) = i /\ \A j \in 1 .. i : c[j] = IF j < i THEN a[j] ELSE e
  BY <1>1
<1> HIDE DEF c
<1>4. /\ c \o b \in Seq(S)
      /\ Len(c \o b) = Len(l) + 1
      /\ \A j \in 1 .. Len(l) + 1 : (c \o b)[j] = IF j <= i THEN c[j] ELSE b[j - i]
  BY <1>2, <1>3, Concat
<1>5. link(l, i, e) = c \o b
  BY DEF link, a, b, c
<1> QED
  BY <1>1, <1>2, <1>3, <1>4, <1>5

\* Unlinking a block takes it, and only it, out of the list.
LEMMA Unlink ==
  ASSUME NEW S, NEW l \in Seq(S), Once(l), NEW i \in 1 .. Len(l)
  PROVE  /\ Elems(unlink(l, i)) = Elems(l) \ {l[i]}
         /\ Once(unlink(l, i))
<1> DEFINE r == unlink(l, i)
<1>0. Len(l) \in Nat /\ i \in Nat
  OBVIOUS
<1>1. Len(r) = Len(l) - 1 /\ \A j \in 1 .. Len(l) - 1 : r[j] = IF j < i THEN l[j] ELSE l[j + 1]
  BY UnlinkAt
<1> HIDE DEF r
<1>2. ASSUME NEW x \in Elems(r)
      PROVE  x \in Elems(l) \ {l[i]}
  <2>1. PICK j \in 1 .. Len(l) - 1 : x = r[j]
    BY <1>1 DEF Elems
  <2>2. PICK k \in 1 .. Len(l) : k # i /\ x = l[k]
    BY <1>0, <1>1, <2>1
  <2> QED
    BY <2>2 DEF Elems, Once
<1>3. ASSUME NEW x \in Elems(l), x # l[i]
      PROVE  x \in Elems(r)
  <2>1. PICK k \in 1 .. Len(l) : k # i /\ x = l[k]
    BY <1>3 DEF Elems
  <2>2. PICK j \in 1 .. Len(l) - 1 : x = r[j]
    <3>1. CASE k < i
      BY <3>1, <2>1, <1>0, <1>1
    <3>2. CASE k > i
      <4>1. k - 1 \in 1 .. Len(l) - 1 /\ ~ (k - 1 < i) /\ (k - 1) + 1 = k
        BY <3>2, <1>0
      <4> QED
        BY <4>1, <2>1, <1>1, Zenon
    <3> QED
      BY <3>1, <3>2, <2>1, <1>0
  <2> QED
    BY <2>2, <1>1 DEF Elems
<1>4. Once(r)
  <2>1. SUFFICES ASSUME NEW j \in 1 .. Len(l) - 1, NEW k \in 1 .. Len(l) - 1, r[j] = r[k]
                 PROVE  j = k
    BY <1>1 DEF Once
  <2> DEFINE jj == IF j < i THEN j ELSE j + 1
             kk == IF k < i THEN k ELSE k + 1
  <2>2. jj \in 1 .. Len(l) /\ kk \in 1 .. Len(l) /\ (jj = kk => j = k)
    BY <1>0
  <2>3. r[j] = l[jj] /\ r[k] = l[kk]
    BY <1>1
  <2> QED
    BY <2>1, <2>2, <2>3, Zenon DEF Once
<1> QED
  BY <1>2, <1>3, <1>4 DEF r

\* Linking a block that is not in the list adds it, and only it.
LEMMA Link ==
  ASSUME NEW S, NEW l \in Seq(S), Once(l), NEW i \in 1 .. Len(l) + 1, NEW e \in S,
         e \notin Elems(l)
  PROVE  /\ Elems(link(l, i, e)) = Elems(l) \cup {e}
         /\ Once(link(l, i, e))
<1> DEFINE r == link(l, i, e)
<1>0. Len(l) \in Nat /\ i \in Nat
  OBVIOUS
<1>1. Len(r) = Len(l) + 1
      /\ \A j \in 1 .. Len(l) + 1 : r[j] = IF j < i THEN l[j] ELSE IF j = i THEN e ELSE l[j - 1]
  BY LinkAt
<1> HIDE DEF r
<1>2. ASSUME NEW j \in 1 .. Len(l) + 1, j # i
      PROVE  /\ (IF j < i THEN j ELSE j - 1) \in 1 .. Len(l)
             /\ r[j] = l[IF j < i THEN j ELSE j - 1]
  BY <1>0, <1>1, <1>2
<1>3. r[i] = e /\ i \in 1 .. Len(l) + 1
  BY <1>0, <1>1
<1>4. ASSUME NEW x \in Elems(r)
      PROVE  x \in Elems(l) \cup {e}
  <2>1. PICK j \in 1 .. Len(l) + 1 : x = r[j]
    BY <1>1 DEF Elems
  <2> QED
    BY <1>2, <1>3, <2>1 DEF Elems
<1>5. ASSUME NEW x \in Elems(l)
      PROVE  x \in Elems(r)
  <2>1. PICK k \in 1 .. Len(l) : x = l[k]
    BY DEF Elems
  <2> DEFINE j == IF k < i THEN k ELSE k + 1
  <2>2. j \in 1 .. Len(l) + 1 /\ j # i /\ (IF j < i THEN j ELSE j - 1) = k
    BY <1>0
  <2>3. r[j] = x
    BY <2>1, <2>2, <1>2
  <2> QED
    BY <2>2, <2>3, <1>1 DEF Elems
<1>6. e \in Elems(r)
  BY <1>1, <1>3 DEF Elems
<1>7. Once(r)
  <2>1. SUFFICES ASSUME NEW j \in 1 .. Len(l) + 1, NEW k \in 1 .. Len(l) + 1, r[j] = r[k]
                 PROVE  j = k
    BY <1>1 DEF Once
  <2>2. ASSUME NEW n \in 1 .. Len(l) + 1, n # i
        PROVE  r[n] # e
    BY <1>2, <2>2 DEF Elems
  <2>3. CASE j # i /\ k # i
    <3> DEFINE jj == IF j < i THEN j ELSE j - 1
               kk == IF k < i THEN k ELSE k - 1
    <3>1. jj \in 1 .. Len(l) /\ kk \in 1 .. Len(l) /\ (jj = kk => j = k)
      BY <1>0, <2>3
    <3>2. r[j] = l[jj] /\ r[k] = l[kk]
      BY <1>2, <2>3
    <3> QED
      BY <2>1, <3>1, <3>2, Zenon DEF Once
  <2> QED
    BY <1>3, <2>1, <2>2, <2>3
<1> QED
  BY <1>4, <1>5, <1>6, <1>7 DEF r

-----------------------------------------------------------------------------
(* The list as the allocator and the sweeper search it.                    *)

\* A set of natural numbers has a smallest one.
LEMMA Smallest ==
  ASSUME NEW T \in SUBSET Nat, T # {}
  PROVE  \E n \in T : \A m \in T : n <= m
<1> DEFINE R == {ss \in Nat \X Nat : ss[1] < ss[2]}
<1>1. IsWellFoundedOn(R, Nat)
  BY NatLessThanWellFounded DEF OpToRel
<1>2. \A a, b \in Nat : a < b => <<a, b>> \in R
  OBVIOUS
<1> HIDE DEF R
<1>3. PICK x \in T : \A y \in T : ~ (<<y, x>> \in R)
  BY <1>1, WFMin, Zenon
<1>4. \A y \in T : x <= y
  <2> TAKE y \in T
  <2>1. x \in Nat /\ y \in Nat
    OBVIOUS
  <2>2. ~ (y < x)
    BY <1>2, <1>3, <2>1, Zenon
  <2> QED
    BY <2>1, <2>2
<1> QED
  BY <1>4

\* The place of a block, counted from the sentinel.
LEMMA PosFacts ==
  ASSUME NEW l \in Seq(Nat \ {0}), NEW h \in Elems(l) \cup {Fl_head}
  PROVE  /\ Pos(l, h) \in 0 .. Len(l)
         /\ At(l, Pos(l, h)) = h
         /\ Pos(l, h) = 0 <=> h = Fl_head
<1>1. CASE h = Fl_head
  BY <1>1 DEF Pos, At
<1>2. CASE h # Fl_head
  <2>1. \E i \in 1 .. Len(l) : l[i] = h
    BY <1>2 DEF Elems
  <2>2. Pos(l, h) = CHOOSE i \in 1 .. Len(l) : l[i] = h
    BY <1>2 DEF Pos
  <2>3. Pos(l, h) \in 1 .. Len(l) /\ l[Pos(l, h)] = h
    BY <2>1, <2>2
  <2> HIDE DEF Pos
  <2> QED
    BY <1>2, <2>3 DEF At
<1> QED
  BY <1>1, <1>2

\* The search of fl_allocate finds a block that is large enough, and finds one
\* if there is one: it goes round the whole list.
LEMMA FitFacts ==
  ASSUME NEW l \in Seq(Nat \ {0}), NEW prev \in Elems(l) \cup {Fl_head}, NEW sz, NEW wo
  PROVE  /\ Fit(l, prev, sz, wo) # 0 =>
              Fit(l, prev, sz, wo) \in 1 .. Len(l) /\ sz[l[Fit(l, prev, sz, wo)]] >= wo
         /\ \A i \in 1 .. Len(l) : sz[l[i]] >= wo => Fit(l, prev, sz, wo) # 0
<1> DEFINE p == Pos(l, prev)
           n == Len(l)
           ord == SearchOrder(l, prev)
           ok == {k \in 1 .. n : sz[l[ord[k]]] >= wo}
           first == CHOOSE k \in ok : \A j \in ok : k <= j
<1>1. p \in 0 .. n /\ n \in Nat
  BY PosFacts
<1>2. ord = [k \in 1 .. n |-> IF p + k <= n THEN p + k ELSE p + k - n]
  BY DEF SearchOrder
<1>3. Fit(l, prev, sz, wo) = IF ok = {} THEN 0 ELSE ord[first]
  BY DEF Fit
<1> HIDE DEF p, n, ord
<1>4. \A k \in 1 .. n : ord[k] \in 1 .. n
  BY <1>1, <1>2
<1>5. \A i \in 1 .. n : \E k \in 1 .. n : ord[k] = i
  <2> TAKE i \in 1 .. n
  <2> DEFINE k == IF i > p THEN i - p ELSE i - p + n
  <2>1. k \in 1 .. n /\ (IF p + k <= n THEN p + k ELSE p + k - n) = i
    BY <1>1
  <2> QED
    BY <2>1, <1>2
<1>6. ok # {} => first \in ok
  <2> SUFFICES ASSUME ok # {} PROVE first \in ok
    BY Zenon
  <2>1. ok \in SUBSET Nat
    BY <1>1
  <2>2. \E k \in ok : \A j \in ok : k <= j
    BY <2>1, Smallest, Zenon
  <2> QED
    BY <2>2, Zenon
<1> HIDE DEF first
<1>7. ok # {} => ord[first] \in 1 .. n /\ sz[l[ord[first]]] >= wo
  BY <1>4, <1>6
<1>8. \A i \in 1 .. n : sz[l[i]] >= wo => ok # {}
  BY <1>5, Zenon
<1>9. 0 \notin 1 .. n
  BY <1>1
<1> HIDE DEF ok
<1>10. \A i \in 1 .. Len(l) : sz[l[i]] >= wo => Fit(l, prev, sz, wo) # 0
  BY <1>3, <1>7, <1>8, <1>9 DEF n
<1> QED
  BY <1>3, <1>7, <1>10 DEF n

\* fl_add_block finds a place between two blocks or at an end.
LEMMA AddFacts ==
  ASSUME fl \in Seq(Nat), NEW h \in Nat
  PROVE  fl_add_block_at(h) \in 0 .. Len(fl)
<1> DEFINE n == Len(fl)
           Above == {i \in 1 .. n : fl[i] >= h}
<1>1. n \in Nat /\ \A i \in 1 .. n : fl[i] \in Nat
  OBVIOUS
<1>2. CASE Above = {}
  <2>1. \A j \in 1 .. n : fl[j] < h
    BY <1>1, <1>2
  <2>2. n \in 0 .. n
    BY <1>1
  <2> QED
    BY <2>1, <2>2 DEF fl_add_block_at
<1>3. CASE Above # {}
  <2>0. Above \in SUBSET Nat
    BY <1>1
  <2>1. PICK k \in Above : \A m \in Above : k <= m
    BY <2>0, <1>3, Smallest, Zenon
  <2>2. k - 1 \in 0 .. n /\ fl[k - 1 + 1] >= h /\ \A j \in 1 .. k - 1 : fl[j] < h
    BY <1>1, <2>1
  <2>3. n \in 0 .. n
    BY <1>1
  <2>4. \E i \in 0 .. n : (\A j \in 1 .. i : fl[j] < h) /\ (i = n \/ fl[i + 1] >= h)
    BY <2>2, Zenon
  <2> QED
    BY <2>3, <2>4, Zenon DEF fl_add_block_at
<1> QED
  BY <1>2, <1>3

-----------------------------------------------------------------------------
(* Lists in address order.                                                 *)

Ascending(l) == \A i, j \in 1 .. Len(l) : i < j => l[i] < l[j]

\* A list in address order stays so when a block leaves it.
LEMMA UnlinkAscending ==
  ASSUME NEW l \in Seq(Nat), Ascending(l), NEW i \in 1 .. Len(l)
  PROVE  Ascending(unlink(l, i))
<1> DEFINE r == unlink(l, i)
<1>0. Len(l) \in Nat /\ i \in Nat
  OBVIOUS
<1>1. Len(r) = Len(l) - 1 /\ \A j \in 1 .. Len(l) - 1 : r[j] = IF j < i THEN l[j] ELSE l[j + 1]
  BY UnlinkAt
<1> HIDE DEF r
<1>2. SUFFICES ASSUME NEW j \in 1 .. Len(l) - 1, NEW k \in 1 .. Len(l) - 1, j < k
               PROVE  r[j] < r[k]
  BY <1>1 DEF Ascending, r
<1> DEFINE jj == IF j < i THEN j ELSE j + 1
           kk == IF k < i THEN k ELSE k + 1
<1>3. jj \in 1 .. Len(l) /\ kk \in 1 .. Len(l) /\ jj < kk
  BY <1>0, <1>2
<1>4. r[j] = l[jj] /\ r[k] = l[kk]
  BY <1>1, Zenon
<1> QED
  BY <1>3, <1>4, Zenon DEF Ascending

\* A list in address order stays so when a block enters it at its place.
LEMMA LinkAscending ==
  ASSUME NEW l \in Seq(Nat), Ascending(l), NEW i \in 1 .. Len(l) + 1, NEW e \in Nat,
         \A j \in 1 .. Len(l) : IF j < i THEN l[j] < e ELSE e < l[j]
  PROVE  Ascending(link(l, i, e))
<1> DEFINE r == link(l, i, e)
<1>0. Len(l) \in Nat /\ i \in Nat
  OBVIOUS
<1>1. Len(r) = Len(l) + 1
      /\ \A j \in 1 .. Len(l) + 1 : r[j] = IF j < i THEN l[j] ELSE IF j = i THEN e ELSE l[j - 1]
  BY LinkAt, <1>0
<1> HIDE DEF r
<1>2. SUFFICES ASSUME NEW j \in 1 .. Len(l) + 1, NEW k \in 1 .. Len(l) + 1, j < k
               PROVE  r[j] < r[k]
  BY <1>1 DEF Ascending, r
<1>3. CASE j = i
  <2>1. k - 1 \in 1 .. Len(l) /\ ~ (k - 1 < i) /\ r[k] = l[k - 1] /\ r[j] = e
    BY <1>0, <1>1, <1>2, <1>3
  <2> QED
    BY <2>1
<1>4. CASE k = i
  <2>1. j \in 1 .. Len(l) /\ j < i /\ r[j] = l[j] /\ r[k] = e
    BY <1>0, <1>1, <1>2, <1>4
  <2> QED
    BY <2>1
<1>5. CASE j # i /\ k # i
  <2> DEFINE jj == IF j < i THEN j ELSE j - 1
             kk == IF k < i THEN k ELSE k - 1
  <2>1. jj \in 1 .. Len(l) /\ kk \in 1 .. Len(l) /\ jj < kk
    BY <1>0, <1>2, <1>5
  <2>2. r[j] = l[jj] /\ r[k] = l[kk]
    BY <1>1, <1>5
  <2> QED
    BY <2>1, <2>2, Zenon DEF Ascending
<1> QED
  BY <1>3, <1>4, <1>5

\* In a list in address order, the blocks up to the place of m are those up to
\* the address m.
LEMMA PosOrder ==
  ASSUME NEW l \in Seq(Nat \ {0}), Ascending(l), NEW m \in Elems(l) \cup {Fl_head},
         NEW j \in 1 .. Len(l)
  PROVE  j <= Pos(l, m) <=> l[j] <= m
<1>1. Pos(l, m) \in 0 .. Len(l) /\ At(l, Pos(l, m)) = m /\ (Pos(l, m) = 0 <=> m = Fl_head)
  BY PosFacts
<1>2. Len(l) \in Nat /\ l[j] \in Nat \ {0}
  OBVIOUS
<1>3. CASE m = Fl_head
  BY <1>1, <1>2, <1>3 DEF Fl_head
<1>4. CASE m # Fl_head
  <2>1. Pos(l, m) \in 1 .. Len(l) /\ l[Pos(l, m)] = m
    BY <1>1, <1>2, <1>4 DEF At
  <2> DEFINE p == Pos(l, m)
  <2>2. p \in 1 .. Len(l) /\ l[p] = m /\ m \in Nat
    BY <2>1
  <2> HIDE DEF p
  <2>3. j < p => l[j] < m
    BY <2>2 DEF Ascending
  <2>4. p < j => m < l[j]
    BY <2>2 DEF Ascending
  <2>5. j <= p <=> l[j] <= m
    BY <1>2, <2>2, <2>3, <2>4
  <2> QED
    BY <2>5 DEF p
<1> QED
  BY <1>3, <1>4

\* The block before the i-th one: no other block is between the two.
LEMMA PrevOrder ==
  ASSUME NEW l \in Seq(Nat \ {0}), Ascending(l), NEW i \in 1 .. Len(l),
         NEW x \in Elems(l), x # l[i]
  PROVE  x <= At(l, i - 1) <=> x <= l[i]
<1>1. PICK k \in 1 .. Len(l) : x = l[k]
  BY DEF Elems
<1>2. Len(l) \in Nat /\ x \in Nat \ {0} /\ l[i] \in Nat /\ k # i
  BY <1>1
<1>3. x <= l[i] <=> k < i
  BY <1>1, <1>2 DEF Ascending
<1>4. CASE i = 1
  BY <1>2, <1>3, <1>4 DEF At, Fl_head
<1>5. CASE i # 1
  <2> DEFINE p == i - 1
  <2>1. p \in 1 .. Len(l) /\ At(l, p) = l[p] /\ (k < i <=> k <= p)
    BY <1>2, <1>5 DEF At
  <2> HIDE DEF p
  <2>2. l[p] \in Nat
    BY <2>1
  <2>3. k <= p <=> l[k] <= l[p]
    BY <1>1, <1>2, <2>1, <2>2 DEF Ascending
  <2> QED
    BY <1>1, <1>3, <2>1, <2>3 DEF p
<1> QED
  BY <1>4, <1>5

-----------------------------------------------------------------------------
(* Headers.                                                                *)

\* A block is split: at m a header is written for its last words, which may be
\* the whole block.  alloc_shr takes the end of a free block so, and
\* Obj.truncate gives the end of a block back.
LEMMA Split ==
  ASSUME NEW H \in SUBSET Chunks, NEW W, NEW V, Tiled(H, W),
         NEW c \in DOMAIN W, NEW m \in c .. c + W[c],
         DOMAIN V = DOMAIN W \cup {m},
         V[m] = c + W[c] - m,
         m # c => V[c] = m - c - 1,
         \A h \in DOMAIN W : h # c /\ h # m => V[h] = W[h]
  PROVE  Tiled(H, V)
<1>1. c \in Nat /\ W[c] \in Nat /\ m \in Nat /\ c <= m /\ m <= c + W[c]
  BY DEF Tiled
<1>2. \A h \in DOMAIN V : h \in Nat /\ V[h] \in Nat
  BY <1>1 DEF Tiled
<1>3. \A h \in DOMAIN W : h # c => (h < c /\ h + W[h] + 1 <= c) \/ h >= c + W[c] + 1
  BY <1>1 DEF Tiled
<1>4. \A h \in DOMAIN W : h # c => h # m /\ V[h] = W[h]
  BY <1>1, <1>3 DEF Tiled
<1>5. \A h \in DOMAIN V : \E d \in H : d.base <= h /\ h + V[h] + 1 <= End(d)
  <2>1. PICK d \in H : d.base <= c /\ c + W[c] + 1 <= End(d)
    BY DEF Tiled
  <2>2. d.base \in Nat /\ End(d) \in Nat
    BY ChunksAssumption DEF End
  <2>3. d.base <= m /\ m + V[m] + 1 <= End(d)
    BY <1>1, <2>1, <2>2
  <2>4. m # c => d.base <= c /\ c + V[c] + 1 <= End(d)
    BY <1>1, <2>1, <2>2
  <2> QED
    BY <1>4, <2>3, <2>4 DEF Tiled
<1>6. \A g, h \in DOMAIN V : g < h => g + V[g] + 1 <= h
  <2> SUFFICES ASSUME NEW g \in DOMAIN V, NEW h \in DOMAIN V, g < h
               PROVE  g + V[g] + 1 <= h
    OBVIOUS
  <2>1. CASE g \in DOMAIN W /\ g # c
    BY <2>1, <1>1, <1>3, <1>4 DEF Tiled
  <2>2. CASE g = c \/ g = m
    <3>1. g = m => g + V[g] + 1 = c + W[c] + 1
      BY <1>1
    <3>2. g # m => g + V[g] + 1 = m
      BY <1>1, <2>2
    <3>3. h = m \/ h = c \/ h >= c + W[c] + 1
      BY <1>1, <1>3, <2>2, <1>2
    <3> QED
      BY <1>1, <1>2, <2>2, <3>1, <3>2, <3>3
  <2> QED
    BY <2>1, <2>2
<1>7. \A d \in H : d.base \in DOMAIN V
  BY DEF Tiled
<1>8. ASSUME NEW d \in H, NEW h \in DOMAIN V, d.base <= h, h < End(d)
      PROVE  h + V[h] + 1 = End(d) \/ h + V[h] + 1 \in DOMAIN V
  <2>1. CASE h \in DOMAIN W /\ h # c
    BY <1>4, <1>8, <2>1 DEF Tiled
  <2>2. CASE h = c /\ m # c
    BY <1>1, <2>2
  <2>3. CASE h = m
    <3>1. h + V[h] + 1 = c + W[c] + 1
      BY <1>1, <2>3
    <3>2. PICK e \in H : e.base <= c /\ c + W[c] + 1 <= End(e)
      BY DEF Tiled
    <3>3. d.base \in Nat /\ End(d) \in Nat /\ e.base \in Nat /\ End(e) \in Nat
      BY ChunksAssumption DEF End
    <3>4. e.base <= m /\ m < End(e)
      BY <1>1, <3>2, <3>3
    <3>5. d = e
      BY ChunksAssumption, <1>1, <1>8, <2>3, <3>3, <3>4 DEF End
    <3> QED
      BY <3>1, <3>2, <3>3, <3>5, <1>1 DEF Tiled
  <2> QED
    BY <2>1, <2>2, <2>3
<1> QED
  BY <1>2, <1>5, <1>6, <1>7, <1>8 DEF Tiled

\* A new chunk is one block, apart from all others.
LEMMA Grow ==
  ASSUME NEW H \in SUBSET Chunks, NEW W, Tiled(H, W), NEW c \in Chunks \ H
  PROVE  /\ Tiled(H \cup {c}, Put(W, c.base, c.size - 1))
         /\ \A h \in DOMAIN W : h + W[h] + 1 < c.base \/ End(c) < h
<1> DEFINE V == Put(W, c.base, c.size - 1)
<1>1. /\ DOMAIN V = DOMAIN W \cup {c.base}
      /\ V[c.base] = c.size - 1
      /\ \A h \in DOMAIN W : h # c.base => V[h] = W[h]
  BY DEF Put
<1>2. c.base \in Nat /\ c.size \in Nat /\ c.size > 1 /\ End(c) = c.base + c.size
  BY ChunksAssumption DEF End
<1>3. \A d \in H : /\ d.base \in Nat /\ d.size \in Nat /\ d.size > 1
                   /\ End(d) = d.base + d.size
                   /\ End(d) < c.base \/ End(c) < d.base
  BY ChunksAssumption DEF End
<1>4. \A h \in DOMAIN W : h + W[h] + 1 < c.base \/ End(c) < h
  BY <1>2, <1>3 DEF Tiled
<1>5. \A h \in DOMAIN W : h # c.base /\ V[h] = W[h]
  BY <1>1, <1>2, <1>4 DEF Tiled
<1> HIDE DEF V
<1>6. \A h \in DOMAIN V : h \in Nat /\ V[h] \in Nat
  BY <1>1, <1>2, <1>5 DEF Tiled
<1>7. \A h \in DOMAIN V : \E d \in H \cup {c} : d.base <= h /\ h + V[h] + 1 <= End(d)
  BY <1>1, <1>2, <1>5 DEF Tiled
<1>8. \A g, h \in DOMAIN V : g < h => g + V[g] + 1 <= h
  BY <1>1, <1>2, <1>4, <1>5 DEF Tiled
<1>9. \A d \in H \cup {c} : d.base \in DOMAIN V
  BY <1>1 DEF Tiled
<1>10. ASSUME NEW d \in H \cup {c}, NEW h \in DOMAIN V, d.base <= h, h < End(d)
       PROVE  h + V[h] + 1 = End(d) \/ h + V[h] + 1 \in DOMAIN V
  <2>1. CASE h = c.base
    BY <1>1, <1>2, <1>3, <1>10, <2>1
  <2>2. CASE h # c.base
    BY <1>1, <1>2, <1>4, <1>5, <1>10, <2>2 DEF Tiled
  <2> QED
    BY <2>1, <2>2
<1>11. Tiled(H \cup {c}, V)
  BY <1>6, <1>7, <1>8, <1>9, <1>10 DEF Tiled
<1> QED
  BY <1>4, <1>11 DEF V

\* The blocks from s to e become one.
LEMMA Join ==
  ASSUME NEW H \in SUBSET Chunks, NEW W, NEW V, Tiled(H, W),
         NEW c \in H, NEW s \in DOMAIN W, NEW e \in DOMAIN W \cup {End(c)},
         c.base <= s, s < e, e <= End(c),
         DOMAIN V = {h \in DOMAIN W : h <= s \/ h >= e},
         V[s] = e - s - 1,
         \A h \in DOMAIN V : h # s => V[h] = W[h]
  PROVE  Tiled(H, V)
<1>1. /\ s \in Nat /\ e \in Nat /\ c.base \in Nat /\ End(c) \in Nat /\ s \in DOMAIN V
      /\ End(c) = c.base + c.size
  BY ChunksAssumption DEF Tiled, End
<1>2. \A h \in DOMAIN V : h \in Nat /\ V[h] \in Nat
  BY <1>1 DEF Tiled
<1>3. \A h \in DOMAIN V : \E d \in H : d.base <= h /\ h + V[h] + 1 <= End(d)
  <2>1. c.base <= s /\ s + V[s] + 1 <= End(c)
    BY <1>1
  <2> QED
    BY <2>1 DEF Tiled
<1>4. \A g, h \in DOMAIN V : g < h => g + V[g] + 1 <= h
  BY <1>1, <1>2 DEF Tiled
<1>5. \A d \in H : /\ d.base \in Nat /\ d.size \in Nat /\ End(d) = d.base + d.size
                   /\ d = c \/ End(d) < c.base \/ End(c) < d.base
  BY ChunksAssumption DEF End
<1>6. \A d \in H : d.base \in DOMAIN V
  BY <1>1, <1>5 DEF Tiled
<1>7. ASSUME NEW d \in H, NEW h \in DOMAIN V, d.base <= h, h < End(d)
      PROVE  h + V[h] + 1 = End(d) \/ h + V[h] + 1 \in DOMAIN V
  <2>1. CASE h = s
    <3>1. d = c
      BY <1>1, <1>5, <1>7, <2>1
    <3>2. h + V[h] + 1 = e
      BY <1>1, <2>1
    <3> QED
      BY <1>1, <3>1, <3>2
  <2>2. CASE h # s
    <3>1. h \in DOMAIN W /\ h \in Nat /\ W[h] \in Nat /\ V[h] = W[h]
      BY <2>2 DEF Tiled
    <3>2. h + W[h] + 1 = End(d) \/ h + W[h] + 1 \in DOMAIN W
      BY <1>7, <3>1 DEF Tiled
    <3>3. h < s \/ h >= e
      BY <1>1, <2>2, <3>1
    <3>4. h < s => h + W[h] + 1 <= s
      BY <3>1 DEF Tiled
    <3> QED
      BY <1>1, <3>1, <3>2, <3>3, <3>4
  <2> QED
    BY <2>1, <2>2
<1> QED
  BY <1>2, <1>3, <1>4, <1>6, <1>7 DEF Tiled

\* The headers of the heap are above the sentinel, and none is at the end of a
\* chunk; a header between the two ends of a chunk has its block in it.
LEMMA InChunk ==
  ASSUME NEW H \in SUBSET Chunks, NEW W, Tiled(H, W)
  PROVE  /\ DOMAIN W \subseteq Nat \ {0}
         /\ \A c \in H : /\ c.base \in Nat /\ End(c) \in Nat /\ c.base < End(c)
                         /\ End(c) \notin DOMAIN W
                         /\ \A h \in DOMAIN W : c.base <= h /\ h < End(c) => h + W[h] + 1 <= End(c)
         /\ \A c, d \in H : c = d \/ End(c) < d.base \/ End(d) < c.base
<1>1. \A c \in H : /\ c.base \in Nat \ {0} /\ c.size \in Nat \ {0, 1} /\ End(c) = c.base + c.size
                   /\ End(c) \in Nat /\ c.base < End(c)
  BY ChunksAssumption DEF End
<1>2. \A c, d \in H : c = d \/ End(c) < d.base \/ End(d) < c.base
  BY ChunksAssumption, <1>1 DEF End
<1>3. DOMAIN W \subseteq Nat \ {0}
  BY <1>1 DEF Tiled
<1>4. ASSUME NEW c \in H, NEW h \in DOMAIN W, c.base <= h, h <= End(c)
      PROVE  h < End(c) /\ h + W[h] + 1 <= End(c)
  <2>1. PICK d \in H : d.base <= h /\ h + W[h] + 1 <= End(d)
    BY DEF Tiled
  <2>2. h \in Nat /\ W[h] \in Nat
    BY DEF Tiled
  <2>3. c = d
    BY <1>1, <1>2, <1>4, <2>1, <2>2
  <2> QED
    BY <1>1, <2>1, <2>2, <2>3
<1>5. \A c \in H : End(c) \notin DOMAIN W
  BY <1>1, <1>4
<1> QED
  BY <1>1, <1>2, <1>3, <1>4, <1>5

-----------------------------------------------------------------------------
(* The words of the free blocks, which fl_cur_size counts.                 *)

\* S has n elements.
Counted(S, n) ==
  /\ n \in Nat
  /\ \E f \in [1 .. n -> S] : /\ \A i, j \in 1 .. n : f[i] = f[j] => i = j
                             /\ \A x \in S : \E i \in 1 .. n : f[i] = x

\* Without one of its elements a set has one less.
LEMMA CountOne ==
  ASSUME NEW S, NEW n, Counted(S, n), NEW x \in S
  PROVE  Counted(S \ {x}, n - 1)
<1>1. n \in Nat
  BY DEF Counted
<1>2. PICK f \in [1 .. n -> S] : /\ \A i, j \in 1 .. n : f[i] = f[j] => i = j
                                /\ \A y \in S : \E i \in 1 .. n : f[i] = y
  BY DEF Counted
<1>3. PICK k \in 1 .. n : f[k] = x
  BY <1>2
<1> DEFINE g == [i \in 1 .. n - 1 |-> IF i < k THEN f[i] ELSE f[i + 1]]
<1>4. g \in [1 .. n - 1 -> S \ {x}]
  BY <1>1, <1>2, <1>3
<1>5. \A i, j \in 1 .. n - 1 : g[i] = g[j] => i = j
  BY <1>1, <1>2
<1>6. \A y \in S \ {x} : \E i \in 1 .. n - 1 : g[i] = y
  <2> TAKE y \in S \ {x}
  <2>1. PICK i \in 1 .. n : f[i] = y
    BY <1>2
  <2>2. CASE i < k
    <3>1. i \in 1 .. n - 1 /\ g[i] = y
      BY <1>1, <2>1, <2>2
    <3> QED
      BY <3>1
  <2>3. CASE i > k
    <3>1. i - 1 \in 1 .. n - 1 /\ g[i - 1] = y
      BY <1>1, <2>1, <2>3
    <3> QED
      BY <3>1
  <2> QED
    BY <1>1, <1>3, <2>1, <2>2, <2>3
<1>7. n - 1 \in Nat
  BY <1>1, <1>3
<1> HIDE DEF g
<1>8. \E h \in [1 .. n - 1 -> S \ {x}] : /\ \A i, j \in 1 .. n - 1 : h[i] = h[j] => i = j
                                        /\ \A y \in S \ {x} : \E i \in 1 .. n - 1 : h[i] = y
  BY <1>4, <1>5, <1>6, Zenon
<1> QED
  BY <1>7, <1>8, Zenon DEF Counted

\* Words that are taken away from what is counted: one after the other.
LEMMA CountLess ==
  ASSUME NEW S, NEW n, Counted(S, n), NEW a \in Int, NEW b \in Int, a <= b, a .. b \subseteq S
  PROVE  Counted(S \ (a .. b), n - (b - a + 1))
<1> DEFINE T(k) == S \ (a .. a + k - 1)
           Bad == {k \in 0 .. b - a + 1 : ~ Counted(T(k), n - k)}
<1>0. n \in Nat
  BY DEF Counted
<1>1. Bad = {}
  <2> SUFFICES ASSUME Bad # {} PROVE FALSE
    OBVIOUS
  <2>1. Bad \in SUBSET Nat
    OBVIOUS
  <2>2. PICK k \in Bad : \A m \in Bad : k <= m
    BY <2>1, Smallest, Zenon
  <2>3. k \in 0 .. b - a + 1 /\ ~ Counted(T(k), n - k)
    OBVIOUS
  <2>4. k # 0
    <3>1. T(0) = S /\ n - 0 = n
      BY <1>0
    <3> QED
      BY <2>3, <3>1
  <2>5. k - 1 \in 0 .. b - a + 1 /\ k - 1 \notin Bad
    BY <2>2, <2>3, <2>4
  <2>6. Counted(T(k - 1), n - (k - 1))
    BY <2>5
  <2>7. a + k - 1 \in T(k - 1) /\ T(k) = T(k - 1) \ {a + k - 1}
    BY <2>3, <2>4
  <2>8. n - (k - 1) - 1 = n - k
    BY <1>0, <2>3
  <2> HIDE DEF T, Bad
  <2>9. Counted(T(k - 1) \ {a + k - 1}, n - (k - 1) - 1)
    BY <2>6, <2>7, CountOne
  <2> QED
    BY <2>3, <2>7, <2>8, <2>9
<1>2. b - a + 1 \in 0 .. b - a + 1
  OBVIOUS
<1>3. Counted(T(b - a + 1), n - (b - a + 1))
  BY <1>1, <1>2
<1>4. T(b - a + 1) = S \ (a .. b)
  OBVIOUS
<1> QED
  BY <1>3, <1>4

\* Words that are added to what is counted.
LEMMA CountMore ==
  ASSUME NEW S, NEW n, Counted(S, n), NEW a \in Int, NEW b \in Int, a <= b, (a .. b) \cap S = {}
  PROVE  Counted(S \cup (a .. b), n + (b - a + 1))
<1> DEFINE U == S \cup (a .. b)
           k == n + (b - a + 1)
<1>1. n \in Nat /\ k \in Nat
  BY DEF Counted
<1>2. PICK f \in [1 .. n -> S] : /\ \A i, j \in 1 .. n : f[i] = f[j] => i = j
                                /\ \A y \in S : \E i \in 1 .. n : f[i] = y
  BY DEF Counted
<1> DEFINE g == [i \in 1 .. k |-> IF i <= n THEN f[i] ELSE a + (i - n - 1)]
<1>3. \A i \in 1 .. k : /\ i <= n => i \in 1 .. n /\ g[i] = f[i] /\ g[i] \in S
                        /\ i > n => g[i] = a + (i - n - 1) /\ g[i] \in a .. b
  BY <1>1, <1>2
<1>4. g \in [1 .. k -> U]
  BY <1>1, <1>3
<1>5. \A i, j \in 1 .. k : g[i] = g[j] => i = j
  BY <1>1, <1>2, <1>3
<1>6. \A y \in U : \E i \in 1 .. k : g[i] = y
  <2> TAKE y \in U
  <2>1. CASE y \in S
    <3>1. PICK i \in 1 .. n : f[i] = y
      BY <1>2, <2>1
    <3>2. i \in 1 .. k /\ i <= n
      BY <1>1
    <3> QED
      BY <1>3, <3>1, <3>2
  <2>2. CASE y \in a .. b
    <3>1. n + (y - a) + 1 \in 1 .. k /\ a + ((n + (y - a) + 1) - n - 1) = y /\ n + (y - a) + 1 > n
      BY <1>1, <2>2
    <3> QED
      BY <1>3, <3>1
  <2> QED
    BY <2>1, <2>2
<1> HIDE DEF g, U, k
<1>7. \E h \in [1 .. k -> U] : /\ \A i, j \in 1 .. k : h[i] = h[j] => i = j
                              /\ \A y \in U : \E i \in 1 .. k : h[i] = y
  BY <1>4, <1>5, <1>6, Zenon
<1>8. Counted(U, k)
  BY <1>1, <1>7, Zenon DEF Counted
<1> QED
  BY <1>8 DEF U, k

\* The words of a free block that leaves the list, or that loses its end.
LEMMA WordsTaken ==
  ASSUME NEW H, NEW W, Tiled(H, W), NEW S \in SUBSET DOMAIN W,
         NEW c \in S, NEW m \in c .. c + W[c], NEW T \in SUBSET S, NEW V,
         T = IF m = c THEN S \ {c} ELSE S,
         m # c => V[c] = m - c - 1,
         \A h \in S : h # c => V[h] = W[h]
  PROVE  /\ WordsOf(T, V) = WordsOf(S, W) \ (m .. c + W[c])
         /\ m .. c + W[c] \subseteq WordsOf(S, W)
<1>1. c \in Nat /\ W[c] \in Nat /\ m \in Nat /\ c <= m /\ m <= c + W[c]
  BY DEF Tiled
<1>2. \A h \in S : h # c => h \in Nat /\ W[h] \in Nat /\ (h + W[h] < c \/ c + W[c] < h)
  BY <1>1 DEF Tiled
<1>3. ASSUME NEW x \in WordsOf(T, V)
      PROVE  x \in WordsOf(S, W) \ (m .. c + W[c])
  <2>1. PICK h \in T : x \in h .. h + V[h]
    BY DEF WordsOf
  <2>2. CASE h = c
    <3>1. m # c /\ x \in c .. c + W[c] /\ x < m
      BY <1>1, <2>1, <2>2
    <3> QED
      BY <1>1, <3>1 DEF WordsOf
  <2>3. CASE h # c
    <3>1. x \in h .. h + W[h] /\ ~ (x \in m .. c + W[c])
      BY <1>1, <1>2, <2>1, <2>3
    <3> QED
      BY <3>1 DEF WordsOf
  <2> QED
    BY <2>2, <2>3
<1>4. ASSUME NEW x \in WordsOf(S, W), x \notin m .. c + W[c]
      PROVE  x \in WordsOf(T, V)
  <2>1. PICK h \in S : x \in h .. h + W[h]
    BY DEF WordsOf
  <2>2. CASE h = c
    <3>1. m # c /\ x \in c .. c + V[c] /\ c \in T
      BY <1>1, <1>4, <2>1, <2>2
    <3> QED
      BY <3>1 DEF WordsOf
  <2>3. CASE h # c
    <3>1. x \in h .. h + V[h] /\ h \in T
      BY <2>1, <2>3
    <3> QED
      BY <3>1 DEF WordsOf
  <2> QED
    BY <2>2, <2>3
<1>5. m .. c + W[c] \subseteq c .. c + W[c]
  BY <1>1
<1> QED
  BY <1>3, <1>4, <1>5 DEF WordsOf

\* The words of a block are none of the words of other blocks.
LEMMA WordsApart ==
  ASSUME NEW H, NEW W, Tiled(H, W), NEW S \in SUBSET DOMAIN W,
         NEW g \in DOMAIN W, g \notin S
  PROVE  (g .. g + W[g]) \cap WordsOf(S, W) = {}
<1> SUFFICES ASSUME NEW x \in g .. g + W[g], NEW h \in S, x \in h .. h + W[h]
             PROVE  FALSE
  BY DEF WordsOf
<1>1. g \in Nat /\ W[g] \in Nat /\ h \in Nat /\ W[h] \in Nat /\ g # h
  BY DEF Tiled
<1>2. g + W[g] < h \/ h + W[h] < g
  BY <1>1 DEF Tiled
<1> QED
  BY <1>1, <1>2

\* The blocks S, with headers W, become the blocks T, with headers V: the words
\* a .. b join them, and the blocks from s to e become one.
Joined(S, W, T, V, s, e, a, b) ==
  /\ s \in Nat /\ e \in Nat /\ s < e /\ a \in Nat /\ b \in Nat /\ s <= a /\ b < e
  /\ \A h \in S : h \in Nat /\ W[h] \in Nat
  /\ \A h \in S : s <= h /\ h < e => h + W[h] < e
  /\ \A x \in s .. e - 1 : x \in a .. b \/ x \in WordsOf(S, W)
  /\ T = {h \in S : h < s \/ h >= e} \cup {s}
  /\ V[s] = e - s - 1
  /\ \A h \in S : h < s \/ h >= e => V[h] = W[h]

\* A merge adds the words of the merged block to those of the free blocks.
LEMMA WordsJoined ==
  ASSUME NEW S, NEW W, NEW T, NEW V, NEW s, NEW e, NEW a, NEW b, Joined(S, W, T, V, s, e, a, b)
  PROVE  WordsOf(T, V) = WordsOf(S, W) \cup (a .. b)
<1> USE DEF Joined
<1>1. ASSUME NEW x \in WordsOf(T, V)
      PROVE  x \in WordsOf(S, W) \cup (a .. b)
  <2>1. PICK h \in T : x \in h .. h + V[h]
    BY DEF WordsOf
  <2>2. CASE h = s
    <3>1. x \in s .. e - 1
      BY <2>1, <2>2
    <3> QED
      BY <3>1
  <2>3. CASE h # s
    <3>1. h \in S /\ x \in h .. h + W[h]
      BY <2>1, <2>3
    <3> QED
      BY <3>1 DEF WordsOf
  <2> QED
    BY <2>2, <2>3
<1>2. ASSUME NEW x \in s .. e - 1
      PROVE  x \in WordsOf(T, V)
  <2>1. x \in s .. s + V[s] /\ s \in T
    OBVIOUS
  <2> QED
    BY <2>1 DEF WordsOf
<1>3. ASSUME NEW x \in WordsOf(S, W)
      PROVE  x \in WordsOf(T, V)
  <2>1. PICK h \in S : x \in h .. h + W[h]
    BY DEF WordsOf
  <2>2. CASE s <= h /\ h < e
    <3>1. x \in s .. e - 1
      BY <2>1, <2>2
    <3> QED
      BY <3>1, <1>2
  <2>3. CASE h < s \/ h >= e
    <3>1. h \in T /\ x \in h .. h + V[h]
      BY <2>1, <2>3
    <3> QED
      BY <3>1 DEF WordsOf
  <2> QED
    BY <2>2, <2>3
<1>4. a .. b \subseteq s .. e - 1
  OBVIOUS
<1> QED
  BY <1>1, <1>2, <1>3, <1>4

-----------------------------------------------------------------------------
(* IInv is the inductive invariant.  It is stated with operators of the    *)
(* state's parts, because alloc_shr_expand works on a state between two:   *)
(* the one fl_add_block has left and allocate_block starts from.           *)

\* The free blocks.
Blue(W, C) == {h \in DOMAIN W : C[h] = "blue"}

\* The heap is tiled, and the list l, with fl_prev = p, fl_merge = m and
\* fl_cur_size = n, is the list of its blue blocks.
Linked(H, W, C, l, p, m, n) ==
  /\ Tiled(H, W)
  /\ DOMAIN C = DOMAIN W
  /\ \A h \in DOMAIN W : C[h] \in {"white", "black", "blue"}
  /\ l \in Seq(DOMAIN W) /\ Once(l) /\ Elems(l) = Blue(W, C)
  /\ \A h \in Blue(W, C) : W[h] >= 1
  /\ p \in Elems(l) \cup {Fl_head}
  /\ m \in Elems(l) \cup {Fl_head}
  /\ Counted(WordsOf(Elems(l), W), n)

\* The blocks L the program holds have the sizes their headers say, and the
\* sweep that is under way will not take them.
Held(W, C, L, ph, hp) ==
  /\ L = [h \in DOMAIN L |-> W[h]]
  /\ DOMAIN L \subseteq DOMAIN W
  /\ \A h \in DOMAIN L : /\ W[h] >= 1 /\ C[h] # "blue"
                         /\ ph = "sweep" /\ h >= hp => C[h] = "black"

\* The sweeper stands at a header of its chunk c, or at its end, and a fragment
\* it has just passed is still there, and nobody's.
Swept(H, W, C, L, ph, c, hp, f) ==
  /\ ph \in {"idle", "sweep"} /\ hp \in Nat /\ f \in Nat \cup {NULL}
  /\ ph = "sweep" =>
       /\ c \in H /\ hp \in DOMAIN W \cup {End(c)} /\ c.base <= hp /\ hp <= End(c)
       /\ f # NULL => f < hp
       /\ f # NULL /\ f + 1 = hp =>
            f \in DOMAIN W /\ W[f] = 0 /\ C[f] = "white" /\ f \notin DOMAIN L

IInv ==
  /\ heap \subseteq Chunks /\ heap # {} /\ upward \in BOOLEAN
  /\ Linked(heap, wosize, color, fl, fl_prev, fl_merge, fl_cur_size)
  /\ Held(wosize, color, live, gc_phase, gc_sweep_hp)
  /\ Swept(heap, wosize, color, live, gc_phase, chunk, gc_sweep_hp, last_fragment)

\* The list l is in address order, m is its last block before the sweeper, and
\* no free block starts where another one ends.
Ordered(l, m, ph, hp, W) ==
  /\ Ascending(l)
  /\ ph = "sweep" => \A x \in Elems(l) : x <= m <=> x < hp
  /\ \A x, y \in Elems(l) : x + W[x] + 1 # y

OInv == upward => Ordered(fl, fl_merge, gc_phase, gc_sweep_hp, wosize)

\* What the invariant says, as the steps use it.
LEMMA Unfold ==
  ASSUME IInv
  PROVE  /\ heap \in SUBSET Chunks /\ Tiled(heap, wosize) /\ DOMAIN color = DOMAIN wosize
         /\ \A h \in DOMAIN wosize : h \in Nat /\ wosize[h] \in Nat
         /\ \A h \in DOMAIN wosize : color[h] \in {"white", "black", "blue"}
         /\ fl \in Seq(DOMAIN wosize) /\ Once(fl) /\ Elems(fl) = Blue(wosize, color)
         /\ \A h \in Blue(wosize, color) : wosize[h] >= 1
         /\ fl_prev \in Elems(fl) \cup {Fl_head} /\ fl_merge \in Elems(fl) \cup {Fl_head}
         /\ Counted(WordsOf(Elems(fl), wosize), fl_cur_size)
BY DEF IInv, Linked, Tiled

\* The list stays linked when the headers of its blocks stay.
LEMMA SameLinked ==
  ASSUME NEW H, NEW W, NEW C, NEW V, NEW D, NEW l, NEW p, NEW m, NEW q, NEW k, NEW n,
         Linked(H, W, C, l, p, m, n), Tiled(H, V),
         DOMAIN D = DOMAIN V, DOMAIN W \subseteq DOMAIN V,
         \A h \in DOMAIN V : D[h] \in {"white", "black", "blue"},
         Blue(V, D) = Blue(W, C), \A h \in Blue(W, C) : V[h] = W[h],
         q \in Elems(l) \cup {Fl_head}, k \in Elems(l) \cup {Fl_head}
  PROVE  Linked(H, V, D, l, q, k, n)
<1>1. l \in Seq(DOMAIN V) /\ Once(l) /\ Elems(l) = Blue(V, D)
  BY DEF Linked
<1>2. \A h \in Blue(V, D) : V[h] >= 1
  BY DEF Linked
<1>3. WordsOf(Elems(l), V) = WordsOf(Elems(l), W)
  <2>1. \A h \in Elems(l) : V[h] = W[h]
    BY <1>1
  <2>2. {h .. h + V[h] : h \in Elems(l)} = {h .. h + W[h] : h \in Elems(l)}
    BY <2>1
  <2> QED
    BY <2>2, ZenonT(30) DEF WordsOf
<1>4. Counted(WordsOf(Elems(l), W), n)
  BY DEF Linked
<1> QED
  BY <1>1, <1>2, <1>3, <1>4, ZenonT(30) DEF Linked
=============================================================================
