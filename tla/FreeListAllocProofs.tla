------------------------- MODULE FreeListAllocProofs ------------------------
(***************************************************************************)
(* Allocation, the growth of the heap and the truncation of a block        *)
(* preserve the inductive invariant of the free list.                      *)
(***************************************************************************)
EXTENDS FreeListLemmas

USE SMTT(30)

(* Allocation.                                                             *)

\* What allocate_block writes: the new block, at hp, is the end of the free
\* block cur, which stays free unless less than a block with a link is left.
Carved(W, C, cur, hp, wo) ==
  /\ cur \in Blue(W, C) /\ hp \in cur .. cur + W[cur] /\ hp + wo = cur + W[cur]
  /\ DOMAIN wosize' = DOMAIN W \cup {hp} /\ DOMAIN color' = DOMAIN W \cup {hp}
  /\ wosize'[hp] = wo /\ (hp # cur => wosize'[cur] = hp - cur - 1)
  /\ color'[hp] = allocation_color(hp)
  /\ hp # cur => color'[cur] = IF W[cur] < wo + 2 THEN "white" ELSE "blue"
  /\ W[cur] >= wo + 2 => hp # cur /\ wosize'[cur] >= 1
  /\ \A h \in DOMAIN W : h # cur => h # hp /\ wosize'[h] = W[h] /\ color'[h] = C[h]

\* allocate_block carves a block of wo words from the end of a free one.
LEMMA AllocateCarves ==
  ASSUME NEW H \in SUBSET Chunks, NEW sz, NEW col, NEW l, NEW p, NEW m, NEW n,
         Linked(H, sz, col, l, p, m, n),
         NEW wo \in Nat \ {0}, NEW i \in 1 .. Len(l), sz[l[i]] >= wo,
         allocate_block(l, i, sz, col, m, n, wo)
  PROVE  Carved(sz, col, l[i], allocated_hp(l[i], wo, sz), wo)
<1> DEFINE cur == l[i]
           hp  == allocated_hp(cur, wo, sz)
           new == allocation_color(hp)
<1>0. Tiled(H, sz) /\ DOMAIN col = DOMAIN sz /\ Elems(l) = Blue(sz, col)
  BY DEF Linked
<1>1. cur \in Blue(sz, col)
  BY <1>0 DEF Elems
<1>2. cur \in DOMAIN sz /\ cur \in Nat /\ sz[cur] \in Nat /\ col[cur] = "blue" /\ sz[cur] >= wo
  BY <1>0, <1>1 DEF Tiled, Blue
<1>3. hp = cur + sz[cur] - wo /\ hp \in cur .. cur + sz[cur] /\ hp + wo = cur + sz[cur]
  BY <1>2 DEF allocated_hp
<1>4. \A h \in DOMAIN sz : h # cur => h # hp
  <2> TAKE h \in DOMAIN sz
  <2>1. h \in Nat /\ (cur < h => cur + sz[cur] + 1 <= h)
    BY <1>0, <1>2, Zenon DEF Tiled
  <2> QED
    BY <1>2, <1>3, <2>1
<1>5. CASE sz[cur] < wo + 2
  <2>1. /\ wosize' = Put(Put(sz, cur, 0), hp, wo)
        /\ color' = Put(Put(col, cur, "white"), hp, new)
    BY <1>5 DEF allocate_block
  <2>2. hp # cur => hp - cur - 1 = 0
    BY <1>2, <1>3, <1>5
  <2>3. ~ (sz[cur] >= wo + 2)
    BY <1>2, <1>5
  <2> HIDE DEF cur, hp, new
  <2>4. DOMAIN wosize' = DOMAIN sz \cup {hp} /\ DOMAIN color' = DOMAIN sz \cup {hp}
    BY <1>0, <1>2, <2>1 DEF Put
  <2>5. /\ wosize'[hp] = wo /\ color'[hp] = new
        /\ hp # cur => wosize'[cur] = hp - cur - 1 /\ color'[cur] = "white"
    BY <1>0, <1>2, <2>1, <2>2 DEF Put
  <2>6. \A h \in DOMAIN sz : h # cur => h # hp /\ wosize'[h] = sz[h] /\ color'[h] = col[h]
    BY <1>0, <1>4, <2>1 DEF Put
  <2> QED
    BY <1>1, <1>3, <1>5, <2>3, <2>4, <2>5, <2>6 DEF Carved, cur, hp, new
<1>6. CASE sz[cur] >= wo + 2
  <2>1. /\ wosize' = Put(Put(sz, cur, sz[cur] - (wo + 1)), hp, wo)
        /\ color' = Put(col, hp, new)
    BY <1>2, <1>6 DEF allocate_block
  <2>2. hp # cur /\ hp - cur - 1 = sz[cur] - (wo + 1) /\ hp - cur - 1 >= 1
    BY <1>2, <1>3, <1>6
  <2>3. ~ (sz[cur] < wo + 2)
    BY <1>2, <1>6
  <2> HIDE DEF cur, hp, new
  <2>4. DOMAIN wosize' = DOMAIN sz \cup {hp} /\ DOMAIN color' = DOMAIN sz \cup {hp}
    BY <1>0, <1>2, <2>1 DEF Put
  <2>5. /\ wosize'[hp] = wo /\ color'[hp] = new
        /\ wosize'[cur] = hp - cur - 1 /\ color'[cur] = "blue"
    BY <1>0, <1>2, <2>1, <2>2 DEF Put
  <2>6. \A h \in DOMAIN sz : h # cur => h # hp /\ wosize'[h] = sz[h] /\ color'[h] = col[h]
    BY <1>0, <1>4, <2>1 DEF Put
  <2> QED
    BY <1>1, <1>3, <2>2, <2>3, <2>4, <2>5, <2>6 DEF Carved, cur, hp, new
<1> QED
  BY <1>2, <1>5, <1>6

\* allocate_block leaves a heap that is tiled and a list of its free blocks.
LEMMA AllocateLinked ==
  ASSUME NEW H \in SUBSET Chunks, NEW sz, NEW col, NEW l, NEW p, NEW m, NEW n,
         Linked(H, sz, col, l, p, m, n),
         NEW wo \in Nat \ {0}, NEW i \in 1 .. Len(l), sz[l[i]] >= wo,
         allocate_block(l, i, sz, col, m, n, wo)
  PROVE  Linked(H, wosize', color', fl', fl_prev', fl_merge', fl_cur_size')
<1> DEFINE cur == l[i]
           hp  == allocated_hp(cur, wo, sz)
           prev == At(l, i - 1)
           V == wosize'
           D == color'
<1>1. Carved(sz, col, cur, hp, wo)
  BY AllocateCarves
<1>2. /\ l \in Seq(DOMAIN sz) /\ Once(l) /\ Elems(l) = Blue(sz, col) /\ Len(l) \in Nat
      /\ Tiled(H, sz) /\ m \in Elems(l) \cup {Fl_head}
      /\ \A h \in DOMAIN sz : col[h] \in {"white", "black", "blue"}
      /\ \A h \in Blue(sz, col) : sz[h] >= 1
  BY DEF Linked
<1>3. Counted(WordsOf(Elems(l), sz), n)
  BY DEF Linked
<1>4. /\ sz[cur] < wo + 2 => /\ fl' = unlink(l, i) /\ fl_cur_size' = n - (sz[cur] + 1)
                             /\ fl_merge' = detached_merge(cur, prev, m)
      /\ ~ (sz[cur] < wo + 2) => fl' = l /\ fl_cur_size' = n - (wo + 1) /\ fl_merge' = m
      /\ fl_prev' = prev
  BY DEF allocate_block
<1>5. allocation_color(hp) \in {"white", "black"}
  BY DEF allocation_color
<1>6. prev \in Elems(l) \cup {Fl_head} /\ (prev # Fl_head => prev # cur)
  BY <1>2 DEF At, Elems, Once
<1>7. cur = l[i]
  OBVIOUS
<1> HIDE DEF cur, hp, prev, V, D
<1>8. /\ cur \in Blue(sz, col) /\ hp \in cur .. cur + sz[cur] /\ hp + wo = cur + sz[cur]
      /\ DOMAIN V = DOMAIN sz \cup {hp} /\ DOMAIN D = DOMAIN sz \cup {hp}
      /\ V[hp] = wo /\ (hp # cur => V[cur] = hp - cur - 1)
      /\ D[hp] \in {"white", "black"}
      /\ hp # cur => D[cur] = IF sz[cur] < wo + 2 THEN "white" ELSE "blue"
      /\ sz[cur] >= wo + 2 => hp # cur /\ V[cur] >= 1
      /\ \A h \in DOMAIN sz : h # cur => h # hp /\ V[h] = sz[h] /\ D[h] = col[h]
  BY <1>1, <1>5 DEF Carved, V, D
<1>9. cur \in DOMAIN sz /\ cur \in Nat /\ sz[cur] \in Nat /\ col[cur] = "blue"
  BY <1>2, <1>8 DEF Tiled, Blue
<1>10. Tiled(H, V)
  <2>1. V[hp] = cur + sz[cur] - hp
    BY <1>8, <1>9
  <2>2. /\ Tiled(H, sz) /\ cur \in DOMAIN sz /\ hp \in cur .. cur + sz[cur]
        /\ DOMAIN V = DOMAIN sz \cup {hp} /\ (hp # cur => V[cur] = hp - cur - 1)
        /\ \A h \in DOMAIN sz : h # cur /\ h # hp => V[h] = sz[h]
    BY <1>2, <1>8, <1>9
  <2> QED
    BY <2>1, <2>2, Split
<1>11. \A h \in DOMAIN V : D[h] \in {"white", "black", "blue"}
  BY <1>2, <1>8
<1>12. Elems(l) \in SUBSET DOMAIN sz /\ cur \in Elems(l) /\ \A h \in Elems(l) : h # cur => V[h] = sz[h]
  BY <1>2, <1>8 DEF Blue
<1>13. l \in Seq(DOMAIN V)
  <2>1. l \in Seq(DOMAIN sz) /\ DOMAIN sz \subseteq DOMAIN V
    BY <1>2, <1>8
  <2> QED
    BY <2>1
<1>14. CASE sz[cur] < wo + 2
  <2>1. fl' \in Seq(DOMAIN V) /\ Once(fl') /\ Elems(fl') = Elems(l) \ {cur}
    BY <1>2, <1>4, <1>7, <1>13, <1>14, UnlinkAt, Unlink
  <2>2. Blue(V, D) = Blue(sz, col) \ {cur}
    BY <1>8, <1>9, <1>14 DEF Blue
  <2>3. \A h \in Blue(V, D) : V[h] >= 1
    BY <1>2, <1>12, <2>2
  <2>4. fl_prev' \in Elems(fl') \cup {Fl_head}
    BY <1>4, <1>6, <2>1
  <2>5. fl_merge' \in Elems(fl') \cup {Fl_head}
    BY <1>2, <1>4, <1>6, <1>14, <2>1 DEF detached_merge
  <2> DEFINE e == cur + sz[cur]
             S == WordsOf(Elems(l), sz)
  <2>6. WordsOf(Elems(fl'), V) = S \ (cur .. e) /\ cur .. e \subseteq S
    <3> DEFINE first == cur
    <3>1. /\ Elems(fl') \in SUBSET Elems(l) /\ first \in cur .. cur + sz[cur]
          /\ Elems(fl') = IF first = cur THEN Elems(l) \ {cur} ELSE Elems(l)
          /\ first # cur => V[cur] = first - cur - 1
      BY <1>9, <2>1
    <3>2. Tiled(H, sz)
      BY <1>2
    <3> HIDE DEF first
    <3>3. WordsOf(Elems(fl'), V) = S \ (first .. e) /\ first .. e \subseteq S
      BY <1>12, <3>1, <3>2, WordsTaken
    <3> QED
      BY <3>3 DEF first
  <2>7. cur \in Int /\ e \in Int /\ cur <= e /\ e - cur + 1 = sz[cur] + 1
    BY <1>9
  <2> HIDE DEF e
  <2>8. Counted(S \ (cur .. e), n - (e - cur + 1))
    BY <1>3, <2>6, <2>7, CountLess, ZenonT(30)
  <2>9. Counted(WordsOf(Elems(fl'), V), fl_cur_size')
    BY <1>4, <1>14, <2>6, <2>7, <2>8
  <2> QED
    BY <1>2, <1>8, <1>10, <1>11, <2>1, <2>2, <2>3, <2>4, <2>5, <2>9 DEF Linked, V, D
<1>15. CASE ~ (sz[cur] < wo + 2)
  <2>0. sz[cur] >= wo + 2
    BY <1>9, <1>15
  <2>1. fl' \in Seq(DOMAIN V) /\ Once(fl') /\ fl' = l
    BY <1>2, <1>4, <1>13, <1>15
  <2>2. Blue(V, D) = Blue(sz, col)
    BY <1>8, <1>9, <1>15, <2>0 DEF Blue
  <2>3. \A h \in Blue(V, D) : V[h] >= 1
    BY <1>2, <1>8, <1>12, <2>0, <2>2
  <2>4. fl_prev' \in Elems(fl') \cup {Fl_head} /\ fl_merge' \in Elems(fl') \cup {Fl_head}
    BY <1>2, <1>4, <1>6, <1>15, <2>1
  <2> DEFINE e == cur + sz[cur]
             S == WordsOf(Elems(l), sz)
  <2>6. WordsOf(Elems(fl'), V) = S \ (hp .. e) /\ hp .. e \subseteq S
    <3>1. Elems(fl') = IF hp = cur THEN Elems(l) \ {cur} ELSE Elems(l)
      BY <1>8, <2>0, <2>1
    <3>2. Elems(fl') \in SUBSET Elems(l)
      BY <2>1
    <3>3. Tiled(H, sz) /\ hp \in cur .. cur + sz[cur] /\ (hp # cur => V[cur] = hp - cur - 1)
      BY <1>2, <1>8
    <3> QED
      BY <1>12, <3>1, <3>2, <3>3, WordsTaken
  <2>7. hp \in Int /\ e \in Int /\ hp <= e /\ e - hp + 1 = wo + 1
    BY <1>8, <1>9
  <2> HIDE DEF e
  <2>8. Counted(S \ (hp .. e), n - (e - hp + 1))
    BY <1>3, <2>6, <2>7, CountLess, ZenonT(30)
  <2>9. Counted(WordsOf(Elems(fl'), V), fl_cur_size')
    BY <1>4, <1>15, <2>6, <2>7, <2>8
  <2> QED
    BY <1>2, <1>8, <1>10, <1>11, <2>1, <2>2, <2>3, <2>4, <2>9 DEF Linked, V, D
<1> QED
  BY <1>14, <1>15

\* allocate_block keeps the blocks the program holds, and adds one.
LEMMA AllocateHeld ==
  ASSUME NEW H \in SUBSET Chunks, NEW sz, NEW col, NEW l, NEW p, NEW m, NEW n,
         Linked(H, sz, col, l, p, m, n),
         Held(sz, col, live, gc_phase, gc_sweep_hp),
         Swept(H, sz, col, live, gc_phase, chunk, gc_sweep_hp, last_fragment),
         NEW wo \in Nat \ {0}, NEW i \in 1 .. Len(l), sz[l[i]] >= wo,
         allocate_block(l, i, sz, col, m, n, wo)
  PROVE  /\ Held(wosize', color', live', gc_phase, gc_sweep_hp)
         /\ Swept(H, wosize', color', live', gc_phase, chunk, gc_sweep_hp, last_fragment)
<1> DEFINE cur == l[i]
           hp  == allocated_hp(cur, wo, sz)
           V == wosize'
           D == color'
<1>1. Carved(sz, col, cur, hp, wo)
  BY AllocateCarves
<1>2. live' = Put(live, hp, wo)
  BY DEF allocate_block
<1> HIDE DEF cur, hp, V, D
<1>3. /\ cur \in DOMAIN sz /\ col[cur] = "blue"
      /\ DOMAIN V = DOMAIN sz \cup {hp} /\ V[hp] = wo /\ D[hp] = allocation_color(hp)
      /\ \A h \in DOMAIN sz : h # cur => h # hp /\ V[h] = sz[h] /\ D[h] = col[h]
  BY <1>1 DEF Carved, Blue, V, D
<1>4. DOMAIN live' = DOMAIN live \cup {hp} /\ live'[hp] = wo
      /\ \A h \in DOMAIN live : h # hp => live'[h] = live[h]
  BY <1>2 DEF Put
<1>5. \A h \in DOMAIN live : /\ h \in DOMAIN sz /\ h # cur /\ live[h] = sz[h] /\ sz[h] >= 1 /\ col[h] # "blue"
                             /\ gc_phase = "sweep" /\ h >= gc_sweep_hp => col[h] = "black"
  BY <1>3 DEF Held
<1>6. live' = [h \in DOMAIN live' |-> V[h]]
  <2>1. \A h \in DOMAIN live' : live'[h] = V[h]
    BY <1>3, <1>4, <1>5
  <2>2. live' = [h \in DOMAIN live' |-> live'[h]]
    BY <1>2 DEF Put
  <2> QED
    BY <2>1, <2>2
<1>7. allocation_color(hp) # "blue"
      /\ (gc_phase = "sweep" /\ hp >= gc_sweep_hp => allocation_color(hp) = "black")
  BY DEF allocation_color
<1>8. ASSUME NEW h \in DOMAIN live'
      PROVE  /\ h \in DOMAIN V /\ V[h] >= 1 /\ D[h] # "blue"
             /\ gc_phase = "sweep" /\ h >= gc_sweep_hp => D[h] = "black"
  <2>1. CASE h = hp
    BY <1>3, <1>7, <2>1
  <2>2. CASE h # hp
    BY <1>3, <1>4, <1>5, <2>2
  <2> QED
    BY <2>1, <2>2
<1>9. Held(V, D, live', gc_phase, gc_sweep_hp)
  BY <1>6, <1>8 DEF Held
<1>10. ASSUME gc_phase = "sweep", last_fragment # NULL, last_fragment + 1 = gc_sweep_hp
       PROVE  /\ last_fragment \in DOMAIN V /\ V[last_fragment] = 0 /\ D[last_fragment] = "white"
              /\ last_fragment \notin DOMAIN live'
  <2>1. /\ last_fragment \in DOMAIN sz /\ sz[last_fragment] = 0 /\ col[last_fragment] = "white"
        /\ last_fragment \notin DOMAIN live
    BY <1>10 DEF Swept
  <2>2. last_fragment # cur
    BY <1>3, <2>1
  <2> QED
    BY <1>3, <1>4, <2>1, <2>2
<1>11. Swept(H, V, D, live', gc_phase, chunk, gc_sweep_hp, last_fragment)
  BY <1>3, <1>10 DEF Swept
<1> QED
  BY <1>9, <1>11 DEF V, D

\* What fl_add_block leaves: the chunk is one free block more.
LEMMA Expanded ==
  ASSUME IInv, NEW c \in Chunks \ heap,
         NEW l, l = link(fl, fl_add_block_at(c.base) + 1, c.base),
         NEW sz, sz = Put(wosize, c.base, c.size - 1),
         NEW col, col = Put(color, c.base, "blue")
  PROVE  /\ Linked(heap \cup {c}, sz, col, l, fl_prev, fl_add_block_merge(c.base), fl_cur_size + c.size)
         /\ Held(sz, col, live, gc_phase, gc_sweep_hp)
         /\ Swept(heap \cup {c}, sz, col, live, gc_phase, chunk, gc_sweep_hp, last_fragment)
         /\ c.base \in Elems(l) /\ sz[c.base] = c.size - 1
<1> DEFINE b == c.base
<1>1. /\ heap \in SUBSET Chunks /\ Tiled(heap, wosize) /\ DOMAIN color = DOMAIN wosize
      /\ \A h \in DOMAIN wosize : color[h] \in {"white", "black", "blue"}
      /\ fl \in Seq(DOMAIN wosize) /\ Once(fl) /\ Elems(fl) = Blue(wosize, color)
      /\ \A h \in Blue(wosize, color) : wosize[h] >= 1
      /\ fl_prev \in Elems(fl) \cup {Fl_head} /\ fl_merge \in Elems(fl) \cup {Fl_head}
  BY DEF IInv, Linked
<1>2. Counted(WordsOf(Elems(fl), wosize), fl_cur_size)
  BY DEF IInv, Linked
<1>3. c.base \in Nat /\ c.size \in Nat /\ c.size >= 2 /\ End(c) = c.base + c.size
  BY ChunksAssumption DEF End
<1>4. /\ Tiled(heap \cup {c}, sz)
      /\ \A h \in DOMAIN wosize : h + wosize[h] + 1 < c.base \/ End(c) < h
  BY <1>1, Grow, Zenon
<1>5. b \notin DOMAIN wosize
  <2> SUFFICES ASSUME b \in DOMAIN wosize PROVE FALSE
    OBVIOUS
  <2>1. wosize[b] \in Nat
    BY Unfold, Zenon
  <2>2. b + wosize[b] + 1 < b \/ b + c.size < b
    BY <1>3, <1>4
  <2> QED
    BY <1>3, <2>1, <2>2
<1>6. /\ DOMAIN sz = DOMAIN wosize \cup {b} /\ sz[b] = c.size - 1
      /\ \A h \in DOMAIN wosize : h # b /\ sz[h] = wosize[h]
  BY <1>5 DEF Put
<1>7. /\ DOMAIN col = DOMAIN wosize \cup {b} /\ col[b] = "blue"
      /\ \A h \in DOMAIN wosize : col[h] = color[h]
  BY <1>1, <1>5 DEF Put
<1>8. fl \in Seq(DOMAIN sz) /\ b \in DOMAIN sz /\ b \notin Elems(fl)
  BY <1>1, <1>5, <1>6 DEF Blue
<1>9. fl_add_block_at(b) + 1 \in 1 .. Len(fl) + 1
  <2>1. DOMAIN wosize \subseteq Nat
    BY <1>1 DEF Tiled
  <2>2. fl \in Seq(Nat) /\ b \in Nat
    BY <1>1, <1>3, <2>1
  <2>3. fl_add_block_at(b) \in 0 .. Len(fl)
    BY <2>2, AddFacts, Zenon
  <2>4. Len(fl) \in Nat
    BY <2>2
  <2> QED
    BY <2>3, <2>4
<1>10. l \in Seq(DOMAIN sz) /\ Once(l) /\ Elems(l) = Elems(fl) \cup {b}
  BY <1>1, <1>8, <1>9, LinkAt, Link
<1>11. Blue(sz, col) = Blue(wosize, color) \cup {b}
  BY <1>6, <1>7 DEF Blue
<1>12. fl_add_block_merge(b) \in Elems(l) \cup {Fl_head}
  BY <1>1, <1>10 DEF fl_add_block_merge
<1> HIDE DEF b
<1>13. \A h \in Blue(sz, col) : sz[h] >= 1
  BY <1>1, <1>3, <1>6, <1>11 DEF Blue
<1>14. \A h \in DOMAIN sz : col[h] \in {"white", "black", "blue"}
  BY <1>1, <1>6, <1>7
<1> DEFINE S == WordsOf(Elems(fl), wosize)
           e == b + (c.size - 1)
<1>15. WordsOf(Elems(l), sz) = S \cup (b .. e)
  <2>1. Elems(fl) \subseteq DOMAIN wosize
    BY <1>1 DEF Blue
  <2>2. {h .. h + sz[h] : h \in Elems(l)} = {h .. h + wosize[h] : h \in Elems(fl)} \cup {b .. e}
    BY <1>6, <1>10, <2>1
  <2> QED
    BY <2>2, ZenonT(30) DEF WordsOf
<1>16. (b .. e) \cap S = {}
  <2>1. Elems(l) \in SUBSET DOMAIN sz /\ Elems(fl) \in SUBSET DOMAIN sz /\ b \in DOMAIN sz
    BY <1>1, <1>6, <1>8, <1>10 DEF Blue
  <2>2. (b .. b + sz[b]) \cap WordsOf(Elems(fl), sz) = {}
    BY <1>4, <1>8, <2>1, WordsApart
  <2>3. WordsOf(Elems(fl), sz) = S
    BY <1>1, <1>6 DEF WordsOf, Blue
  <2> QED
    BY <1>6, <2>2, <2>3
<1>17. b \in Int /\ e \in Int /\ b <= e /\ e - b + 1 = c.size
  BY <1>3 DEF b
<1> HIDE DEF e
<1>18. Counted(S \cup (b .. e), fl_cur_size + (e - b + 1))
  BY <1>2, <1>16, <1>17, CountMore
<1>19. Counted(WordsOf(Elems(l), sz), fl_cur_size + c.size)
  BY <1>15, <1>17, <1>18, Zenon
<1>20. Linked(heap \cup {c}, sz, col, l, fl_prev, fl_add_block_merge(c.base), fl_cur_size + c.size)
  BY <1>1, <1>4, <1>6, <1>7, <1>10, <1>11, <1>12, <1>13, <1>14, <1>19, Zenon DEF Linked, b
<1>21. Held(sz, col, live, gc_phase, gc_sweep_hp)
  <2>1. Held(wosize, color, live, gc_phase, gc_sweep_hp)
    BY DEF IInv
  <2>2. live = [h \in DOMAIN live |-> sz[h]]
    BY <1>6, <2>1 DEF Held
  <2> QED
    BY <1>6, <1>7, <2>1, <2>2 DEF Held
<1>22. Swept(heap \cup {c}, sz, col, live, gc_phase, chunk, gc_sweep_hp, last_fragment)
  <2>1. Swept(heap, wosize, color, live, gc_phase, chunk, gc_sweep_hp, last_fragment)
    BY DEF IInv
  <2> QED
    BY <1>6, <1>7, <2>1 DEF Swept
<1> QED
  BY <1>6, <1>10, <1>20, <1>21, <1>22 DEF b

\* allocate_block keeps the order: a block leaves the list, or gets shorter.
LEMMA AllocateOrdered ==
  ASSUME NEW H \in SUBSET Chunks, NEW sz, NEW col, NEW l, NEW p, NEW m, NEW n,
         Linked(H, sz, col, l, p, m, n), Ordered(l, m, gc_phase, gc_sweep_hp, sz),
         NEW wo \in Nat \ {0}, NEW i \in 1 .. Len(l), sz[l[i]] >= wo,
         allocate_block(l, i, sz, col, m, n, wo)
  PROVE  Ordered(fl', fl_merge', gc_phase, gc_sweep_hp, wosize')
<1> DEFINE cur == l[i]
           hp  == allocated_hp(cur, wo, sz)
           prev == At(l, i - 1)
           V == wosize'
<1>1. Carved(sz, col, cur, hp, wo)
  BY AllocateCarves
<1>2. /\ l \in Seq(DOMAIN sz) /\ Once(l) /\ Elems(l) = Blue(sz, col) /\ Tiled(H, sz)
      /\ m \in Elems(l) \cup {Fl_head}
  BY DEF Linked
<1>3. DOMAIN sz \subseteq Nat \ {0} /\ \A h \in DOMAIN sz : h \in Nat /\ sz[h] \in Nat
  BY <1>2, InChunk, ZenonT(30) DEF Tiled
<1>4. l \in Seq(Nat \ {0}) /\ l \in Seq(Nat) /\ Elems(l) \subseteq DOMAIN sz
  BY <1>2, <1>3 DEF Blue
<1>5. /\ Ascending(l) /\ \A x, y \in Elems(l) : x + sz[x] + 1 # y
      /\ gc_phase = "sweep" => \A x \in Elems(l) : x <= m <=> x < gc_sweep_hp
  BY DEF Ordered
<1>6. \A x \in Elems(l) : x # cur => (x <= prev <=> x <= cur)
  BY <1>4, <1>5, PrevOrder
<1>7. /\ sz[cur] < wo + 2 => fl' = unlink(l, i) /\ fl_merge' = detached_merge(cur, prev, m)
      /\ ~ (sz[cur] < wo + 2) => fl' = l /\ fl_merge' = m
  BY DEF allocate_block
<1>8. cur = l[i] /\ cur \in Elems(l)
  BY DEF Elems
<1> HIDE DEF cur, hp, prev, V
<1>9. /\ hp \in cur .. cur + sz[cur] /\ (hp # cur => V[cur] = hp - cur - 1)
      /\ \A h \in DOMAIN sz : h # cur => h # hp /\ V[h] = sz[h]
      /\ sz[cur] >= wo + 2 => hp # cur
  BY <1>1 DEF Carved, V
<1>10. CASE sz[cur] < wo + 2
  <2>1. fl' = unlink(l, i) /\ fl_merge' = detached_merge(cur, prev, m)
    BY <1>7, <1>10
  <2>2. Elems(fl') = Elems(l) \ {cur}
    BY <1>2, <1>8, <2>1, Unlink
  <2>3. Ascending(fl')
    BY <1>4, <1>5, <2>1, UnlinkAscending
  <2>4. gc_phase = "sweep" => \A x \in Elems(fl') : x <= fl_merge' <=> x < gc_sweep_hp
    BY <1>5, <1>6, <2>1, <2>2 DEF detached_merge
  <2>5. \A x, y \in Elems(fl') : x + V[x] + 1 # y
    BY <1>4, <1>5, <1>9, <2>2
  <2> QED
    BY <2>3, <2>4, <2>5 DEF Ordered, V
<1>11. CASE ~ (sz[cur] < wo + 2)
  <2>1. fl' = l /\ fl_merge' = m
    BY <1>7, <1>11
  <2>2. cur \in Nat /\ sz[cur] \in Nat /\ hp # cur /\ cur + V[cur] + 1 = hp
    BY <1>3, <1>4, <1>8, <1>9, <1>11
  <2>3. \A x, y \in Elems(l) : x + V[x] + 1 # y
    <3> TAKE x, y \in Elems(l)
    <3>1. CASE x = cur
      BY <1>4, <1>9, <2>2, <3>1
    <3>2. CASE x # cur
      BY <1>4, <1>5, <1>9, <3>2
    <3> QED
      BY <3>1, <3>2
  <2> QED
    BY <1>5, <2>1, <2>3 DEF Ordered, V
<1> QED
  BY <1>10, <1>11

\* A chunk above the heap goes to the end of the list.
LEMMA ExpandedOrdered ==
  ASSUME IInv, OInv, upward, NEW c \in Chunks \ heap, \A d \in heap : d.base < c.base,
         NEW l, l = link(fl, fl_add_block_at(c.base) + 1, c.base),
         NEW sz, sz = Put(wosize, c.base, c.size - 1)
  PROVE  Ordered(l, fl_add_block_merge(c.base), gc_phase, gc_sweep_hp, sz)
<1> DEFINE b == c.base
<1>0. /\ heap \in SUBSET Chunks /\ Tiled(heap, wosize)
      /\ \A h \in DOMAIN wosize : h \in Nat /\ wosize[h] \in Nat
      /\ fl \in Seq(DOMAIN wosize) /\ Once(fl) /\ Elems(fl) = Blue(wosize, color)
      /\ fl_merge \in Elems(fl) \cup {Fl_head}
  BY Unfold
<1>1. /\ Ascending(fl) /\ \A x, y \in Elems(fl) : x + wosize[x] + 1 # y
      /\ gc_phase = "sweep" => \A x \in Elems(fl) : x <= fl_merge <=> x < gc_sweep_hp
  BY DEF OInv, Ordered
<1>2. b \in Nat \ {0} /\ c.size \in Nat /\ c.size >= 2 /\ End(c) = b + c.size
  BY ChunksAssumption DEF End
<1>3. \A d \in heap : End(d) < b /\ End(d) \in Nat /\ d.base \in Nat
  BY <1>0, ChunksAssumption DEF End
<1>4. \A h \in DOMAIN wosize : h + wosize[h] + 1 < b /\ h < b
  <2> TAKE h \in DOMAIN wosize
  <2>1. PICK d \in heap : h + wosize[h] + 1 <= End(d)
    BY <1>0 DEF Tiled
  <2> QED
    BY <1>0, <1>2, <1>3, <2>1
<1>5. Elems(fl) \subseteq DOMAIN wosize
  BY <1>0 DEF Blue
<1>6. \A j \in 1 .. Len(fl) : fl[j] < b /\ fl[j] \in Elems(fl)
  BY <1>4, <1>5 DEF Elems
<1>7. Len(fl) \in Nat /\ (fl # <<>> => Len(fl) \in 1 .. Len(fl))
  BY <1>0
<1>8. fl_add_block_at(b) = Len(fl)
  <2>1. CASE fl = <<>>
    BY <2>1 DEF fl_add_block_at
  <2>2. CASE fl # <<>>
    <3>1. fl[Len(fl)] < b /\ fl[Len(fl)] \in Nat
      BY <1>0, <1>5, <1>6, <1>7, <2>2
    <3>2. b > fl[Len(fl)]
      BY <1>2, <3>1
    <3> QED
      BY <2>2, <3>2 DEF fl_add_block_at
  <2> QED
    BY <2>1, <2>2
<1>9. fl_add_block_merge(b) = fl_merge
  BY <1>7, <1>8 DEF fl_add_block_merge
<1>10. b \notin Elems(fl) /\ Len(fl) + 1 \in 1 .. Len(fl) + 1
  BY <1>2, <1>4, <1>5, <1>7
<1> DEFINE i == Len(fl) + 1
<1>11. l = link(fl, i, b) /\ i \in 1 .. Len(fl) + 1
  BY <1>8, <1>10
<1>12. \A j \in 1 .. Len(fl) : IF j < i THEN fl[j] < b ELSE b < fl[j]
  BY <1>6, <1>7
<1> HIDE DEF i, b
<1>13. fl \in Seq(Nat)
  BY <1>0
<1>14. Ascending(l)
  BY <1>1, <1>2, <1>11, <1>12, <1>13, LinkAscending
<1>15. Elems(l) = Elems(fl) \cup {b}
  <2>1. b \in Nat
    BY <1>2
  <2> QED
    BY <1>0, <1>10, <1>11, <1>13, <2>1, Link
<1>16. gc_phase = "sweep" => gc_sweep_hp \in Nat /\ gc_sweep_hp < b
  <2>1. gc_phase = "sweep" => chunk \in heap /\ gc_sweep_hp \in Nat /\ gc_sweep_hp <= End(chunk)
    BY DEF IInv, Swept
  <2> QED
    BY <1>2, <1>3, <2>1
<1>17. gc_phase = "sweep" => (b <= fl_merge <=> b < gc_sweep_hp)
  <2>1. fl_merge \in Nat /\ fl_merge < b
    BY <1>0, <1>2, <1>4, <1>5 DEF Fl_head
  <2> QED
    BY <1>2, <1>16, <2>1
<1>18. gc_phase = "sweep" => \A x \in Elems(l) : x <= fl_merge <=> x < gc_sweep_hp
  BY <1>1, <1>15, <1>17
<1>19. /\ sz[b] = c.size - 1 /\ \A h \in DOMAIN wosize : sz[h] = wosize[h]
  BY <1>2, <1>4 DEF Put, b
<1>20. \A x, y \in Elems(l) : x + sz[x] + 1 # y
  <2> SUFFICES ASSUME NEW x \in Elems(l), NEW y \in Elems(l), x + sz[x] + 1 = y
               PROVE  FALSE
    OBVIOUS
  <2>1. \A h \in Elems(fl) : h \in Nat /\ h < b /\ h + sz[h] + 1 < b
    BY <1>0, <1>4, <1>5, <1>19
  <2>2. b + sz[b] + 1 > b
    BY <1>2, <1>19
  <2>3. CASE x = b
    BY <1>2, <1>15, <1>19, <2>1, <2>3
  <2>4. CASE x # b /\ y = b
    BY <1>2, <1>15, <2>1, <2>4
  <2>5. CASE x # b /\ y # b
    BY <1>1, <1>5, <1>15, <1>19, <2>5
  <2> QED
    BY <2>3, <2>4, <2>5
<1> QED
  BY <1>9, <1>14, <1>18, <1>20 DEF Ordered, b

\* After expand_heap, fl_allocate finds a block.
LEMMA FitsNew ==
  ASSUME NEW H \in SUBSET Chunks, NEW sz, NEW col, NEW l, NEW m, NEW n,
         Linked(H, sz, col, l, fl_prev, m, n),
         NEW b \in Elems(l), NEW wo \in Nat \ {0}, sz[b] >= wo
  PROVE  Fit(l, fl_prev, sz, wo) \in 1 .. Len(l) /\ sz[l[Fit(l, fl_prev, sz, wo)]] >= wo
<1>1. Tiled(H, sz) /\ l \in Seq(DOMAIN sz) /\ fl_prev \in Elems(l) \cup {Fl_head}
  BY DEF Linked
<1>2. l \in Seq(Nat \ {0})
  BY <1>1, InChunk
<1>3. PICK j \in 1 .. Len(l) : l[j] = b
  BY DEF Elems
<1>4. Fit(l, fl_prev, sz, wo) # 0
  <2>1. sz[l[j]] >= wo
    BY <1>3
  <2> QED
    BY <1>1, <1>2, <2>1, FitFacts, Zenon
<1> QED
  BY <1>1, <1>2, <1>4, FitFacts, Zenon

\* The program gets the block at hp: memory of the heap, and nobody's.
Fresh(hp, wo) ==
  /\ hp .. hp + wo \subseteq Words
  /\ \A g \in DOMAIN live : (g .. g + live[g]) \cap (hp .. hp + wo) = {}
  /\ live' = Put(live, hp, wo)

\* What allocate_block hands out is memory of the heap, and nobody's.
LEMMA AllocateFresh ==
  ASSUME NEW H \in SUBSET Chunks, NEW sz, NEW col, NEW l, NEW p, NEW m, NEW n,
         Linked(H, sz, col, l, p, m, n), Held(sz, col, live, gc_phase, gc_sweep_hp),
         NEW wo \in Nat \ {0}, NEW i \in 1 .. Len(l), sz[l[i]] >= wo,
         allocate_block(l, i, sz, col, m, n, wo)
  PROVE  \E hp \in Words : Fresh(hp, wo)
<1> DEFINE cur == l[i]
           hp  == allocated_hp(cur, wo, sz)
<1>1. Carved(sz, col, cur, hp, wo)
  BY AllocateCarves, ZenonT(30)
<1>2. live' = Put(live, hp, wo)
  BY DEF allocate_block
<1>3. Tiled(H, sz) /\ \A h \in DOMAIN sz : h \in Nat /\ sz[h] \in Nat
  BY DEF Linked, Tiled
<1> HIDE DEF cur, hp
<1>4. /\ cur \in DOMAIN sz /\ col[cur] = "blue" /\ cur \in Nat /\ sz[cur] \in Nat
      /\ hp \in cur .. cur + sz[cur] /\ hp + wo = cur + sz[cur]
  BY <1>1, <1>3 DEF Carved, Blue
<1>5. PICK c \in H : c.base <= cur /\ cur + sz[cur] + 1 <= End(c)
  BY <1>3, <1>4 DEF Tiled
<1>6. c \in Chunks /\ c.base \in Nat /\ End(c) \in Nat /\ hp \in Nat
  <2>1. c \in Chunks /\ c.base \in Nat /\ End(c) \in Nat
    BY <1>3, InChunk, Zenon
  <2> QED
    BY <1>4, <2>1
<1>7. hp .. hp + wo \subseteq c.base .. End(c) - 1 /\ hp \in c.base .. End(c) - 1
  BY <1>4, <1>5, <1>6
<1>8. hp .. hp + wo \subseteq Words /\ hp \in Words
  BY <1>6, <1>7 DEF Words
<1>9. ASSUME NEW g \in DOMAIN live PROVE (g .. g + live[g]) \cap (hp .. hp + wo) = {}
  <2>1. g \in DOMAIN sz /\ live[g] = sz[g] /\ g # cur
    BY <1>4 DEF Held
  <2>2. g \in Nat /\ sz[g] \in Nat
    BY <1>3, <2>1
  <2>3. g + sz[g] + 1 <= cur \/ cur + sz[cur] + 1 <= g
    BY <1>3, <1>4, <2>1, <2>2 DEF Tiled
  <2>4. (g .. g + sz[g]) \cap (hp .. hp + wo) = {}
    BY <1>4, <1>6, <2>2, <2>3
  <2> QED
    BY <2>1, <2>4
<1> QED
  BY <1>2, <1>8, <1>9 DEF Fresh

\* alloc_shr takes a block of wo words from the i-th block of the list l, in
\* the present state or in the one expand_heap has left.
Allocating(H, sz, col, l, m, n, i, wo) ==
  /\ H \in SUBSET Chunks /\ H # {} /\ heap' = H
  /\ Linked(H, sz, col, l, fl_prev, m, n)
  /\ Held(sz, col, live, gc_phase, gc_sweep_hp)
  /\ Swept(H, sz, col, live, gc_phase, chunk, gc_sweep_hp, last_fragment)
  /\ wo \in Nat \ {0} /\ i \in 1 .. Len(l) /\ sz[l[i]] >= wo
  /\ allocate_block(l, i, sz, col, m, n, wo)
  /\ upward' \in BOOLEAN /\ UNCHANGED <<last_fragment, gc_phase, chunk, gc_sweep_hp>>
  /\ upward' /\ OInv => Ordered(l, m, gc_phase, gc_sweep_hp, sz)

\* alloc_shr from a block of the list.
LEMMA AllocCase ==
  ASSUME IInv, NEW wo \in Sizes, alloc_shr(wo)
  PROVE  \E H, sz, col, l, m, n, i : Allocating(H, sz, col, l, m, n, i, wo)
<1> DEFINE i == Fit(fl, fl_prev, wosize, wo)
<1>1. /\ i # 0 /\ allocate_block(fl, i, wosize, color, fl_merge, fl_cur_size, wo)
      /\ heap' = heap /\ last_fragment' = last_fragment /\ upward' = upward
      /\ gc_phase' = gc_phase /\ chunk' = chunk /\ gc_sweep_hp' = gc_sweep_hp
  BY DEF alloc_shr, sweepVars
<1>2. /\ heap \in SUBSET Chunks /\ Tiled(heap, wosize) /\ fl \in Seq(DOMAIN wosize)
      /\ fl_prev \in Elems(fl) \cup {Fl_head}
  BY Unfold
<1>3. DOMAIN wosize \subseteq Nat \ {0}
  BY <1>2, InChunk
<1>4. fl \in Seq(Nat \ {0})
  BY <1>2, <1>3
<1>5. i \in 1 .. Len(fl) /\ wosize[fl[i]] >= wo
  BY <1>1, <1>2, <1>4, FitFacts, ZenonT(30)
<1>6. wo \in Nat \ {0}
  BY SizesAssumption
<1> HIDE DEF i
<1>7. upward' \in BOOLEAN /\ (upward' /\ OInv => Ordered(fl, fl_merge, gc_phase, gc_sweep_hp, wosize))
  BY <1>1 DEF IInv, OInv
<1>8. Allocating(heap, wosize, color, fl, fl_merge, fl_cur_size, i, wo)
  BY <1>1, <1>5, <1>6, <1>7, Zenon DEF IInv, Allocating
<1> QED
  BY <1>8

\* alloc_shr when it expands the heap.
LEMMA ExpandCase ==
  ASSUME IInv, NEW wo \in Sizes, NEW c \in Chunks \ heap, alloc_shr_expand(wo, c)
  PROVE  \E H, sz, col, l, m, n, i : Allocating(H, sz, col, l, m, n, i, wo)
<1> DEFINE l   == link(fl, fl_add_block_at(c.base) + 1, c.base)
           sz  == Put(wosize, c.base, c.size - 1)
           col == Put(color, c.base, "blue")
           m   == fl_add_block_merge(c.base)
           n   == fl_cur_size + c.size
           i   == Fit(l, fl_prev, sz, wo)
           H   == heap \cup {c}
<1>1. /\ c.size > wo /\ allocate_block(l, i, sz, col, m, n, wo)
      /\ heap' = H /\ last_fragment' = last_fragment
      /\ upward' = (upward /\ \A d \in heap : d.base < c.base)
      /\ gc_phase' = gc_phase /\ chunk' = chunk /\ gc_sweep_hp' = gc_sweep_hp
  BY ZenonT(30) DEF alloc_shr_expand, sweepVars
<1>2. /\ Linked(H, sz, col, l, fl_prev, m, n)
      /\ Held(sz, col, live, gc_phase, gc_sweep_hp)
      /\ Swept(H, sz, col, live, gc_phase, chunk, gc_sweep_hp, last_fragment)
      /\ c.base \in Elems(l) /\ sz[c.base] = c.size - 1
  BY Expanded, Zenon
<1>3. upward' \in BOOLEAN /\ (upward' /\ OInv => Ordered(l, m, gc_phase, gc_sweep_hp, sz))
  <2>1. upward' \in BOOLEAN
    BY <1>1, Zenon DEF IInv
  <2>2. ASSUME upward', OInv PROVE Ordered(l, m, gc_phase, gc_sweep_hp, sz)
    <3>1. upward /\ \A d \in heap : d.base < c.base
      BY <1>1, <2>2, ZenonT(30)
    <3> QED
      BY <2>2, <3>1, ExpandedOrdered
  <2> QED
    BY <2>1, <2>2
<1>4. H \in SUBSET Chunks /\ H # {}
  BY DEF IInv
<1>5. wo \in Nat \ {0} /\ c.size \in Nat /\ c.size - 1 >= wo
  BY <1>1, SizesAssumption, ChunksAssumption
<1> HIDE DEF l, sz, col, m, n, H
<1>6. i \in 1 .. Len(l) /\ sz[l[i]] >= wo
  BY <1>2, <1>4, <1>5, FitsNew, ZenonT(30)
<1> HIDE DEF i
<1>7. Allocating(H, sz, col, l, m, n, i, wo)
  BY <1>1, <1>2, <1>3, <1>4, <1>5, <1>6 DEF Allocating
<1> QED
  BY <1>7

\* An allocation keeps the invariant and the order, and gives fresh memory.
LEMMA AllocateStep ==
  ASSUME NEW H, NEW sz, NEW col, NEW l, NEW m, NEW n, NEW i, NEW wo,
         Allocating(H, sz, col, l, m, n, i, wo)
  PROVE  IInv' /\ (OInv => OInv') /\ \E hp \in Words : Fresh(hp, wo)
<1>1. /\ H \in SUBSET Chunks /\ Linked(H, sz, col, l, fl_prev, m, n)
      /\ Held(sz, col, live, gc_phase, gc_sweep_hp)
      /\ Swept(H, sz, col, live, gc_phase, chunk, gc_sweep_hp, last_fragment)
      /\ wo \in Nat \ {0} /\ i \in 1 .. Len(l) /\ sz[l[i]] >= wo
      /\ allocate_block(l, i, sz, col, m, n, wo)
  BY ZenonT(30) DEF Allocating
<1>2. /\ H # {} /\ heap' = H /\ upward' \in BOOLEAN
      /\ UNCHANGED <<last_fragment, gc_phase, chunk, gc_sweep_hp>>
  BY ZenonT(30) DEF Allocating
<1>3. Linked(H, wosize', color', fl', fl_prev', fl_merge', fl_cur_size')
  BY <1>1, AllocateLinked, ZenonT(30)
<1>4. /\ Held(wosize', color', live', gc_phase, gc_sweep_hp)
      /\ Swept(H, wosize', color', live', gc_phase, chunk, gc_sweep_hp, last_fragment)
  BY <1>1, AllocateHeld, ZenonT(30)
<1>5. IInv'
  BY <1>1, <1>2, <1>3, <1>4, ZenonT(30) DEF IInv
<1>6. ASSUME OInv, upward' PROVE Ordered(fl', fl_merge', gc_phase', gc_sweep_hp', wosize')
  <2>1. Ordered(l, m, gc_phase, gc_sweep_hp, sz)
    BY <1>6, ZenonT(30) DEF Allocating
  <2>2. Ordered(fl', fl_merge', gc_phase, gc_sweep_hp, wosize')
    BY <1>1, <2>1, AllocateOrdered, ZenonT(30)
  <2> QED
    BY <1>2, <2>2, Zenon
<1>7. OInv => OInv'
  BY <1>6, Zenon DEF OInv
<1>8. \E hp \in Words : Fresh(hp, wo)
  BY <1>1, AllocateFresh, ZenonT(30)
<1> QED
  BY <1>5, <1>7, <1>8, Zenon

\* Obj.truncate splits a block that is held; both parts stay out of the list.
LEMMA TruncateStep ==
  ASSUME IInv, NEW h \in DOMAIN live, NEW wo \in Sizes, obj_truncate(h, wo)
  PROVE  IInv'
<1> DEFINE m == h + 1 + wo
           V == wosize'
           D == color'
<1>0. heap \in SUBSET Chunks /\ Tiled(heap, wosize) /\ DOMAIN color = DOMAIN wosize
      /\ \A g \in DOMAIN wosize : g \in Nat /\ wosize[g] \in Nat
  BY Unfold
<1>1. /\ wo \in 1 .. live[h] - 1 /\ V = Put(Put(wosize, m, live[h] - wo - 1), h, wo)
      /\ D = Put(color, m, "white") /\ live' = [live EXCEPT ![h] = wo]
      /\ UNCHANGED <<heap, listVars, sweepVars, upward>>
  BY DEF obj_truncate
<1>2. /\ \A g \in DOMAIN live : g \in DOMAIN wosize /\ live[g] = wosize[g] /\ color[g] # "blue"
      /\ live = [g \in DOMAIN live |-> live[g]]
  BY DEF IInv, Held
<1>3. h \in DOMAIN wosize /\ h \in Nat /\ wosize[h] \in Nat /\ wosize[h] = live[h] /\ color[h] # "blue"
  BY <1>0, <1>2
<1>4. m \in h .. h + wosize[h] /\ m > h /\ live[h] - wo - 1 = h + wosize[h] - m /\ wo = m - h - 1 /\ wo >= 1
  BY <1>1, <1>3
<1>5. m \notin DOMAIN wosize
  BY <1>0, <1>3, <1>4 DEF Tiled
<1> HIDE DEF m, V, D
<1>6. /\ DOMAIN V = DOMAIN wosize \cup {m} /\ V[m] = h + wosize[h] - m
      /\ V[h] = m - h - 1 /\ V[h] >= 1
      /\ \A g \in DOMAIN wosize : g # h => g # m /\ V[g] = wosize[g]
  BY <1>1, <1>3, <1>4, <1>5 DEF Put
<1>7. /\ DOMAIN D = DOMAIN wosize \cup {m} /\ D[m] = "white"
      /\ \A g \in DOMAIN wosize : D[g] = color[g]
  BY <1>0, <1>1, <1>5 DEF Put
<1>8. Tiled(heap, V)
  <2>1. /\ m # h => V[h] = m - h - 1
        /\ \A g \in DOMAIN wosize : g # h /\ g # m => V[g] = wosize[g]
    BY <1>6
  <2> QED
    BY <1>0, <1>3, <1>4, <1>6, <2>1, Split
<1>9. Linked(heap, V, D, fl, fl_prev, fl_merge, fl_cur_size)
  <2>1. /\ DOMAIN D = DOMAIN V /\ DOMAIN wosize \subseteq DOMAIN V
        /\ \A g \in DOMAIN V : D[g] \in {"white", "black", "blue"}
    BY <1>6, <1>7, Unfold
  <2>2. Blue(V, D) = Blue(wosize, color) /\ \A g \in Blue(wosize, color) : V[g] = wosize[g]
    BY <1>3, <1>6, <1>7 DEF Blue
  <2>3. /\ Linked(heap, wosize, color, fl, fl_prev, fl_merge, fl_cur_size)
        /\ fl_prev \in Elems(fl) \cup {Fl_head} /\ fl_merge \in Elems(fl) \cup {Fl_head}
    BY Zenon DEF IInv, Linked
  <2> QED
    BY <1>8, <2>1, <2>2, <2>3, SameLinked, ZenonT(30)
<1>10. DOMAIN live' = DOMAIN live /\ live'[h] = wo /\ \A g \in DOMAIN live : g # h => live'[g] = live[g]
  BY <1>1
<1>11. Held(V, D, live', gc_phase, gc_sweep_hp)
  <2>1. \A g \in DOMAIN live' : live'[g] = V[g]
    BY <1>2, <1>4, <1>6, <1>10
  <2>2. live' = [g \in DOMAIN live' |-> live'[g]]
    BY <1>1, <1>10, ZenonT(30)
  <2>3. live' = [g \in DOMAIN live' |-> V[g]]
    BY <2>1, <2>2
  <2>4. \A g \in DOMAIN live : /\ wosize[g] >= 1 /\ color[g] # "blue"
                               /\ gc_phase = "sweep" /\ g >= gc_sweep_hp => color[g] = "black"
    BY DEF IInv, Held
  <2>5. \A g \in DOMAIN live' : g \in DOMAIN V /\ V[g] >= 1 /\ D[g] = color[g]
    <3> TAKE g \in DOMAIN live'
    <3>1. g \in DOMAIN wosize /\ wosize[g] >= 1
      BY <1>2, <1>10, <2>4
    <3> QED
      BY <1>6, <1>7, <3>1, Zenon
  <2> QED
    BY <1>10, <2>3, <2>4, <2>5 DEF Held
<1>12. Swept(heap, V, D, live', gc_phase, chunk, gc_sweep_hp, last_fragment)
  <2>1. Swept(heap, wosize, color, live, gc_phase, chunk, gc_sweep_hp, last_fragment)
    BY DEF IInv
  <2>2. \A f \in DOMAIN wosize : f \notin DOMAIN live => V[f] = wosize[f] /\ D[f] = color[f]
    BY <1>6, <1>7
  <2> QED
    BY <1>6, <1>10, <2>1, <2>2 DEF Swept
<1> QED
  BY <1>1, <1>9, <1>11, <1>12 DEF IInv, listVars, sweepVars, V, D

\* Obj.truncate touches no free block.
LEMMA TruncateOrdered ==
  ASSUME IInv, NEW h \in DOMAIN live, NEW wo \in Sizes, obj_truncate(h, wo),
         Ordered(fl, fl_merge, gc_phase, gc_sweep_hp, wosize)
  PROVE  Ordered(fl, fl_merge, gc_phase, gc_sweep_hp, wosize')
<1> DEFINE g == h + 1 + wo
<1>0. /\ Tiled(heap, wosize) /\ Elems(fl) = Blue(wosize, color)
      /\ \A x \in DOMAIN wosize : x \in Nat /\ wosize[x] \in Nat
  BY Unfold
<1>1. /\ wo \in 1 .. live[h] - 1 /\ wosize' = Put(Put(wosize, g, live[h] - wo - 1), h, wo)
  BY DEF obj_truncate
<1>2. h \in DOMAIN wosize /\ live[h] = wosize[h] /\ color[h] # "blue"
  BY DEF IInv, Held
<1>3. wo \in Nat /\ h \in Nat /\ wosize[h] \in Nat /\ wo < wosize[h] /\ wo >= 1
  BY <1>0, <1>1, <1>2, SizesAssumption
<1>4. \A x \in DOMAIN wosize : h < x => h + wosize[h] + 1 <= x
  BY <1>0, <1>2 DEF Tiled
<1>5. g \notin DOMAIN wosize
  BY <1>0, <1>3, <1>4
<1>6. \A x \in Elems(fl) : x # h /\ x # g /\ x \in DOMAIN wosize
  BY <1>0, <1>2, <1>5 DEF Blue
<1> HIDE DEF g
<1>7. \A x \in Elems(fl) : wosize'[x] = wosize[x]
  BY <1>1, <1>6 DEF Put
<1> QED
  BY <1>7 DEF Ordered

=============================================================================
