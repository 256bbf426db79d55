------------------------- MODULE FreeListSweepProofs ------------------------
(***************************************************************************)
(* The sweeper, with fl_merge_block, keeps the invariant IInv.             *)
(***************************************************************************)
EXTENDS FreeListLemmas

USE SMTT(30)

\* The sweep starts at the lowest chunk, and every block that is still held is
\* black.
LEMMA StartStep ==
  ASSUME IInv, NEW Kept \in SUBSET DOMAIN live, start_sweep(Kept)
  PROVE  IInv'
<1>0. heap \in SUBSET Chunks /\ Tiled(heap, wosize) /\ DOMAIN color = DOMAIN wosize
  BY Unfold
<1>1. /\ live' = [h \in Kept |-> live[h]]
      /\ color' = [h \in DOMAIN wosize |-> IF h \in Kept THEN "black" ELSE color[h]]
      /\ gc_phase' = "sweep" /\ chunk' = (CHOOSE c \in heap : \A d \in heap : c.base <= d.base)
      /\ gc_sweep_hp' = chunk'.base /\ last_fragment' = NULL /\ fl_merge' = Fl_head
      /\ UNCHANGED <<heap, wosize, fl, fl_prev, fl_cur_size, upward>>
  BY DEF start_sweep, fl_init_merge, Headers
<1>2. \A h \in DOMAIN live : h \in DOMAIN wosize /\ live[h] = wosize[h] /\ wosize[h] >= 1 /\ color[h] # "blue"
  BY DEF IInv, Held
<1>3. chunk' \in heap
  <2>1. {c.base : c \in heap} \in SUBSET Nat /\ {c.base : c \in heap} # {}
    BY ChunksAssumption DEF IInv
  <2>2. PICK n \in {c.base : c \in heap} : \A k \in {c.base : c \in heap} : n <= k
    BY <2>1, Smallest, Zenon
  <2>3. \E c \in heap : \A d \in heap : c.base <= d.base
    BY <2>2
  <2> QED
    BY <1>1, <2>3
<1>4. chunk'.base \in Nat /\ End(chunk') \in Nat /\ chunk'.base < End(chunk') /\ chunk'.base \in DOMAIN wosize
  BY <1>0, <1>3, InChunk, Zenon DEF Tiled
<1>5. Linked(heap, wosize, color', fl, fl_prev, fl_merge', fl_cur_size)
  <2>1. DOMAIN color' = DOMAIN wosize /\ DOMAIN wosize \subseteq DOMAIN wosize
        /\ \A h \in DOMAIN wosize : color'[h] \in {"white", "black", "blue"}
    BY <1>1, Unfold
  <2>2. Blue(wosize, color') = Blue(wosize, color)
    BY <1>1, <1>2 DEF Blue
  <2>3. /\ Linked(heap, wosize, color, fl, fl_prev, fl_merge, fl_cur_size)
        /\ fl_prev \in Elems(fl) \cup {Fl_head}
    BY DEF IInv, Linked
  <2>4. fl_merge' \in Elems(fl) \cup {Fl_head} /\ \A h \in Blue(wosize, color) : wosize[h] = wosize[h]
    BY <1>1
  <2> QED
    BY <1>0, <2>1, <2>2, <2>3, <2>4, SameLinked
<1>6. Held(wosize, color', live', gc_phase', gc_sweep_hp')
  <2>1. DOMAIN live' = Kept /\ \A h \in Kept : live'[h] = wosize[h] /\ color'[h] = "black"
    BY <1>1, <1>2
  <2>2. live' = [h \in DOMAIN live' |-> wosize[h]]
    BY <1>1, <1>2
  <2> QED
    BY <1>2, <2>1, <2>2 DEF Held
<1>7. Swept(heap, wosize, color', live', gc_phase', chunk', gc_sweep_hp', last_fragment')
  BY <1>1, <1>3, <1>4 DEF Swept
<1> QED
  BY <1>1, <1>5, <1>6, <1>7 DEF IInv

-----------------------------------------------------------------------------
(* fl_merge_block.                                                         *)

\* The blocks that fl_merge_block joins, from start to end: a fragment perhaps,
\* the block bp, and perhaps the free block after it, which leaves the list.
Merging(bp, start, end, list) ==
  /\ bp \in DOMAIN wosize /\ start \in DOMAIN wosize /\ end \in DOMAIN wosize \cup {End(chunk)}
  /\ chunk \in heap /\ chunk.base <= start /\ start <= bp /\ bp < After(bp) /\ After(bp) <= end
  /\ end <= End(chunk) /\ end \in Nat /\ bp \in Nat /\ start \in Nat /\ After(bp) \in Nat
  /\ start = bp \/ (start + 1 = bp /\ wosize[start] = 0 /\ last_fragment = start)
  /\ color[start] = "white" /\ color[bp] = "white"
  /\ ~ joins(bp) => end = After(bp)
  /\ joins(bp) => /\ next_free = After(bp) /\ next_free \in Elems(fl)
                  /\ end = next_free + wosize[next_free] + 1
  /\ \A h \in DOMAIN wosize : start <= h /\ h < end =>
       h \notin DOMAIN live /\ (h = start \/ h = bp \/ (joins(bp) /\ h = next_free))
  /\ list \in Seq(DOMAIN wosize) /\ Once(list)
  /\ Elems(list) = IF joins(bp) THEN Elems(fl) \ {next_free} ELSE Elems(fl)
  /\ merged_prev(bp) \in Elems(list) \cup {Fl_head} /\ fl_merge \in Elems(list) \cup {Fl_head}

\* What fl_merge_block finds around the block it is given.
LEMMA MergeShape ==
  ASSUME IInv, gc_phase = "sweep", gc_sweep_hp < End(chunk), color[gc_sweep_hp] = "white",
         NEW bp, bp = gc_sweep_hp,
         NEW start, start = IF last_fragment # NULL /\ last_fragment + 1 = bp THEN last_fragment ELSE bp,
         NEW end, end = merged_end(bp),
         NEW list, list = IF joins(bp) THEN unlink(fl, Pos(fl, fl_merge) + 1) ELSE fl
  PROVE  Merging(bp, start, end, list)
<1>0. /\ heap \in SUBSET Chunks /\ Tiled(heap, wosize) /\ DOMAIN color = DOMAIN wosize
      /\ \A h \in DOMAIN wosize : h \in Nat /\ wosize[h] \in Nat
      /\ fl \in Seq(DOMAIN wosize) /\ Once(fl) /\ Elems(fl) = Blue(wosize, color)
      /\ fl_prev \in Elems(fl) \cup {Fl_head} /\ fl_merge \in Elems(fl) \cup {Fl_head}
  BY Unfold
<1>1. /\ chunk \in heap /\ bp \in DOMAIN wosize /\ chunk.base <= bp /\ bp < End(chunk)
      /\ last_fragment \in Nat \cup {NULL}
      /\ last_fragment # NULL /\ last_fragment + 1 = bp =>
           /\ last_fragment \in DOMAIN wosize /\ wosize[last_fragment] = 0
           /\ color[last_fragment] = "white" /\ last_fragment \notin DOMAIN live
  <2>1. gc_sweep_hp \in Nat /\ chunk \in heap
    BY DEF IInv, Swept
  <2>2. End(chunk) \in Nat
    BY <1>0, <2>1, InChunk, Zenon
  <2> QED
    BY <2>1, <2>2 DEF IInv, Swept
<1>2. bp \in Nat /\ wosize[bp] \in Nat /\ After(bp) = bp + wosize[bp] + 1 /\ After(bp) \in Nat /\ bp < After(bp)
  BY <1>0, <1>1 DEF After, Whsize
<1>3. /\ chunk.base \in Nat /\ End(chunk) \in Nat /\ End(chunk) \notin DOMAIN wosize
      /\ \A h \in DOMAIN wosize : chunk.base <= h /\ h < End(chunk) => h + wosize[h] + 1 <= End(chunk)
      /\ DOMAIN wosize \subseteq Nat \ {0}
      /\ \A d \in heap : chunk = d \/ End(chunk) < d.base \/ End(d) < chunk.base
      /\ \A d \in heap : d.base \in Nat /\ End(d) \in Nat
  BY <1>0, <1>1, InChunk, ZenonT(30)
<1>4. /\ start \in DOMAIN wosize /\ start \in Nat /\ start <= bp /\ color[start] = "white"
      /\ start = bp \/ (start + 1 = bp /\ wosize[start] = 0 /\ last_fragment = start)
      /\ start # bp => start \notin DOMAIN live
  BY <1>0, <1>1, <1>2
<1>5. chunk.base <= start
  <2>1. CASE start = bp
    BY <1>1, <2>1
  <2>2. CASE start # bp
    <3>1. PICK d \in heap : d.base <= start /\ start + wosize[start] + 1 <= End(d)
      BY <1>0, <1>4, Zenon DEF Tiled
    <3>2. start + 1 = bp /\ wosize[start] = 0
      BY <1>4, <2>2
    <3> QED
      BY <1>1, <1>2, <1>3, <1>4, <3>1, <3>2
  <2> QED
    BY <2>1, <2>2
<1>6. After(bp) <= End(chunk) /\ (After(bp) = End(chunk) \/ After(bp) \in DOMAIN wosize)
  BY <1>0, <1>1, <1>2, <1>3, ZenonT(30) DEF Tiled
<1>7. ASSUME joins(bp)
      PROVE  /\ next_free = After(bp) /\ next_free \in Elems(fl) /\ next_free # fl_merge
             /\ end = next_free + wosize[next_free] + 1
             /\ Pos(fl, fl_merge) + 1 \in 1 .. Len(fl) /\ next_free = fl[Pos(fl, fl_merge) + 1]
  <2>1. next_free = After(bp)
    BY <1>7 DEF joins
  <2>2. fl \in Seq(Nat \ {0})
    BY <1>0, <1>3
  <2>3. /\ Pos(fl, fl_merge) \in 0 .. Len(fl) /\ At(fl, Pos(fl, fl_merge)) = fl_merge
        /\ Pos(fl, fl_merge) = 0 <=> fl_merge = Fl_head
    BY <1>0, <2>2, PosFacts
  <2>4. next_free = IF Pos(fl, fl_merge) < Len(fl) THEN fl[Pos(fl, fl_merge) + 1] ELSE NULL
    BY DEF next_free
  <2>5. Pos(fl, fl_merge) + 1 \in 1 .. Len(fl) /\ next_free = fl[Pos(fl, fl_merge) + 1]
    BY <1>2, <2>1, <2>3, <2>4 DEF NULL
  <2>6. next_free \in Elems(fl)
    BY <2>5 DEF Elems
  <2>7. next_free # fl_merge
    <3>1. CASE fl_merge = Fl_head
      BY <3>1, <1>0, <1>3, <2>6 DEF Fl_head, Blue
    <3>2. CASE fl_merge # Fl_head
      <4>1. Pos(fl, fl_merge) \in 1 .. Len(fl) /\ fl[Pos(fl, fl_merge)] = fl_merge
        BY <2>3, <3>2 DEF At
      <4>2. Pos(fl, fl_merge) # Pos(fl, fl_merge) + 1
        BY <2>3
      <4> QED
        BY <1>0, <2>5, <4>1, <4>2 DEF Once
    <3> QED
      BY <3>1, <3>2
  <2>8. next_free \in Nat /\ wosize[next_free] \in Nat
    BY <1>0, <2>6 DEF Blue
  <2>9. end = next_free + wosize[next_free] + 1
    BY <1>7, <2>8 DEF merged_end, After, Whsize
  <2> QED
    BY <2>1, <2>5, <2>6, <2>7, <2>9
<1>8. ASSUME ~ joins(bp) PROVE end = After(bp)
  BY <1>8 DEF merged_end
<1>9. joins(bp) => next_free \in DOMAIN wosize /\ color[next_free] = "blue"
                   /\ next_free \in Nat /\ wosize[next_free] \in Nat
  BY <1>0, <1>7 DEF Blue
<1>10. /\ After(bp) <= end /\ end <= End(chunk) /\ end \in Nat
       /\ end \in DOMAIN wosize \cup {End(chunk)}
  <2>1. CASE joins(bp)
    <3>0. next_free # End(chunk) /\ next_free = After(bp)
      BY <1>3, <1>7, <1>9, <2>1
    <3>1. chunk.base <= next_free /\ next_free < End(chunk)
      BY <1>1, <1>2, <1>3, <1>6, <3>0
    <3>2. /\ next_free + wosize[next_free] + 1 <= End(chunk)
          /\ next_free + wosize[next_free] + 1 \in DOMAIN wosize \cup {End(chunk)}
      BY <1>0, <1>1, <1>3, <1>9, <2>1, <3>1, Zenon DEF Tiled
    <3> QED
      BY <1>2, <1>7, <1>9, <2>1, <3>2
  <2>2. CASE ~ joins(bp)
    BY <1>2, <1>6, <1>8, <2>2
  <2> QED
    BY <2>1, <2>2
<1>11. ASSUME NEW h \in DOMAIN wosize, start <= h, h < end
       PROVE  h = start \/ h = bp \/ (joins(bp) /\ h = next_free)
  <2>0. h \in Nat /\ wosize[h] \in Nat
    BY <1>0
  <2>1. h > start => h >= bp
    BY <1>2, <1>4, <2>0
  <2>2. h > bp => h >= After(bp)
    BY <1>0, <1>1, <1>2, <2>0 DEF Tiled
  <2>3. joins(bp) /\ h > next_free => h >= end
    BY <1>0, <1>7, <1>9, <2>0 DEF Tiled
  <2> QED
    BY <1>2, <1>4, <1>7, <1>8, <1>9, <1>10, <1>11, <2>0, <2>1, <2>2, <2>3
<1>12. \A h \in DOMAIN live : color[h] # "blue" /\ (h >= bp => color[h] = "black")
  BY DEF IInv, Held
<1>13. ASSUME NEW h \in DOMAIN wosize, start <= h, h < end
       PROVE  h \notin DOMAIN live
  <2>1. bp \notin DOMAIN live
    BY <1>2, <1>12
  <2>2. start \notin DOMAIN live
    BY <1>4, <2>1
  <2>3. joins(bp) => next_free \notin DOMAIN live
    BY <1>9, <1>12
  <2> QED
    BY <1>11, <1>13, <2>1, <2>2, <2>3
<1>14. /\ list \in Seq(DOMAIN wosize) /\ Once(list)
       /\ Elems(list) = IF joins(bp) THEN Elems(fl) \ {next_free} ELSE Elems(fl)
  <2>1. CASE joins(bp)
    <3> DEFINE i == Pos(fl, fl_merge) + 1
    <3>1. i \in 1 .. Len(fl) /\ next_free = fl[i] /\ list = unlink(fl, i)
      BY <1>7, <2>1
    <3> HIDE DEF i
    <3>2. unlink(fl, i) \in Seq(DOMAIN wosize)
      BY <1>0, <3>1, UnlinkAt
    <3>3. Once(list) /\ Elems(list) = Elems(fl) \ {next_free}
      BY <1>0, <3>1, Unlink
    <3> QED
      BY <2>1, <3>1, <3>2, <3>3
  <2>2. CASE ~ joins(bp)
    BY <1>0, <2>2
  <2> QED
    BY <2>1, <2>2
<1>15. fl_merge \in Elems(list) \cup {Fl_head} /\ merged_prev(bp) \in Elems(list) \cup {Fl_head}
  BY <1>0, <1>7, <1>14 DEF merged_prev
<1> QED
  BY <1>0, <1>1, <1>2, <1>4, <1>5, <1>7, <1>8, <1>10, <1>11, <1>13, <1>14, <1>15, Zenon DEF Merging

\* The words that fl_merge_block adds to the free blocks.
LEMMA MergeWords ==
  ASSUME IInv, NEW bp, NEW start, NEW end, NEW list, Merging(bp, start, end, list)
  PROVE  /\ Counted(WordsOf(Elems(fl), wosize) \cup (start .. After(bp) - 1),
                    fl_cur_size + Whsize(bp) + (IF start = bp THEN 0 ELSE 1))
         /\ \A x \in start .. end - 1 :
              x \in start .. After(bp) - 1 \/ x \in WordsOf(Elems(fl), wosize)
<1> DEFINE S == WordsOf(Elems(fl), wosize)
           b == After(bp) - 1
<1>0. /\ Tiled(heap, wosize) /\ Elems(fl) = Blue(wosize, color)
      /\ \A h \in DOMAIN wosize : h \in Nat /\ wosize[h] \in Nat
      /\ Counted(S, fl_cur_size)
  BY Unfold
<1>1. /\ bp \in DOMAIN wosize /\ bp \in Nat /\ wosize[bp] \in Nat /\ start \in DOMAIN wosize /\ start \in Nat
      /\ start <= bp /\ b \in Nat /\ b = bp + wosize[bp] /\ Whsize(bp) = wosize[bp] + 1 /\ end \in Nat
      /\ start = bp \/ (start + 1 = bp /\ wosize[start] = 0)
      /\ color[bp] = "white" /\ color[start] = "white"
  <2>1. /\ bp \in DOMAIN wosize /\ start \in DOMAIN wosize /\ start <= bp /\ end \in Nat
        /\ start = bp \/ (start + 1 = bp /\ wosize[start] = 0)
        /\ color[bp] = "white" /\ color[start] = "white"
    BY DEF Merging
  <2>2. bp \in Nat /\ wosize[bp] \in Nat /\ start \in Nat
    BY <1>0, <2>1
  <2>3. b \in Nat /\ b = bp + wosize[bp] /\ Whsize(bp) = wosize[bp] + 1
    BY <2>2 DEF After, Whsize
  <2> QED
    BY <2>1, <2>2, <2>3
<1> HIDE DEF b
<1>2. Elems(fl) \in SUBSET DOMAIN wosize /\ bp \notin Elems(fl) /\ start \notin Elems(fl)
  BY <1>0, <1>1 DEF Blue
<1>3. (start .. b) \cap S = {}
  <2>1. (bp .. bp + wosize[bp]) \cap S = {} /\ (start .. start + wosize[start]) \cap S = {}
    BY <1>0, <1>1, <1>2, WordsApart
  <2>2. start .. b \subseteq (bp .. bp + wosize[bp]) \cup (start .. start + wosize[start])
    BY <1>1
  <2> QED
    BY <2>1, <2>2
<1>4. start \in Int /\ b \in Int /\ start <= b
      /\ b - start + 1 = Whsize(bp) + (IF start = bp THEN 0 ELSE 1)
  BY <1>1
<1>5. Counted(S \cup (start .. b), fl_cur_size + (b - start + 1))
  BY <1>0, <1>3, <1>4, CountMore
<1>6. fl_cur_size \in Nat
  BY <1>0 DEF Counted
<1>7. ASSUME NEW x \in start .. end - 1
      PROVE  x \in start .. b \/ x \in S
  <2>1. CASE joins(bp)
    <3>1. next_free = b + 1 /\ next_free \in Elems(fl) /\ end = next_free + wosize[next_free] + 1
      BY <1>1, <2>1 DEF Merging, b
    <3>2. x \in start .. b \/ x \in next_free .. next_free + wosize[next_free]
      BY <1>0, <1>1, <1>2, <3>1
    <3> QED
      BY <3>1, <3>2 DEF WordsOf
  <2>2. CASE ~ joins(bp)
    BY <1>1, <2>2 DEF Merging, b
  <2> QED
    BY <2>1, <2>2
<1>8. \A u, v \in Nat : \A t \in {0, 1} : u + (v + t) = u + v + t
  OBVIOUS
<1> QED
  BY <1>0, <1>1, <1>4, <1>5, <1>6, <1>7, <1>8 DEF b

\* A sequence is one of the elements it has.
LEMMA SeqOf ==
  ASSUME NEW S, NEW T, NEW l \in Seq(S), Elems(l) \subseteq T
  PROVE  l \in Seq(T)
<1>1. \A i \in 1 .. Len(l) : l[i] \in T
  BY DEF Elems
<1> QED
  BY <1>1

\* What a merge writes: the blocks from s to end are one free block, where s
\* is start or the free block before it.
Into(start, end, list, s, V, D, l) ==
  /\ s \in DOMAIN wosize /\ (s = start \/ (s \in Elems(list) /\ After(s) = start)) /\ end > s + 1
  /\ DOMAIN V = {h \in DOMAIN wosize : h <= s \/ h >= end} /\ DOMAIN D = DOMAIN V
  /\ V[s] = end - s - 1 /\ D[s] = "blue"
  /\ \A h \in DOMAIN V : h # s => V[h] = wosize[h] /\ D[h] = color[h]
  /\ l \in Seq(DOMAIN wosize) /\ Once(l) /\ Elems(l) = Elems(list) \cup {s}

\* The heap after the merge: the merged block is one free block of the list.
LEMMA Merged ==
  ASSUME IInv, gc_phase = "sweep", NEW start, NEW end, NEW list, NEW s, NEW V, NEW D, NEW l,
         Merging(gc_sweep_hp, start, end, list), Into(start, end, list, s, V, D, l)
  PROVE  /\ Linked(heap, V, D, l, merged_prev(gc_sweep_hp), s,
                   fl_cur_size + Whsize(gc_sweep_hp) + (IF start = gc_sweep_hp THEN 0 ELSE 1))
         /\ Held(V, D, live, gc_phase, end)
         /\ Swept(heap, V, D, live, gc_phase, chunk, end, last_fragment)
<1> DEFINE bp == gc_sweep_hp
<1>a. /\ s \in DOMAIN wosize /\ (s = start \/ (s \in Elems(list) /\ After(s) = start)) /\ end > s + 1
      /\ DOMAIN V = {h \in DOMAIN wosize : h <= s \/ h >= end} /\ DOMAIN D = DOMAIN V
      /\ V[s] = end - s - 1 /\ D[s] = "blue"
      /\ \A h \in DOMAIN V : h # s => V[h] = wosize[h] /\ D[h] = color[h]
      /\ l \in Seq(DOMAIN wosize) /\ Once(l) /\ Elems(l) = Elems(list) \cup {s}
  BY DEF Into
<1>0. /\ heap \in SUBSET Chunks /\ Tiled(heap, wosize) /\ DOMAIN color = DOMAIN wosize
      /\ \A h \in DOMAIN wosize : h \in Nat /\ wosize[h] \in Nat
      /\ \A h \in DOMAIN wosize : color[h] \in {"white", "black", "blue"}
      /\ Elems(fl) = Blue(wosize, color)
      /\ \A h \in Blue(wosize, color) : wosize[h] >= 1
  BY Unfold
<1>1. /\ bp \in DOMAIN wosize /\ start \in DOMAIN wosize /\ end \in DOMAIN wosize \cup {End(chunk)}
      /\ chunk \in heap /\ chunk.base <= start /\ start <= bp /\ bp < end /\ end <= End(chunk)
      /\ end \in Nat /\ bp \in Nat /\ start \in Nat /\ After(bp) \in Nat /\ After(bp) <= end
      /\ color[start] = "white" /\ color[bp] = "white"
  BY DEF Merging
<1> USE <1>a
<1>2. \A h \in DOMAIN wosize : start <= h /\ h < end =>
        h \notin DOMAIN live /\ (h = start \/ h = bp \/ (joins(bp) /\ h = next_free))
  BY DEF Merging
<1>3. Elems(list) = IF joins(bp) THEN Elems(fl) \ {next_free} ELSE Elems(fl)
  BY DEF Merging
<1>4. Elems(list) \subseteq Elems(fl) /\ Elems(fl) \subseteq DOMAIN wosize
  BY <1>0, <1>3 DEF Blue
<1>5. /\ s \in Nat /\ wosize[s] \in Nat /\ s <= start
      /\ s # start => s \in Elems(fl) /\ s + wosize[s] + 1 = start /\ s < start
  BY <1>0, <1>1, <1>4 DEF After, Whsize
<1>6. \A h \in DOMAIN wosize : h < start => h <= s
  <2> TAKE h \in DOMAIN wosize
  <2>1. h \in Nat /\ (s < h => s + wosize[s] + 1 <= h)
    BY <1>0 DEF Tiled
  <2> QED
    BY <1>1, <1>5, <2>1
<1>7. chunk.base <= s
  <2>1. CASE s = start
    BY <1>1, <2>1
  <2>2. CASE s # start
    <3>1. PICK d \in heap : d.base <= s /\ s + wosize[s] + 1 <= End(d)
      BY <1>0 DEF Tiled
    <3>2. /\ chunk.base \in Nat /\ End(chunk) \in Nat /\ d.base \in Nat /\ End(d) \in Nat
          /\ chunk = d \/ End(chunk) < d.base \/ End(d) < chunk.base
      BY <1>0, <1>1, InChunk, Zenon
    <3>3. s < start /\ s + wosize[s] + 1 = start /\ s \in Nat /\ wosize[s] \in Nat
      BY <1>5, <2>2
    <3>4. chunk.base <= start /\ start < End(chunk) /\ start \in Nat
      BY <1>1, <3>2
    <3>5. chunk = d
      BY <3>1, <3>2, <3>3, <3>4
    <3> QED
      BY <3>1, <3>5
  <2> QED
    BY <2>1, <2>2
<1>8. Tiled(heap, V)
  <2>1. s < end /\ \A h \in DOMAIN V : h # s => V[h] = wosize[h]
    BY <1>1, <1>5
  <2> QED
    BY <1>0, <1>1, <1>7, <2>1, Join, ZenonT(30)
<1>9. \A h \in Elems(fl) : s <= h /\ h < end => h = s \/ (joins(bp) /\ h = next_free)
  <2> SUFFICES ASSUME NEW h \in Elems(fl), s <= h, h < end, h # s
               PROVE  joins(bp) /\ h = next_free
    OBVIOUS
  <2>1. h \in DOMAIN wosize /\ h \in Nat /\ color[h] = "blue"
    BY <1>0, <1>4 DEF Blue
  <2>2. start <= h
    BY <1>1, <1>5, <1>6, <2>1
  <2> QED
    BY <1>1, <1>2, <2>1, <2>2
<1>10. joins(bp) => start <= next_free /\ next_free < end
  <2>1. joins(bp) => /\ next_free = After(bp) /\ next_free \in Elems(fl)
                     /\ end = next_free + wosize[next_free] + 1 /\ bp < After(bp)
    BY DEF Merging
  <2>2. joins(bp) => next_free \in Nat /\ wosize[next_free] \in Nat
    BY <1>0, <1>4, <2>1
  <2> QED
    BY <1>1, <2>1, <2>2
<1>11. Elems(l) = {h \in Elems(fl) : h < s \/ h >= end} \cup {s}
  <2>1. \A h \in Elems(fl) : h \in Nat
    BY <1>0, <1>4
  <2>2. ASSUME NEW h \in Elems(list) PROVE h = s \/ h < s \/ h >= end
    BY <1>1, <1>3, <1>4, <1>5, <1>9, <2>1
  <2>3. ASSUME NEW h \in Elems(fl), h < s \/ h >= end PROVE h \in Elems(list)
    BY <1>1, <1>3, <1>5, <1>10, <2>1, <2>3
  <2> QED
    BY <1>4, <2>2, <2>3
<1>12. Blue(V, D) = Elems(l)
  <2>1. \A h \in DOMAIN V : h \in DOMAIN wosize /\ (h # s => (D[h] = "blue" <=> color[h] = "blue"))
    OBVIOUS
  <2>2. s \in DOMAIN V
    BY <1>5
  <2>3. Elems(fl) = {h \in DOMAIN wosize : color[h] = "blue"}
    BY <1>0 DEF Blue
  <2>4. \A h \in DOMAIN V : h # s => (h < s \/ h >= end)
    BY <1>0, <1>5
  <2>5. ASSUME NEW h \in Blue(V, D) PROVE h \in Elems(l)
    BY <1>11, <2>1, <2>3, <2>4 DEF Blue
  <2>6. ASSUME NEW h \in Elems(l) PROVE h \in Blue(V, D)
    <3>1. CASE h = s
      BY <2>2, <3>1 DEF Blue
    <3>2. CASE h # s
      <4>1. h \in Elems(fl) /\ (h < s \/ h >= end)
        BY <1>11, <3>2
      <4>2. h \in DOMAIN V
        BY <1>4, <4>1, <1>0, <1>5
      <4> QED
        BY <2>1, <2>3, <3>2, <4>1, <4>2 DEF Blue
    <3> QED
      BY <3>1, <3>2
  <2> QED
    BY <2>5, <2>6
<1>13. l \in Seq(DOMAIN V)
  <2>1. Elems(l) \subseteq DOMAIN V
    BY <1>12 DEF Blue
  <2> QED
    BY <2>1, SeqOf
<1>14. \A h \in Blue(V, D) : V[h] >= 1
  <2>1. V[s] >= 1
    BY <1>1, <1>5
  <2> QED
    BY <1>0, <1>11, <1>12, <2>1, Zenon DEF Blue
<1>15. merged_prev(bp) \in Elems(l) \cup {Fl_head} /\ s \in Elems(l) \cup {Fl_head}
  BY DEF Merging
<1> DEFINE S == WordsOf(Elems(fl), wosize)
           b == After(bp) - 1
<1> HIDE DEF S, b
<1>16. /\ Counted(S \cup (start .. b), fl_cur_size + Whsize(bp) + (IF start = bp THEN 0 ELSE 1))
       /\ \A x \in start .. end - 1 : x \in start .. b \/ x \in S
  BY MergeWords, ZenonT(30) DEF S, b
<1>17. WordsOf(Elems(l), V) = S \cup (start .. b)
  <2>1. \A x \in s .. end - 1 : x \in start .. b \/ x \in S
    <3> TAKE x \in s .. end - 1
    <3>1. x \in start .. end - 1 \/ (s # start /\ x \in s .. s + wosize[s])
      BY <1>1, <1>5
    <3> QED
      BY <1>5, <1>16, <3>1 DEF WordsOf, S
  <2>2. \A h \in Elems(fl) : h \in Nat /\ wosize[h] \in Nat
    BY <1>0, <1>4
  <2>3. \A h \in Elems(fl) : s <= h /\ h < end => h + wosize[h] < end
    <3> TAKE h \in Elems(fl)
    <3>1. h \in DOMAIN wosize /\ h \in Nat /\ wosize[h] \in Nat
      BY <1>4, <2>2
    <3>2. CASE end \in DOMAIN wosize
      BY <1>0, <1>1, <3>1, <3>2 DEF Tiled
    <3>3. CASE end = End(chunk)
      <4>1. chunk.base \in Nat /\ (chunk.base <= h /\ h < End(chunk) => h + wosize[h] + 1 <= End(chunk))
        BY <1>0, <1>1, <3>1, InChunk, Zenon
      <4> QED
        BY <1>1, <1>5, <1>7, <3>1, <3>3, <4>1
    <3> QED
      BY <1>1, <3>2, <3>3
  <2>4. \A h \in Elems(fl) : h < s \/ h >= end => V[h] = wosize[h]
    BY <1>0, <1>1, <1>4, <1>5
  <2>5. b \in Nat /\ s < end /\ s <= start /\ b < end
    <3>1. bp < After(bp)
      BY DEF Merging
    <3> QED
      BY <1>1, <1>5, <3>1 DEF b
  <2>6. \A x \in s .. end - 1 : x \in start .. b \/ x \in WordsOf(Elems(fl), wosize)
    BY <2>1 DEF S
  <2>7. s \in Nat /\ end \in Nat /\ start \in Nat /\ V[s] = end - s - 1
    BY <1>1, <1>5
  <2>8. Joined(Elems(fl), wosize, Elems(l), V, s, end, start, b)
    BY <1>11, <2>2, <2>3, <2>4, <2>5, <2>6, <2>7 DEF Joined
  <2> QED
    BY <2>8, WordsJoined DEF S
<1>18. Linked(heap, V, D, l, merged_prev(bp), s, fl_cur_size + Whsize(bp) + (IF start = bp THEN 0 ELSE 1))
  <2>1. \A h \in DOMAIN V : D[h] \in {"white", "black", "blue"}
    BY <1>0
  <2> QED
    BY <1>8, <1>12, <1>13, <1>14, <1>15, <1>16, <1>17, <2>1, Zenon DEF Linked
<1>19. Held(V, D, live, gc_phase, end)
  <2>1. \A h \in DOMAIN live : /\ h \in DOMAIN wosize /\ wosize[h] >= 1 /\ color[h] # "blue"
                               /\ h >= bp => color[h] = "black"
    BY DEF IInv, Held
  <2>2. \A h \in DOMAIN live : h \in DOMAIN V /\ h # s
    <3> TAKE h \in DOMAIN live
    <3>1. h \in Nat /\ h \in DOMAIN wosize /\ ~ (start <= h /\ h < end) /\ color[h] # "blue"
      BY <1>0, <1>2, <2>1
    <3>2. h <= s \/ h >= end
      BY <1>1, <1>6, <3>1
    <3>3. s # start => color[s] = "blue"
      BY <1>0, <1>5 DEF Blue
    <3> QED
      BY <1>1, <1>5, <3>1, <3>2, <3>3
  <2>3. live = [h \in DOMAIN live |-> wosize[h]]
    BY DEF IInv, Held
  <2>4. live = [h \in DOMAIN live |-> V[h]]
    BY <2>2, <2>3
  <2>5. \A h \in DOMAIN live : h >= end => h >= bp
    BY <1>0, <1>1, <2>1
  <2> QED
    BY <2>1, <2>2, <2>4, <2>5 DEF Held
<1>20. Swept(heap, V, D, live, gc_phase, chunk, end, last_fragment)
  <2>1. last_fragment \in Nat \cup {NULL} /\ (last_fragment # NULL => last_fragment < bp)
    BY DEF IInv, Swept
  <2>2. chunk.base \in Nat
    BY <1>0, <1>1, InChunk, Zenon
  <2>4. /\ chunk.base <= end /\ end <= End(chunk)
        /\ last_fragment # NULL => last_fragment < end /\ last_fragment + 1 # end
    BY <1>1, <2>1, <2>2
  <2>3. end \in DOMAIN V \cup {End(chunk)}
    BY <1>1
  <2> QED
    BY <1>1, <2>1, <2>3, <2>4 DEF Swept
<1> QED
  BY <1>18, <1>19, <1>20

\* What fl_merge_block does with the block at the sweep pointer: the words from
\* start to end go to the free block s, or they are a lone header and stay.
Outcome(bp, start, end, list) ==
  /\ Merging(bp, start, end, list)
  /\ list = IF joins(bp) THEN unlink(fl, Pos(fl, fl_merge) + 1) ELSE fl
  /\ fl_prev' = merged_prev(bp) /\ gc_sweep_hp' = end
  /\ \/ /\ Into(start, end, list, fl_merge', wosize', color', fl')
        /\ fl_cur_size' = fl_cur_size + Whsize(bp) + (IF start = bp THEN 0 ELSE 1)
        /\ last_fragment' = last_fragment
        /\ \/ /\ fl_merge # Fl_head /\ After(fl_merge) = start
              /\ fl_merge' = fl_merge /\ fl' = list
           \/ /\ ~ (fl_merge # Fl_head /\ After(fl_merge) = start)
              /\ fl_merge' = start /\ fl' = link(list, Pos(list, fl_merge) + 1, start)
     \/ /\ start = bp /\ end = bp + 1 /\ wosize[bp] = 0 /\ ~ joins(bp)
        /\ last_fragment' = bp
        /\ UNCHANGED <<wosize, color, fl, fl_prev, fl_cur_size, fl_merge>>

\* fl_merge_block extends the last free block, makes a new one, or leaves a
\* fragment.
LEMMA MergeOutcome ==
  ASSUME IInv, gc_phase = "sweep", gc_sweep_hp < End(chunk), color[gc_sweep_hp] = "white",
         fl_merge_block(gc_sweep_hp), gc_sweep_hp' = sweep_next(gc_sweep_hp)
  PROVE  \E start, end, list : Outcome(gc_sweep_hp, start, end, list)
<1> DEFINE bp == gc_sweep_hp
           frag == last_fragment # NULL /\ last_fragment + 1 = bp
           start == IF frag THEN last_fragment ELSE bp
           end == merged_end(bp)
           list == IF joins(bp) THEN unlink(fl, Pos(fl, fl_merge) + 1) ELSE fl
           size == fl_cur_size + Whsize(bp) + (IF start = bp THEN 0 ELSE 1)
           extends == fl_merge # Fl_head /\ After(fl_merge) = start
           Kept == {h \in DOMAIN wosize : h < start \/ h >= end}
<1>1. Merging(bp, start, end, list)
  BY MergeShape
<1>2. /\ \A h \in DOMAIN wosize : h \in Nat /\ wosize[h] \in Nat
      /\ Tiled(heap, wosize) /\ DOMAIN color = DOMAIN wosize
      /\ Elems(fl) = Blue(wosize, color) /\ heap \in SUBSET Chunks
      /\ fl_merge \in Elems(fl) \cup {Fl_head} /\ Counted(WordsOf(Elems(fl), wosize), fl_cur_size)
  BY Unfold
<1>3. fl_cur_size \in Nat
  BY <1>2 DEF Counted
<1>4. frag <=> start # bp
  <2>1. bp \in Nat
    BY <1>1 DEF Merging
  <2> QED
    BY <2>1
<1>5. fl_cur_size + Whsize(bp) + (IF frag THEN 1 ELSE 0) = size
  BY <1>4
<1>6. /\ fl_prev' = merged_prev(bp) /\ gc_sweep_hp' = end
      /\ \/ /\ extends
            /\ wosize' = [h \in Kept |-> IF h = fl_merge THEN end - fl_merge - 1 ELSE wosize[h]]
            /\ color' = [h \in Kept |-> color[h]]
            /\ fl' = list /\ fl_cur_size' = size
            /\ fl_merge' = fl_merge /\ last_fragment' = last_fragment
         \/ /\ ~ extends /\ end > start + 1
            /\ wosize' = Put([h \in Kept |-> wosize[h]], start, end - start - 1)
            /\ color' = Put([h \in Kept |-> color[h]], start, "blue")
            /\ fl' = insert(list, start) /\ fl_cur_size' = size
            /\ fl_merge' = start /\ last_fragment' = last_fragment
         \/ /\ ~ extends /\ end = start + 1
            /\ last_fragment' = start
            /\ fl' = list /\ fl_cur_size' = size - 1
            /\ wosize' = wosize /\ color' = color /\ fl_merge' = fl_merge
  BY <1>5 DEF fl_merge_block, sweep_next, blockVars, Headers
<1> HIDE DEF start, end, list, size, frag
<1>7. /\ bp \in DOMAIN wosize /\ start \in DOMAIN wosize /\ bp \in Nat /\ start \in Nat /\ end \in Nat
      /\ start <= bp /\ bp < After(bp) /\ After(bp) <= end /\ After(bp) \in Nat
      /\ list \in Seq(DOMAIN wosize) /\ Once(list)
      /\ Elems(list) = IF joins(bp) THEN Elems(fl) \ {next_free} ELSE Elems(fl)
      /\ fl_merge \in Elems(list) \cup {Fl_head}
      /\ color[start] = "white" /\ color[bp] = "white"
  BY <1>1 DEF Merging
<1>8. CASE /\ extends
           /\ wosize' = [h \in Kept |-> IF h = fl_merge THEN end - fl_merge - 1 ELSE wosize[h]]
           /\ color' = [h \in Kept |-> color[h]]
           /\ fl' = list /\ fl_cur_size' = size
           /\ fl_merge' = fl_merge /\ last_fragment' = last_fragment
  <2> DEFINE s == fl_merge
  <2>1. s \in Elems(list) /\ After(s) = start
    BY <1>7, <1>8
  <2>2. /\ s \in DOMAIN wosize /\ color[s] = "blue" /\ s \in Nat /\ wosize[s] \in Nat
        /\ s + wosize[s] + 1 = start /\ s < start
    BY <1>2, <1>7, <2>1 DEF Blue, After, Whsize
  <2>3. end > s + 1
    BY <1>7, <2>2
  <2>4. \A h \in DOMAIN wosize : h < start \/ h >= end <=> h <= s \/ h >= end
    <3> TAKE h \in DOMAIN wosize
    <3>1. h \in Nat /\ (s < h => s + wosize[s] + 1 <= h)
      BY <1>2, <2>2 DEF Tiled
    <3> QED
      BY <1>7, <2>2, <3>1
  <2>5. /\ DOMAIN wosize' = {h \in DOMAIN wosize : h <= s \/ h >= end} /\ DOMAIN color' = DOMAIN wosize'
        /\ s \in DOMAIN wosize'
    BY <1>8, <2>2, <2>4
  <2>6. /\ wosize'[s] = end - s - 1 /\ color'[s] = "blue"
        /\ \A h \in DOMAIN wosize' : h # s => wosize'[h] = wosize[h] /\ color'[h] = color[h]
    BY <1>8, <2>2, <2>5
  <2>7. fl' \in Seq(DOMAIN wosize) /\ Once(fl') /\ Elems(fl') = Elems(list) \cup {s}
    BY <1>7, <1>8, <2>1
  <2> HIDE DEF s
  <2>8. Into(start, end, list, s, wosize', color', fl')
    BY <2>1, <2>2, <2>3, <2>5, <2>6, <2>7 DEF Into
  <2> QED
    BY <1>1, <1>6, <1>8, <2>8 DEF Outcome, s, size, list
<1>9. CASE /\ ~ extends /\ end > start + 1
           /\ wosize' = Put([h \in Kept |-> wosize[h]], start, end - start - 1)
           /\ color' = Put([h \in Kept |-> color[h]], start, "blue")
           /\ fl' = insert(list, start) /\ fl_cur_size' = size
           /\ fl_merge' = start /\ last_fragment' = last_fragment
  <2>1. \A h \in DOMAIN wosize : h < start \/ h >= end \/ h = start <=> h <= start \/ h >= end
    BY <1>2, <1>7
  <2>2. /\ DOMAIN wosize' = {h \in DOMAIN wosize : h <= start \/ h >= end} /\ DOMAIN color' = DOMAIN wosize'
        /\ start \in DOMAIN wosize'
    BY <1>7, <1>9, <2>1 DEF Put
  <2>3. wosize'[start] = end - start - 1 /\ color'[start] = "blue"
    BY <1>9 DEF Put
  <2>4. \A h \in DOMAIN wosize' : h # start => wosize'[h] = wosize[h] /\ color'[h] = color[h]
    BY <1>9, <2>2 DEF Put
  <2>5. DOMAIN wosize \subseteq Nat \ {0}
    BY <1>2, InChunk, ZenonT(30)
  <2>6. Pos(list, fl_merge) + 1 \in 1 .. Len(list) + 1
    <3>1. list \in Seq(Nat \ {0}) /\ Len(list) \in Nat
      BY <1>7, <2>5
    <3>2. Pos(list, fl_merge) \in 0 .. Len(list)
      BY <1>7, <3>1, PosFacts
    <3> QED
      BY <3>1, <3>2
  <2>7. start \notin Elems(list)
    BY <1>2, <1>7 DEF Blue
  <2>8. fl' \in Seq(DOMAIN wosize) /\ Once(fl') /\ Elems(fl') = Elems(list) \cup {start}
    <3> DEFINE i == Pos(list, fl_merge) + 1
    <3>1. fl' = link(list, i, start) /\ i \in 1 .. Len(list) + 1
      BY <1>9, <2>6 DEF insert
    <3> HIDE DEF i
    <3>2. link(list, i, start) \in Seq(DOMAIN wosize)
      BY <1>7, <3>1, LinkAt
    <3>3. Once(link(list, i, start)) /\ Elems(link(list, i, start)) = Elems(list) \cup {start}
      BY <1>7, <2>7, <3>1, Link
    <3> QED
      BY <3>1, <3>2, <3>3
  <2>9. Into(start, end, list, start, wosize', color', fl')
    BY <1>7, <1>9, <2>2, <2>3, <2>4, <2>8, ZenonT(30) DEF Into
  <2> QED
    BY <1>1, <1>6, <1>9, <2>9, ZenonT(30) DEF Outcome, size, list, insert
<1>10. CASE /\ ~ extends /\ end = start + 1
            /\ last_fragment' = start
            /\ fl' = list /\ fl_cur_size' = size - 1
            /\ wosize' = wosize /\ color' = color /\ fl_merge' = fl_merge
  <2>1. start = bp /\ end = bp + 1 /\ After(bp) = bp + 1
    BY <1>7, <1>10
  <2>2. wosize[bp] = 0 /\ Whsize(bp) = 1
    BY <1>2, <1>7, <2>1 DEF After, Whsize
  <2>3. ~ joins(bp)
    <3> SUFFICES ASSUME joins(bp) PROVE FALSE
      OBVIOUS
    <3>1. next_free = After(bp) /\ next_free \in Elems(fl) /\ end = next_free + wosize[next_free] + 1
      BY <1>1 DEF Merging
    <3>2. wosize[next_free] \in Nat
      BY <1>2, <3>1 DEF Blue
    <3> QED
      BY <1>7, <2>1, <3>1, <3>2
  <2>4. fl' = fl /\ fl_prev' = fl_prev
    BY <1>6, <1>10, <2>3 DEF list, merged_prev
  <2>5. fl_cur_size' = fl_cur_size
    BY <1>3, <1>10, <2>1, <2>2 DEF size
  <2> QED
    BY <1>1, <1>6, <1>10, <2>1, <2>2, <2>3, <2>4, <2>5 DEF Outcome, list
<1> QED
  BY <1>6, <1>8, <1>9, <1>10

\* A swept block joins the list: the invariant is kept.
LEMMA MergeStep ==
  ASSUME IInv, gc_phase = "sweep", gc_sweep_hp < End(chunk), color[gc_sweep_hp] = "white",
         fl_merge_block(gc_sweep_hp), gc_sweep_hp' = sweep_next(gc_sweep_hp),
         UNCHANGED <<heap, gc_phase, chunk, live, upward>>
  PROVE  IInv'
<1> DEFINE bp == gc_sweep_hp
<1>1. PICK start, end, list : Outcome(bp, start, end, list)
  BY MergeOutcome
<1>2. Merging(bp, start, end, list) /\ fl_prev' = merged_prev(bp) /\ gc_sweep_hp' = end
  BY <1>1 DEF Outcome
<1>3. CASE /\ Into(start, end, list, fl_merge', wosize', color', fl')
           /\ fl_cur_size' = fl_cur_size + Whsize(bp) + (IF start = bp THEN 0 ELSE 1)
           /\ last_fragment' = last_fragment
  <2>1. /\ Linked(heap, wosize', color', fl', merged_prev(bp), fl_merge', fl_cur_size')
        /\ Held(wosize', color', live, gc_phase, end)
        /\ Swept(heap, wosize', color', live, gc_phase, chunk, end, last_fragment)
    BY <1>2, <1>3, Merged
  <2> QED
    BY <1>2, <1>3, <2>1 DEF IInv
<1>4. CASE /\ start = bp /\ end = bp + 1 /\ wosize[bp] = 0
           /\ last_fragment' = bp
           /\ UNCHANGED <<wosize, color, fl, fl_prev, fl_cur_size, fl_merge>>
  <2>0. \A h \in DOMAIN wosize : h \in Nat
    BY Unfold
  <2>1. /\ bp \in DOMAIN wosize /\ bp \in Nat /\ color[bp] = "white" /\ chunk \in heap
        /\ end \in DOMAIN wosize \cup {End(chunk)} /\ chunk.base <= bp /\ end <= End(chunk)
    BY <1>2, <1>4 DEF Merging
  <2>2. \A h \in DOMAIN live : /\ h \in Nat /\ h \in DOMAIN wosize /\ color[h] # "blue"
                               /\ h >= bp => color[h] = "black"
    BY <2>0 DEF IInv, Held
  <2>3. bp \notin DOMAIN live
    BY <2>1, <2>2
  <2>4. Held(wosize, color, live, gc_phase, end)
    BY <1>4, <2>1, <2>2 DEF IInv, Held
  <2>5. chunk.base \in Nat
    BY <2>1, ChunksAssumption DEF IInv
  <2>6. chunk.base <= end /\ bp < end /\ bp \in Nat \cup {NULL} /\ gc_phase \in {"idle", "sweep"} /\ end \in Nat
    BY <1>4, <2>1, <2>5
  <2>7. Swept(heap, wosize, color, live, gc_phase, chunk, end, bp)
    BY <1>4, <2>1, <2>3, <2>6 DEF Swept
  <2> QED
    BY <1>2, <1>4, <2>4, <2>7 DEF IInv
<1> QED
  BY <1>1, <1>3, <1>4 DEF Outcome

\* A free or a marked block is passed.
LEMMA PassStep ==
  ASSUME IInv, gc_phase = "sweep", gc_sweep_hp < End(chunk),
         gc_sweep_hp' = After(gc_sweep_hp), color[gc_sweep_hp] # "white",
         UNCHANGED <<heap, gc_phase, chunk, live, upward>>,
         UNCHANGED <<wosize, fl, fl_prev, fl_cur_size, last_fragment>>,
         \/ color[gc_sweep_hp] = "blue" /\ fl_merge' = gc_sweep_hp /\ color' = color
         \/ color[gc_sweep_hp] = "black" /\ fl_merge' = fl_merge
            /\ color' = [color EXCEPT ![gc_sweep_hp] = "white"]
  PROVE  IInv'
<1> DEFINE hp == gc_sweep_hp
<1>0. /\ heap \in SUBSET Chunks /\ Tiled(heap, wosize) /\ DOMAIN color = DOMAIN wosize
      /\ \A h \in DOMAIN wosize : h \in Nat /\ wosize[h] \in Nat
      /\ \A h \in DOMAIN wosize : color[h] \in {"white", "black", "blue"}
      /\ Elems(fl) = Blue(wosize, color)
      /\ fl_prev \in Elems(fl) \cup {Fl_head} /\ fl_merge \in Elems(fl) \cup {Fl_head}
  BY Unfold
<1>1. /\ chunk \in heap /\ hp \in Nat /\ hp \in DOMAIN wosize \cup {End(chunk)} /\ chunk.base <= hp
      /\ last_fragment \in Nat \cup {NULL} /\ (last_fragment # NULL => last_fragment < hp)
  BY DEF IInv, Swept
<1>2. /\ chunk.base \in Nat /\ End(chunk) \in Nat
      /\ \A h \in DOMAIN wosize : chunk.base <= h /\ h < End(chunk) => h + wosize[h] + 1 <= End(chunk)
  BY <1>0, <1>1, InChunk, ZenonT(30)
<1>3. hp \in DOMAIN wosize /\ hp < End(chunk)
  BY <1>1, <1>2
<1>4. hp' = hp + wosize[hp] + 1 /\ hp' \in Nat /\ hp < hp' /\ hp' <= End(chunk)
  BY <1>0, <1>1, <1>2, <1>3 DEF After, Whsize
<1>5. hp' \in DOMAIN wosize \cup {End(chunk)}
  BY <1>0, <1>1, <1>3, <1>4 DEF Tiled
<1> HIDE DEF hp
<1>6. /\ DOMAIN color' = DOMAIN wosize /\ \A h \in DOMAIN wosize : h # hp => color'[h] = color[h]
      /\ \A h \in DOMAIN wosize : color'[h] \in {"white", "black", "blue"}
      /\ color'[hp] = "blue" <=> color[hp] = "blue"
  BY <1>0, <1>3 DEF hp
<1>7. Blue(wosize, color') = Blue(wosize, color)
  BY <1>0, <1>6 DEF Blue
<1>8. Linked(heap, wosize, color', fl, fl_prev, fl_merge', fl_cur_size)
  <2>1. fl_merge' \in Elems(fl) \cup {Fl_head}
    BY <1>0, <1>3 DEF Blue, hp
  <2>2. Linked(heap, wosize, color, fl, fl_prev, fl_merge, fl_cur_size)
    BY DEF IInv
  <2>3. DOMAIN wosize \subseteq DOMAIN wosize /\ \A h \in Blue(wosize, color) : wosize[h] = wosize[h]
    OBVIOUS
  <2> QED
    BY <1>0, <1>6, <1>7, <2>1, <2>2, <2>3, SameLinked
<1>9. Held(wosize, color', live, gc_phase, hp')
  <2>1. \A h \in DOMAIN live : /\ h \in DOMAIN wosize /\ h \in Nat /\ wosize[h] >= 1 /\ color[h] # "blue"
                               /\ h >= hp => color[h] = "black"
    BY <1>0 DEF IInv, Held, hp
  <2>2. \A h \in DOMAIN live : h >= hp' => h # hp /\ h >= hp
    BY <1>1, <1>4, <2>1
  <2>3. \A h \in DOMAIN live : color'[h] # "blue" /\ (h >= hp' => color'[h] = "black")
    BY <1>6, <2>1, <2>2
  <2> QED
    BY <2>1, <2>3 DEF IInv, Held
<1>10. Swept(heap, wosize, color', live, gc_phase, chunk, hp', last_fragment)
  <2>1. /\ chunk.base <= hp'
        /\ last_fragment # NULL => last_fragment < hp' /\ last_fragment + 1 # hp'
    BY <1>1, <1>2, <1>4
  <2> QED
    BY <1>1, <1>4, <1>5, <2>1 DEF Swept
<1> QED
  BY <1>8, <1>9, <1>10 DEF IInv, hp

\* The sweeper goes to the next chunk, or stops.
LEMMA ChunkStep ==
  ASSUME IInv, sweep_chunk
  PROVE  IInv'
<1> DEFINE Later == {c \in heap : c.base > chunk.base}
<1>0. heap \in SUBSET Chunks /\ Tiled(heap, wosize)
      /\ \A h \in DOMAIN wosize : h \in Nat
  BY Unfold
<1>1. /\ gc_phase = "sweep" /\ gc_sweep_hp = End(chunk)
      /\ IF Later = {}
         THEN gc_phase' = "idle" /\ chunk' = NULL /\ gc_sweep_hp' = gc_sweep_hp
         ELSE /\ chunk' = CHOOSE c \in Later : \A d \in Later : c.base <= d.base
              /\ gc_sweep_hp' = chunk'.base /\ gc_phase' = gc_phase
      /\ UNCHANGED <<heap, blockVars, listVars, live, upward>>
  BY DEF sweep_chunk
<1>2. /\ chunk \in heap /\ gc_sweep_hp \in Nat /\ last_fragment \in Nat \cup {NULL}
      /\ last_fragment # NULL => last_fragment < gc_sweep_hp
  BY <1>1 DEF IInv, Swept
<1>3. CASE Later = {}
  <2>1. Held(wosize, color, live, gc_phase', gc_sweep_hp')
    BY <1>1, <1>3 DEF IInv, Held
  <2>2. Swept(heap, wosize, color, live, gc_phase', chunk', gc_sweep_hp', last_fragment)
    BY <1>1, <1>2, <1>3 DEF Swept
  <2> QED
    BY <1>1, <2>1, <2>2 DEF IInv, blockVars, listVars
<1>4. CASE Later # {}
  <2>1. chunk' \in Later
    <3>1. {c.base : c \in Later} \in SUBSET Nat /\ {c.base : c \in Later} # {}
      BY <1>0, <1>4, ChunksAssumption
    <3>2. PICK n \in {c.base : c \in Later} : \A k \in {c.base : c \in Later} : n <= k
      BY <3>1, Smallest, Zenon
    <3>3. \E c \in Later : \A d \in Later : c.base <= d.base
      BY <3>2
    <3> QED
      BY <1>1, <1>4, <3>3
  <2>2. chunk' \in heap /\ chunk'.base > chunk.base
    BY <2>1
  <2>3. /\ chunk'.base \in Nat /\ End(chunk') \in Nat /\ chunk'.base < End(chunk')
        /\ chunk.base \in Nat /\ End(chunk) \in Nat /\ chunk.base < End(chunk)
        /\ chunk = chunk' \/ End(chunk) < chunk'.base \/ End(chunk') < chunk.base
    BY <1>0, <1>2, <2>2, InChunk, ZenonT(30)
  <2>4. chunk'.base \in DOMAIN wosize
    BY <1>0, <2>2 DEF Tiled
  <2>5. gc_sweep_hp' = chunk'.base /\ gc_phase' = gc_phase /\ gc_sweep_hp < gc_sweep_hp'
    BY <1>1, <1>4, <2>2, <2>3
  <2>6. Held(wosize, color, live, gc_phase', gc_sweep_hp')
    <3>1. \A h \in DOMAIN live : h \in Nat
      BY <1>0 DEF IInv, Held
    <3>2. \A h \in DOMAIN live : h >= gc_sweep_hp' => h >= gc_sweep_hp
      BY <1>2, <2>3, <2>5, <3>1
    <3> QED
      BY <2>5, <3>2 DEF IInv, Held
  <2>7. Swept(heap, wosize, color, live, gc_phase', chunk', gc_sweep_hp', last_fragment)
    <3>1. last_fragment # NULL => last_fragment < gc_sweep_hp' /\ last_fragment + 1 # gc_sweep_hp'
      BY <1>2, <2>3, <2>5
    <3>2. chunk'.base <= gc_sweep_hp' /\ gc_sweep_hp' <= End(chunk') /\ gc_sweep_hp' \in Nat
      BY <2>3, <2>5
    <3> QED
      BY <1>1, <1>2, <2>2, <2>4, <2>5, <3>1, <3>2 DEF Swept
  <2> QED
    BY <1>1, <2>6, <2>7 DEF IInv, blockVars, listVars
<1> QED
  BY <1>3, <1>4

-----------------------------------------------------------------------------
(* The order of the list.                                                  *)

\* The sweep starts below every block, with the sentinel for fl_merge.
LEMMA StartOrdered ==
  ASSUME IInv, NEW Kept \in SUBSET DOMAIN live, start_sweep(Kept),
         Ordered(fl, fl_merge, gc_phase, gc_sweep_hp, wosize)
  PROVE  Ordered(fl, fl_merge', gc_phase', gc_sweep_hp', wosize)
<1>0. /\ heap \in SUBSET Chunks /\ Tiled(heap, wosize)
      /\ \A h \in DOMAIN wosize : h \in Nat /\ wosize[h] \in Nat
      /\ Elems(fl) = Blue(wosize, color)
  BY Unfold
<1>1. /\ chunk' = CHOOSE c \in heap : \A d \in heap : c.base <= d.base
      /\ gc_sweep_hp' = chunk'.base /\ fl_merge' = Fl_head
  BY DEF start_sweep, fl_init_merge
<1>2. DOMAIN wosize \subseteq Nat \ {0} /\ \A c \in heap : c.base \in Nat
  BY <1>0, InChunk, Zenon
<1>3. chunk' \in heap /\ \A d \in heap : chunk'.base <= d.base
  <2>0. heap # {}
    BY DEF IInv
  <2>1. {c.base : c \in heap} \in SUBSET Nat /\ {c.base : c \in heap} # {}
    BY <1>2, <2>0, Zenon
  <2>2. PICK n \in {c.base : c \in heap} : \A k \in {c.base : c \in heap} : n <= k
    BY <2>1, Smallest, ZenonT(30)
  <2>3. \E c \in heap : \A d \in heap : c.base <= d.base
    BY <2>2
  <2> QED
    BY <1>1, <2>3
<1> DEFINE b == gc_sweep_hp'
<1>4. b \in Nat /\ \A d \in heap : b <= d.base
  BY <1>1, <1>2, <1>3
<1> HIDE DEF b
<1>5. \A x \in Elems(fl) : ~ (x <= Fl_head) /\ ~ (x < b)
  <2> TAKE x \in Elems(fl)
  <2>1. x \in DOMAIN wosize /\ x \in Nat /\ x # 0
    BY <1>0, <1>2 DEF Blue
  <2>2. PICK d \in heap : d.base <= x
    BY <1>0, <2>1 DEF Tiled
  <2> QED
    BY <1>2, <1>4, <2>1, <2>2 DEF Fl_head
<1> QED
  BY <1>1, <1>5 DEF Ordered, b

\* Where the free neighbours of a swept block are.  A free block that starts
\* where it ends is the one after fl_merge, and a free block that ends where it
\* starts is fl_merge.
LEMMA Neighbours ==
  ASSUME IInv, gc_phase = "sweep", Ordered(fl, fl_merge, gc_phase, gc_sweep_hp, wosize),
         NEW start, NEW end, NEW list, Merging(gc_sweep_hp, start, end, list)
  PROVE  /\ After(gc_sweep_hp) \in Elems(fl) => joins(gc_sweep_hp)
         /\ end \notin Elems(fl)
         /\ \A y \in Elems(fl) : After(y) = start => y = fl_merge
<1> DEFINE bp == gc_sweep_hp
<1>0. /\ heap \in SUBSET Chunks /\ Tiled(heap, wosize) /\ DOMAIN color = DOMAIN wosize
      /\ \A h \in DOMAIN wosize : h \in Nat /\ wosize[h] \in Nat
      /\ fl \in Seq(DOMAIN wosize) /\ Elems(fl) = Blue(wosize, color)
      /\ fl_merge \in Elems(fl) \cup {Fl_head}
  BY Unfold
<1>1. /\ Ascending(fl) /\ \A x, y \in Elems(fl) : x + wosize[x] + 1 # y
      /\ \A x \in Elems(fl) : x <= fl_merge <=> x < bp
  BY DEF Ordered
<1>2. /\ bp \in DOMAIN wosize /\ start \in DOMAIN wosize /\ bp \in Nat /\ start \in Nat
      /\ start = bp \/ start + 1 = bp
      /\ color[start] = "white" /\ color[bp] = "white"
      /\ ~ joins(bp) => end = After(bp)
      /\ joins(bp) => next_free \in Elems(fl) /\ end = next_free + wosize[next_free] + 1
  BY DEF Merging
<1>3. /\ DOMAIN wosize \subseteq Nat \ {0}
      /\ \A g, h \in DOMAIN wosize : g < h => g + wosize[g] + 1 <= h
  BY <1>0, InChunk, Zenon DEF Tiled
<1>4. /\ Elems(fl) \subseteq DOMAIN wosize /\ bp \notin Elems(fl) /\ start \notin Elems(fl)
      /\ fl \in Seq(Nat \ {0}) /\ Len(fl) \in Nat
  BY <1>0, <1>2, <1>3 DEF Blue
<1>5. After(bp) = bp + wosize[bp] + 1 /\ After(bp) \in Nat /\ wosize[bp] \in Nat
  BY <1>0, <1>2 DEF After, Whsize
<1> HIDE DEF bp
<1>6. ASSUME After(bp) \in Elems(fl) PROVE joins(bp)
  <2> DEFINE k == Pos(fl, fl_merge)
             n == k + 1
  <2>1. PICK j \in 1 .. Len(fl) : fl[j] = After(bp)
    BY <1>6 DEF Elems
  <2>2. ~ (fl[j] <= fl_merge)
    BY <1>1, <1>5, <1>6, <1>2, <2>1
  <2>3. k \in 0 .. Len(fl)
    BY <1>0, <1>4, PosFacts
  <2>4. ~ (j <= k)
    BY <1>0, <1>1, <1>4, <2>2, PosOrder
  <2>5. n \in 1 .. Len(fl) /\ n <= j /\ k < Len(fl) /\ ~ (n <= k)
    BY <1>4, <2>3, <2>4
  <2>6. ~ (fl[n] <= fl_merge) /\ fl[n] \in Elems(fl)
    <3>1. fl[n] <= fl_merge => n <= k
      BY <1>0, <1>1, <1>4, <2>5, PosOrder
    <3>2. fl[n] \in Elems(fl)
      BY <2>5 DEF Elems
    <3> QED
      BY <2>5, <3>1, <3>2
  <2> HIDE DEF k
  <2>7. next_free = fl[n]
    BY <2>5 DEF next_free, k
  <2> HIDE DEF n
  <2>8. fl[n] \in Nat /\ bp <= fl[n] /\ bp # fl[n]
    <3>1. fl[n] \in Nat /\ bp # fl[n] /\ ~ (fl[n] < bp)
      BY <1>0, <1>1, <1>4, <2>6
    <3> QED
      BY <1>2, <3>1
  <2>9. After(bp) <= fl[n]
    BY <1>2, <1>3, <1>4, <1>5, <2>6, <2>8
  <2>10. n < j => fl[n] < fl[j]
    BY <1>1, <2>5 DEF Ascending
  <2>11. n = j
    BY <1>5, <2>1, <2>5, <2>8, <2>9, <2>10
  <2> QED
    BY <2>1, <2>7, <2>11 DEF joins
<1>7. end \notin Elems(fl)
  BY <1>1, <1>2, <1>6
<1>8. ASSUME NEW y \in Elems(fl), After(y) = start PROVE y = fl_merge
  <2>1. y \in DOMAIN wosize /\ y \in Nat /\ wosize[y] \in Nat /\ y + wosize[y] + 1 = start
    BY <1>0, <1>4, <1>8 DEF After, Whsize
  <2>2. y < bp
    BY <1>2, <2>1
  <2>3. y <= fl_merge
    BY <1>1, <2>2
  <2>4. fl_merge \in Elems(fl) /\ fl_merge \in Nat
    BY <1>0, <1>4, <2>1, <2>3, <1>3 DEF Fl_head
  <2>5. fl_merge < bp
    BY <1>1, <2>4
  <2>6. fl_merge # start
    BY <1>4, <2>4
  <2>7. y < fl_merge => start <= fl_merge
    BY <1>3, <1>4, <2>1, <2>4
  <2> QED
    BY <1>2, <2>1, <2>3, <2>4, <2>5, <2>6, <2>7
<1> QED
  BY <1>6, <1>7, <1>8 DEF bp

\* fl_merge_block keeps the order, and leaves no free block next to another.
LEMMA MergeOrdered ==
  ASSUME IInv, gc_phase = "sweep", gc_sweep_hp < End(chunk), color[gc_sweep_hp] = "white",
         Ordered(fl, fl_merge, gc_phase, gc_sweep_hp, wosize),
         fl_merge_block(gc_sweep_hp), gc_sweep_hp' = sweep_next(gc_sweep_hp)
  PROVE  Ordered(fl', fl_merge', gc_phase, gc_sweep_hp', wosize')
<1> DEFINE bp == gc_sweep_hp
           s  == fl_merge'
           V  == wosize'
<1>0. PICK start, end, list : Outcome(bp, start, end, list)
  BY MergeOutcome
<1>1. Merging(bp, start, end, list) /\ gc_sweep_hp' = end
      /\ list = IF joins(bp) THEN unlink(fl, Pos(fl, fl_merge) + 1) ELSE fl
  BY <1>0 DEF Outcome
<1>2. /\ heap \in SUBSET Chunks /\ Tiled(heap, wosize)
      /\ \A h \in DOMAIN wosize : h \in Nat /\ wosize[h] \in Nat
      /\ fl \in Seq(DOMAIN wosize) /\ Elems(fl) = Blue(wosize, color)
      /\ fl_merge \in Elems(fl) \cup {Fl_head}
  BY Unfold
<1>3. /\ Ascending(fl) /\ \A x, y \in Elems(fl) : x + wosize[x] + 1 # y
      /\ \A x \in Elems(fl) : x <= fl_merge <=> x < bp
  BY DEF Ordered
<1>4. /\ bp \in DOMAIN wosize /\ start \in DOMAIN wosize /\ bp \in Nat /\ start \in Nat /\ end \in Nat
      /\ start <= bp /\ bp < end /\ (start = bp \/ start + 1 = bp)
      /\ color[start] = "white" /\ color[bp] = "white"
      /\ \A h \in DOMAIN wosize : start <= h /\ h < end => h = start \/ h = bp \/ (joins(bp) /\ h = next_free)
      /\ list \in Seq(DOMAIN wosize)
      /\ Elems(list) = IF joins(bp) THEN Elems(fl) \ {next_free} ELSE Elems(fl)
      /\ fl_merge \in Elems(list) \cup {Fl_head}
  BY <1>1 DEF Merging
<1>5. /\ end \notin Elems(fl)
      /\ \A y \in Elems(fl) : After(y) = start => y = fl_merge
  BY <1>1, Neighbours
<1> HIDE DEF bp
<1>6. DOMAIN wosize \subseteq Nat \ {0}
  BY <1>2, InChunk, Zenon
<1>7. /\ Elems(fl) \subseteq DOMAIN wosize /\ bp \notin Elems(fl) /\ start \notin Elems(fl)
      /\ Elems(list) \subseteq Elems(fl) /\ list \in Seq(Nat) /\ list \in Seq(Nat \ {0}) /\ fl \in Seq(Nat)
  BY <1>2, <1>4, <1>6 DEF Blue
<1>8. Ascending(list)
  <2>1. CASE joins(bp)
    <3>1. Pos(fl, fl_merge) \in 0 .. Len(fl) /\ Len(fl) \in Nat
      BY <1>2, <1>6, PosFacts
    <3>2. Pos(fl, fl_merge) < Len(fl)
      <4>1. next_free # NULL
        <5>1. next_free = After(bp) /\ wosize[bp] \in Nat
          BY <1>2, <1>4, <2>1 DEF joins
        <5> QED
          BY <1>4, <5>1 DEF After, Whsize, NULL
      <4> QED
        BY <4>1 DEF next_free
    <3>3. Pos(fl, fl_merge) + 1 \in 1 .. Len(fl)
      BY <3>1, <3>2
    <3> QED
      BY <1>1, <1>3, <1>7, <2>1, <3>3, UnlinkAscending
  <2>2. CASE ~ joins(bp)
    BY <1>1, <1>3, <2>2
  <2> QED
    BY <2>1, <2>2
<1>9. \A x \in Elems(list) : /\ x \in Nat /\ (x <= fl_merge <=> x < bp)
                             /\ x < end <=> x < bp
                             /\ x < start <=> x < bp
  <2> TAKE x \in Elems(list)
  <2>1. x \in DOMAIN wosize /\ x \in Nat /\ x # bp /\ x # start /\ (x <= fl_merge <=> x < bp)
    BY <1>2, <1>3, <1>7
  <2>2. ~ (joins(bp) /\ x = next_free)
    BY <1>4
  <2>3. ~ (start <= x /\ x < end)
    BY <1>4, <2>1, <2>2
  <2> QED
    BY <1>4, <2>1, <2>3
<1>10. CASE /\ Into(start, end, list, s, V, color', fl')
            /\ fl_merge # Fl_head /\ After(fl_merge) = start
            /\ s = fl_merge /\ fl' = list
  <2>1. \A x \in Elems(fl') : x <= s <=> x < end
    BY <1>9, <1>10
  <2>2. /\ V[s] = end - s - 1 /\ s \in Nat
        /\ \A h \in DOMAIN V : h # s => V[h] = wosize[h]
        /\ DOMAIN V = {h \in DOMAIN wosize : h <= s \/ h >= end}
    BY <1>2, <1>10 DEF Into
  <2> HIDE DEF s, V
  <2>3. \A x \in Elems(list) : x # s => V[x] = wosize[x]
    <3> TAKE x \in Elems(list)
    <3>1. x \in DOMAIN wosize /\ x \in Nat /\ (x <= s \/ ~ (x < end))
      BY <1>7, <1>9, <1>10
    <3>2. x <= s \/ x >= end
      BY <1>4, <3>1
    <3> QED
      BY <2>2, <3>1, <3>2
  <2>4. ASSUME NEW x \in Elems(list), NEW y \in Elems(list), x + V[x] + 1 = y PROVE FALSE
    <3>1. CASE x = s
      <4>1. y = end
        BY <1>4, <2>2, <2>4, <3>1
      <4> QED
        BY <1>5, <1>7, <4>1
    <3>2. CASE x # s
      BY <1>3, <1>7, <2>3, <2>4, <3>2
    <3> QED
      BY <3>1, <3>2
  <2> QED
    BY <1>1, <1>8, <1>10, <2>1, <2>4 DEF Ordered, s, V
<1>11. CASE /\ Into(start, end, list, s, V, color', fl')
            /\ ~ (fl_merge # Fl_head /\ After(fl_merge) = start)
            /\ s = start /\ fl' = link(list, Pos(list, fl_merge) + 1, start)
  <2> DEFINE i == Pos(list, fl_merge) + 1
  <2>1. Pos(list, fl_merge) \in 0 .. Len(list) /\ Len(list) \in Nat
    BY <1>4, <1>7, PosFacts
  <2>2. i \in 1 .. Len(list) + 1
    BY <2>1
  <2>3. \A j \in 1 .. Len(list) : IF j < i THEN list[j] < start ELSE start < list[j]
    <3> TAKE j \in 1 .. Len(list)
    <3>1. j <= Pos(list, fl_merge) <=> list[j] <= fl_merge
      BY <1>4, <1>7, <1>8, PosOrder
    <3>2. j < i <=> list[j] <= fl_merge
      BY <2>1, <3>1
    <3>3. list[j] \in Elems(list)
      BY DEF Elems
    <3> HIDE DEF i
    <3>4. list[j] # start
      BY <1>7, <3>3
    <3> QED
      BY <1>4, <1>9, <3>2, <3>3, <3>4
  <2>4. fl' = link(list, i, start)
    BY <1>11
  <2> HIDE DEF i
  <2>5. Ascending(fl')
    BY <1>4, <1>7, <1>8, <2>2, <2>3, <2>4, LinkAscending, ZenonT(30)
  <2>6. Elems(fl') = Elems(list) \cup {start}
    BY <1>11 DEF Into
  <2>7. \A x \in Elems(fl') : x <= start <=> x < end
    BY <1>4, <1>7, <1>9, <2>6
  <2>8. /\ V[start] = end - start - 1
        /\ \A h \in DOMAIN V : h # start => V[h] = wosize[h]
        /\ DOMAIN V = {h \in DOMAIN wosize : h <= start \/ h >= end}
    BY <1>11 DEF Into
  <2> HIDE DEF V
  <2>9. \A x \in Elems(list) : x # start /\ V[x] = wosize[x]
    <3> TAKE x \in Elems(list)
    <3>1. x \in DOMAIN wosize /\ x \in Nat /\ (x < start \/ ~ (x < end)) /\ x # start
      BY <1>7, <1>9
    <3>2. x <= start \/ x >= end
      BY <1>4, <3>1
    <3> QED
      BY <2>8, <3>1, <3>2
  <2>10. ASSUME NEW x \in Elems(fl'), NEW y \in Elems(fl'), x + V[x] + 1 = y PROVE FALSE
    <3>1. CASE x = start
      <4>1. y = end /\ y # start
        BY <1>4, <2>8, <2>10, <3>1
      <4> QED
        BY <1>5, <1>7, <2>6, <4>1
    <3>2. CASE x # start /\ y = start
      <4>1. x \in Elems(list) /\ x \in Elems(fl) /\ x \in DOMAIN wosize
        BY <1>7, <2>6, <3>2
      <4>2. x + wosize[x] + 1 = start /\ x \in Nat /\ wosize[x] \in Nat
        BY <1>2, <2>9, <2>10, <3>2, <4>1
      <4>3. After(x) = start
        BY <4>2 DEF After, Whsize
      <4>4. x = fl_merge /\ x # Fl_head
        BY <1>5, <1>6, <4>1, <4>3 DEF Fl_head
      <4> QED
        BY <1>11, <4>3, <4>4
    <3>3. CASE x # start /\ y # start
      BY <1>3, <1>7, <2>6, <2>9, <2>10, <3>3
    <3> QED
      BY <3>1, <3>2, <3>3
  <2> QED
    BY <1>1, <1>11, <2>5, <2>7, <2>10 DEF Ordered, V
<1>12. CASE /\ end = bp + 1 /\ ~ joins(bp)
            /\ UNCHANGED <<wosize, color, fl, fl_prev, fl_cur_size, fl_merge>>
  <2>1. \A x \in Elems(fl) : x <= fl_merge <=> x < end
    BY <1>2, <1>3, <1>4, <1>7, <1>12
  <2> QED
    BY <1>1, <1>3, <1>12, <2>1 DEF Ordered
<1> QED
  BY <1>0, <1>10, <1>11, <1>12 DEF Outcome

\* A free or a marked block is passed.
LEMMA PassOrdered ==
  ASSUME IInv, gc_phase = "sweep", gc_sweep_hp < End(chunk),
         Ordered(fl, fl_merge, gc_phase, gc_sweep_hp, wosize),
         NEW m, \/ color[gc_sweep_hp] = "blue" /\ m = gc_sweep_hp
                \/ color[gc_sweep_hp] = "black" /\ m = fl_merge
  PROVE  Ordered(fl, m, gc_phase, After(gc_sweep_hp), wosize)
<1> DEFINE hp == gc_sweep_hp
<1>0. /\ heap \in SUBSET Chunks /\ Tiled(heap, wosize)
      /\ \A h \in DOMAIN wosize : h \in Nat /\ wosize[h] \in Nat
      /\ Elems(fl) = Blue(wosize, color)
  BY Unfold
<1>1. /\ Ascending(fl) /\ \A x, y \in Elems(fl) : x + wosize[x] + 1 # y
      /\ \A x \in Elems(fl) : x <= fl_merge <=> x < hp
  BY DEF Ordered
<1>2. chunk \in heap /\ hp \in Nat /\ hp \in DOMAIN wosize \cup {End(chunk)}
  BY DEF IInv, Swept
<1>3. End(chunk) \in Nat
  BY <1>0, <1>2, InChunk
<1>4. hp \in DOMAIN wosize /\ wosize[hp] \in Nat
  BY <1>0, <1>2, <1>3
<1>5. After(hp) = hp + wosize[hp] + 1
  BY <1>2, <1>4 DEF After, Whsize
<1> HIDE DEF hp
<1>6. ASSUME NEW x \in Elems(fl) PROVE x <= m <=> x < After(hp)
  <2>1. x \in DOMAIN wosize /\ x \in Nat /\ color[x] = "blue"
    BY <1>0 DEF Blue
  <2>2. hp < x => After(hp) <= x
    BY <1>0, <1>4, <1>5, <2>1 DEF Tiled
  <2>3. x <= hp <=> x < After(hp)
    BY <1>2, <1>4, <1>5, <2>1, <2>2
  <2>4. CASE color[hp] = "blue" /\ m = hp
    BY <2>3, <2>4
  <2>5. CASE color[hp] = "black" /\ m = fl_merge
    <3>1. x # hp
      BY <2>1, <2>5
    <3>2. x < hp <=> x <= hp
      BY <1>2, <2>1, <3>1
    <3> QED
      BY <1>1, <2>3, <2>5, <3>2
  <2> QED
    BY <2>4, <2>5 DEF hp
<1> QED
  BY <1>1, <1>6 DEF Ordered, hp

\* The sweeper goes to the next chunk: there is no block between the two.
LEMMA ChunkOrdered ==
  ASSUME IInv, sweep_chunk, Ordered(fl, fl_merge, gc_phase, gc_sweep_hp, wosize)
  PROVE  Ordered(fl, fl_merge, gc_phase', gc_sweep_hp', wosize)
<1> DEFINE Later == {c \in heap : c.base > chunk.base}
<1>0. /\ heap \in SUBSET Chunks /\ Tiled(heap, wosize)
      /\ \A h \in DOMAIN wosize : h \in Nat /\ wosize[h] \in Nat
      /\ Elems(fl) = Blue(wosize, color)
  BY Unfold
<1>1. /\ gc_phase = "sweep" /\ gc_sweep_hp = End(chunk)
      /\ IF Later = {}
         THEN gc_phase' = "idle"
         ELSE /\ chunk' = CHOOSE c \in Later : \A d \in Later : c.base <= d.base
              /\ gc_sweep_hp' = chunk'.base /\ gc_phase' = gc_phase
  BY DEF sweep_chunk
<1>2. /\ Ascending(fl) /\ \A x, y \in Elems(fl) : x + wosize[x] + 1 # y
      /\ \A x \in Elems(fl) : x <= fl_merge <=> x < gc_sweep_hp
  BY <1>1 DEF Ordered
<1>3. chunk \in heap
  BY <1>1 DEF IInv, Swept
<1>4. /\ \A c \in heap : c.base \in Nat /\ End(c) \in Nat /\ c.base < End(c)
      /\ \A c, d \in heap : c = d \/ End(c) < d.base \/ End(d) < c.base
  BY <1>0, InChunk, ZenonT(30)
<1>5. CASE Later = {}
  BY <1>1, <1>2, <1>5 DEF Ordered
<1>6. CASE Later # {}
  <2>1. chunk' \in Later /\ \A d \in Later : chunk'.base <= d.base
    <3>1. {c.base : c \in Later} \in SUBSET Nat /\ {c.base : c \in Later} # {}
      BY <1>4, <1>6
    <3>2. PICK n \in {c.base : c \in Later} : \A k \in {c.base : c \in Later} : n <= k
      BY <3>1, Smallest, Zenon
    <3>3. \E c \in Later : \A d \in Later : c.base <= d.base
      BY <3>2
    <3> QED
      BY <1>1, <1>6, <3>3
  <2>2. gc_sweep_hp' = chunk'.base /\ gc_phase' = gc_phase
    BY <1>1, <1>6
  <2> DEFINE q == chunk'
  <2> HIDE DEF q
  <2>3. q \in heap /\ q.base > chunk.base /\ \A d \in heap : d.base > chunk.base => q.base <= d.base
    BY <2>1 DEF q
  <2>4. ASSUME NEW x \in Elems(fl) PROVE x < End(chunk) <=> x < q.base
    <3>1. x \in DOMAIN wosize /\ x \in Nat /\ wosize[x] \in Nat
      BY <1>0 DEF Blue
    <3>2. PICK d \in heap : d.base <= x /\ x + wosize[x] + 1 <= End(d)
      BY <1>0, <3>1 DEF Tiled
    <3>3. /\ chunk.base \in Nat /\ End(chunk) \in Nat /\ q.base \in Nat /\ d.base \in Nat /\ End(d) \in Nat
          /\ chunk.base < End(chunk) /\ d.base < End(d) /\ End(q) \in Nat /\ q.base < End(q)
      BY <1>3, <1>4, <2>3
    <3>4. End(chunk) < q.base
      BY <1>3, <1>4, <2>3, <3>3
    <3>5. d.base > chunk.base => q.base <= d.base
      BY <2>3
    <3>6. d = chunk \/ End(d) < chunk.base \/ d.base > chunk.base
      BY <1>3, <1>4, <3>3
    <3> QED
      BY <3>1, <3>2, <3>3, <3>4, <3>5, <3>6
  <2>5. \A x \in Elems(fl) : x <= fl_merge <=> x < q.base
    BY <1>1, <1>2, <2>4
  <2> QED
    BY <1>2, <2>2, <2>5 DEF Ordered, q
<1> QED
  BY <1>5, <1>6

=============================================================================
