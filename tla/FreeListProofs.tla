--------------------------- MODULE FreeListProofs ---------------------------
(***************************************************************************)
(* The theorems about the free list, for every set of chunks the system    *)
(* may give and every set of sizes the program may ask for:                *)
(*                                                                         *)
(* - the heap stays tiled by blocks and the list is the list of the free   *)
(*   ones (invariant IInv of FreeListLemmas);                              *)
(* - while chunks arrive in address order, the list is in address order    *)
(*   and no free block is next to another (OInv, which rests on IInv);     *)
(* - the free list implements module Allocator.                            *)
(***************************************************************************)
EXTENDS FreeListAllocProofs, FreeListSweepProofs, FiniteSetTheorems

USE SMTT(30)

\* Every step of the program and of the collector keeps the invariant.
LEMMA NextIInv ==
  ASSUME IInv, [Next]_vars
  PROVE  IInv'
<1>1. ASSUME NEW wo \in Sizes, alloc_shr(wo) PROVE IInv'
  BY <1>1, AllocCase, AllocateStep
<1>2. ASSUME NEW wo \in Sizes, NEW c \in Chunks \ heap, alloc_shr_expand(wo, c) PROVE IInv'
  BY <1>2, ExpandCase, AllocateStep
<1>3. ASSUME NEW h \in DOMAIN live, NEW wo \in Sizes, obj_truncate(h, wo) PROVE IInv'
  BY <1>3, TruncateStep
<1>4. ASSUME NEW Kept \in SUBSET DOMAIN live, start_sweep(Kept) PROVE IInv'
  BY <1>4, StartStep
<1>5. ASSUME sweep_block PROVE IInv'
  <2>1. /\ gc_phase = "sweep" /\ gc_sweep_hp < End(chunk)
        /\ UNCHANGED <<heap, gc_phase, chunk, live, upward>>
    BY <1>5 DEF sweep_block
  <2>2. \/ /\ color[gc_sweep_hp] = "white" /\ fl_merge_block(gc_sweep_hp)
           /\ gc_sweep_hp' = sweep_next(gc_sweep_hp)
        \/ /\ gc_sweep_hp' = After(gc_sweep_hp) /\ color[gc_sweep_hp] # "white"
           /\ UNCHANGED <<wosize, fl, fl_prev, fl_cur_size, last_fragment>>
           /\ \/ color[gc_sweep_hp] = "blue" /\ fl_merge' = gc_sweep_hp /\ color' = color
              \/ color[gc_sweep_hp] = "black" /\ fl_merge' = fl_merge
                 /\ color' = [color EXCEPT ![gc_sweep_hp] = "white"]
    BY <1>5 DEF sweep_block, blockVars, listVars
  <2> QED
    BY <2>1, <2>2, MergeStep, PassStep
<1>6. ASSUME sweep_chunk PROVE IInv'
  BY <1>6, ChunkStep
<1>7. ASSUME UNCHANGED vars PROVE IInv'
  BY <1>7 DEF IInv, vars, blockVars, listVars, sweepVars
<1> QED
  BY <1>1, <1>2, <1>3, <1>4, <1>5, <1>6, <1>7 DEF Next

\* The initial heap is one chunk, and one free block.
LEMMA InitIInv == Init => IInv
<1> SUFFICES ASSUME Init PROVE IInv
  OBVIOUS
<1> DEFINE b == First.base
           e == b + (First.size - 1)
<1>1. First \in Chunks /\ b \in Nat \ {0} /\ First.size \in Nat \ {0, 1} /\ End(First) = b + First.size
  BY ChunksAssumption DEF End
<1>2. /\ heap = {First} /\ DOMAIN wosize = {b} /\ wosize[b] = First.size - 1
      /\ DOMAIN color = {b} /\ color[b] = "blue" /\ fl = <<b>>
      /\ fl_prev = Fl_head /\ fl_merge = b /\ fl_cur_size = First.size /\ last_fragment = NULL
      /\ gc_phase = "idle" /\ gc_sweep_hp = 0 /\ DOMAIN live = {} /\ upward = TRUE
      /\ live = [h \in {} |-> 0]
  BY DEF Init
<1> HIDE DEF b
<1>3. Tiled(heap, wosize)
  BY <1>1, <1>2 DEF Tiled, b
<1>4. fl \in Seq(DOMAIN wosize) /\ Once(fl) /\ Elems(fl) = {b}
  BY <1>2 DEF Once, Elems
<1>5. Blue(wosize, color) = {b}
  BY <1>2 DEF Blue
<1>6. WordsOf(Elems(fl), wosize) = b .. e
  BY <1>2, <1>4 DEF WordsOf
<1>7. b \in Int /\ e \in Int /\ ~ (b > e) /\ e - b + 1 = First.size
  BY <1>1
<1>8. Counted(b .. e, First.size)
  <2> DEFINE f == [i \in 1 .. First.size |-> b + (i - 1)]
  <2>1. f \in [1 .. First.size -> b .. e] /\ \A i, j \in 1 .. First.size : f[i] = f[j] => i = j
    BY <1>1
  <2>2. ASSUME NEW x \in b .. e PROVE \E i \in 1 .. First.size : f[i] = x
    <3>1. x - b + 1 \in 1 .. First.size /\ f[x - b + 1] = x
      BY <1>1
    <3> QED
      BY <3>1
  <2> HIDE DEF f
  <2>3. \E g \in [1 .. First.size -> b .. e] :
           /\ \A i, j \in 1 .. First.size : g[i] = g[j] => i = j
           /\ \A x \in b .. e : \E i \in 1 .. First.size : g[i] = x
    BY <2>1, <2>2, Zenon
  <2>4. First.size \in Nat
    BY <1>1
  <2> QED
    BY <2>3, <2>4, Zenon DEF Counted
<1>9. wosize[b] >= 1
  BY <1>1, <1>2
<1>10. Linked(heap, wosize, color, fl, fl_prev, fl_merge, fl_cur_size)
  BY <1>2, <1>3, <1>4, <1>5, <1>6, <1>8, <1>9 DEF Linked
<1>11. Held(wosize, color, live, gc_phase, gc_sweep_hp)
  BY <1>2 DEF Held
<1>12. Swept(heap, wosize, color, live, gc_phase, chunk, gc_sweep_hp, last_fragment)
  BY <1>2 DEF Swept
<1> QED
  BY <1>1, <1>2, <1>10, <1>11, <1>12 DEF IInv

\* The invariant says what HeapTiled and FreeListExact say.
LEMMA IInvTiled == IInv => HeapTiled
<1> SUFFICES ASSUME IInv PROVE HeapTiled
  OBVIOUS
<1>0. /\ heap \in SUBSET Chunks /\ Tiled(heap, wosize) /\ DOMAIN color = DOMAIN wosize
      /\ \A h \in DOMAIN wosize : h \in Nat /\ wosize[h] \in Nat
      /\ \A h \in DOMAIN wosize : color[h] \in {"white", "black", "blue"}
      /\ fl \in Seq(DOMAIN wosize) /\ Elems(fl) = Blue(wosize, color)
      /\ fl_prev \in Elems(fl) \cup {Fl_head} /\ fl_merge \in Elems(fl) \cup {Fl_head}
      /\ Counted(WordsOf(Elems(fl), wosize), fl_cur_size)
  BY Unfold
<1>1. /\ \A c \in heap : /\ c.base \in Nat /\ End(c) \in Nat
                         /\ \A h \in DOMAIN wosize : c.base <= h /\ h < End(c) => h + wosize[h] + 1 <= End(c)
  BY <1>0, InChunk, Zenon
<1>2. DOMAIN wosize \subseteq Words
  <2> SUFFICES ASSUME NEW h \in DOMAIN wosize PROVE h \in Words
    OBVIOUS
  <2>1. PICK c \in heap : c.base <= h /\ h + wosize[h] + 1 <= End(c)
    BY <1>0 DEF Tiled
  <2>2. h \in c.base .. End(c) - 1 /\ c \in Chunks
    BY <1>0, <1>1, <2>1
  <2> QED
    BY <2>2 DEF Words
<1>3. fl_cur_size \in Nat
  BY <1>0 DEF Counted
<1>4. TypeOK
  <2>1. gc_phase \in {"idle", "sweep"} /\ upward \in BOOLEAN
    BY DEF IInv, Swept
  <2>2. {fl_prev, fl_merge} \subseteq DOMAIN wosize \cup {Fl_head}
    BY <1>0 DEF Blue
  <2> QED
    BY <1>0, <1>2, <1>3, <2>1, <2>2 DEF TypeOK, Headers
<1>5. HeapParses
  <2> SUFFICES ASSUME NEW c \in heap, NEW h \in DOMAIN wosize, c.base <= h, h < End(c)
               PROVE  After(h) = End(c) \/ (After(h) < End(c) /\ After(h) \in DOMAIN wosize)
    BY <1>0 DEF HeapParses, Headers, Tiled
  <2>1. After(h) = h + wosize[h] + 1 /\ After(h) \in Nat
    BY <1>0 DEF After, Whsize
  <2>2. h + wosize[h] + 1 = End(c) \/ h + wosize[h] + 1 \in DOMAIN wosize
    BY <1>0, Zenon DEF Tiled
  <2> QED
    BY <1>1, <2>1, <2>2
<1>6. SweepAtHeader
  BY DEF SweepAtHeader, Headers, IInv, Swept
<1> QED
  BY <1>4, <1>5, <1>6 DEF HeapTiled

\* Counted is what Cardinality says of a finite set.
LEMMA CountedCardinality ==
  ASSUME NEW S, NEW n, Counted(S, n)
  PROVE  Cardinality(S) = n
<1>1. n \in Nat
  BY DEF Counted
<1>2. PICK f \in [1 .. n -> S] : /\ \A i, j \in 1 .. n : f[i] = f[j] => i = j
                                /\ \A x \in S : \E i \in 1 .. n : f[i] = x
  BY DEF Counted
<1>3. f \in Bijection(1 .. n, S)
  BY <1>2 DEF Bijection, Injection, Surjection, IsInjective
<1>4. ExistsBijection(1 .. n, S)
  BY <1>3 DEF ExistsBijection
<1> QED
  BY <1>1, <1>4, FS_CountingElements, Zenon

\* The invariant says that the list holds each free block once, and that
\* fl_cur_size is their size.
LEMMA IInvExact == IInv => FreeListExact
<1> SUFFICES ASSUME IInv PROVE FreeListExact
  OBVIOUS
<1>0. /\ fl \in Seq(DOMAIN wosize) /\ Once(fl) /\ Elems(fl) = Blue(wosize, color)
      /\ \A h \in DOMAIN wosize : h \in Nat /\ wosize[h] \in Nat
      /\ fl_prev \in Elems(fl) \cup {Fl_head} /\ fl_merge \in Elems(fl) \cup {Fl_head}
      /\ Counted(WordsOf(Elems(fl), wosize), fl_cur_size)
  BY Unfold
<1>1. Elems(fl) = {fl[i] : i \in 1 .. Len(fl)}
  BY DEF Elems
<1>2. Cardinality(Elems(fl)) = Len(fl)
  <2>1. fl \in [1 .. Len(fl) -> Elems(fl)] /\ Len(fl) \in Nat
    BY <1>0 DEF Elems
  <2>2. \A i, j \in 1 .. Len(fl) : fl[i] = fl[j] => i = j
    BY <1>0 DEF Once
  <2>3. \A x \in Elems(fl) : \E i \in 1 .. Len(fl) : fl[i] = x
    BY DEF Elems
  <2>4. Counted(Elems(fl), Len(fl))
    BY <2>1, <2>2, <2>3, Zenon DEF Counted
  <2> QED
    BY <2>4, CountedCardinality, Zenon
<1>5. Cardinality(WordsOf(Elems(fl), wosize)) = fl_cur_size
  BY <1>0, CountedCardinality, Zenon
<1>3. \A h \in Elems(fl) : h .. After(h) - 1 = h .. h + wosize[h]
  <2> TAKE h \in Elems(fl)
  <2>1. h \in Nat /\ wosize[h] \in Nat
    BY <1>0 DEF Blue
  <2>2. After(h) - 1 = h + wosize[h]
    BY <2>1 DEF After, Whsize
  <2> QED
    BY <2>2
<1>4. WordsOf(Elems(fl), wosize) = UNION {h .. After(h) - 1 : h \in Elems(fl)}
  <2>1. {h .. h + wosize[h] : h \in Elems(fl)} = {h .. After(h) - 1 : h \in Elems(fl)}
    BY <1>3
  <2> QED
    BY <2>1, Zenon DEF WordsOf
<1> HIDE DEF Elems
<1> QED
  BY <1>0, <1>1, <1>2, <1>5, <1>4, Zenon DEF FreeListExact, Headers, Blue

\* The chunks stay tiled by blocks and the sweeper stands at a header, whatever
\* fl_allocate, fl_add_block, fl_merge_block and Obj.truncate do.
THEOREM HeapStaysTiled == Spec => []HeapTiled
<1>1. Init => IInv
  BY InitIInv
<1>2. IInv /\ [Next]_vars => IInv'
  BY NextIInv
<1>3. IInv => HeapTiled
  BY IInvTiled
<1> QED
  BY <1>1, <1>2, <1>3, PTL DEF Spec

\* The free list is always the list of the blue blocks, each once, and
\* fl_cur_size their size: what fl_check asserts, for every heap.
THEOREM ListStaysExact == Spec => []FreeListExact
<1>1. Init => IInv
  BY InitIInv
<1>2. IInv /\ [Next]_vars => IInv'
  BY NextIInv
<1>3. IInv => FreeListExact
  BY IInvExact
<1> QED
  BY <1>1, <1>2, <1>3, PTL DEF Spec

-----------------------------------------------------------------------------
(* The order of the list.                                                  *)

\* Every step keeps the order, while chunks arrive in address order.
LEMMA NextOInv ==
  ASSUME IInv, OInv, [Next]_vars
  PROVE  OInv'
<1> SUFFICES ASSUME upward' PROVE Ordered(fl', fl_merge', gc_phase', gc_sweep_hp', wosize')
  BY DEF OInv
<1> DEFINE Ord == Ordered(fl, fl_merge, gc_phase, gc_sweep_hp, wosize)
<1>1. ASSUME NEW wo \in Sizes, alloc_shr(wo) PROVE OInv'
  BY <1>1, AllocCase, AllocateStep
<1>2. ASSUME NEW wo \in Sizes, NEW c \in Chunks \ heap, alloc_shr_expand(wo, c) PROVE OInv'
  BY <1>2, ExpandCase, AllocateStep
<1>3. ASSUME NEW h \in DOMAIN live, NEW wo \in Sizes, obj_truncate(h, wo)
      PROVE  Ordered(fl', fl_merge', gc_phase', gc_sweep_hp', wosize')
  <2>1. UNCHANGED <<fl, fl_merge, gc_phase, gc_sweep_hp, upward>>
    BY <1>3, Zenon DEF obj_truncate, listVars, sweepVars
  <2>2. Ord
    BY <2>1 DEF OInv
  <2>3. Ordered(fl, fl_merge, gc_phase, gc_sweep_hp, wosize')
    BY <1>3, <2>2, TruncateOrdered
  <2> QED
    BY <2>1, <2>3
<1>4. ASSUME NEW Kept \in SUBSET DOMAIN live, start_sweep(Kept)
      PROVE  Ordered(fl', fl_merge', gc_phase', gc_sweep_hp', wosize')
  <2>1. UNCHANGED <<fl, wosize, upward>>
    BY <1>4, ZenonT(30) DEF start_sweep
  <2>2. Ord
    BY <2>1 DEF OInv
  <2>3. Ordered(fl, fl_merge', gc_phase', gc_sweep_hp', wosize)
    BY <1>4, <2>2, StartOrdered
  <2> QED
    BY <2>1, <2>3
<1>5. ASSUME sweep_block
      PROVE  Ordered(fl', fl_merge', gc_phase', gc_sweep_hp', wosize')
  <2>1. /\ gc_phase = "sweep" /\ gc_sweep_hp < End(chunk) /\ UNCHANGED <<gc_phase, upward>>
        /\ \/ /\ color[gc_sweep_hp] = "white" /\ fl_merge_block(gc_sweep_hp)
              /\ gc_sweep_hp' = sweep_next(gc_sweep_hp)
           \/ /\ gc_sweep_hp' = After(gc_sweep_hp) /\ UNCHANGED <<wosize, fl>>
              /\ \/ color[gc_sweep_hp] = "blue" /\ fl_merge' = gc_sweep_hp
                 \/ color[gc_sweep_hp] = "black" /\ fl_merge' = fl_merge
    BY <1>5, ZenonT(30) DEF sweep_block, blockVars, listVars
  <2>2. Ord
    BY <2>1 DEF OInv
  <2>3. CASE /\ color[gc_sweep_hp] = "white" /\ fl_merge_block(gc_sweep_hp)
             /\ gc_sweep_hp' = sweep_next(gc_sweep_hp)
    BY <2>1, <2>2, <2>3, MergeOrdered
  <2>4. CASE /\ gc_sweep_hp' = After(gc_sweep_hp) /\ UNCHANGED <<wosize, fl>>
             /\ \/ color[gc_sweep_hp] = "blue" /\ fl_merge' = gc_sweep_hp
                \/ color[gc_sweep_hp] = "black" /\ fl_merge' = fl_merge
    <3>1. Ordered(fl, fl_merge', gc_phase, After(gc_sweep_hp), wosize)
      BY <2>1, <2>2, <2>4, PassOrdered
    <3> QED
      BY <2>1, <2>4, <3>1
  <2> QED
    BY <2>1, <2>3, <2>4
<1>6. ASSUME sweep_chunk
      PROVE  Ordered(fl', fl_merge', gc_phase', gc_sweep_hp', wosize')
  <2>1. UNCHANGED <<fl, fl_merge, wosize, upward>>
    BY <1>6, ZenonT(30) DEF sweep_chunk, blockVars, listVars
  <2>2. Ord
    BY <2>1 DEF OInv
  <2>3. Ordered(fl, fl_merge, gc_phase', gc_sweep_hp', wosize)
    BY <1>6, <2>2, ChunkOrdered
  <2> QED
    BY <2>1, <2>3
<1>7. ASSUME UNCHANGED vars
      PROVE  Ordered(fl', fl_merge', gc_phase', gc_sweep_hp', wosize')
  BY <1>7 DEF vars, blockVars, listVars, sweepVars, OInv
<1> QED
  BY <1>1, <1>2, <1>3, <1>4, <1>5, <1>6, <1>7 DEF Next, OInv

\* One block is in order.
LEMMA InitOInv == Init => OInv
<1> SUFFICES ASSUME Init PROVE Ordered(fl, fl_merge, gc_phase, gc_sweep_hp, wosize)
  BY DEF OInv
<1> DEFINE b == First.base
<1>1. /\ b \in Nat /\ First.size \in Nat \ {0, 1} /\ wosize[b] = First.size - 1 /\ fl = <<b>>
      /\ gc_phase = "idle"
  BY ChunksAssumption DEF Init
<1> HIDE DEF b
<1>2. Elems(fl) = {b} /\ Len(fl) = 1
  BY <1>1 DEF Elems
<1>3. Ascending(fl)
  BY <1>2 DEF Ascending
<1>4. b + wosize[b] + 1 # b
  BY <1>1
<1> QED
  BY <1>1, <1>2, <1>3, <1>4 DEF Ordered

\* "The free-list is kept sorted by increasing addresses" (freelist.c:24), and
\* fl_merge is its last block before the sweeper, as long as chunks arrive in
\* address order.
THEOREM ListStaysOrdered == Spec => []AddressOrdered
<1>1. Init => IInv /\ OInv
  BY InitIInv, InitOInv
<1>2. IInv /\ OInv /\ [Next]_vars => IInv' /\ OInv'
  BY NextIInv, NextOInv
<1>3. IInv /\ OInv => AddressOrdered
  <2> SUFFICES ASSUME IInv, OInv, upward
               PROVE  /\ \A i, j \in 1 .. Len(fl) : i < j => fl[i] < fl[j]
                      /\ gc_phase = "sweep" =>
                           \A i \in 1 .. Len(fl) : i <= Pos(fl, fl_merge) <=> fl[i] < gc_sweep_hp
    BY DEF AddressOrdered, Sorted, MergePoint
  <2>1. Ordered(fl, fl_merge, gc_phase, gc_sweep_hp, wosize)
    BY DEF OInv
  <2>2. /\ heap \in SUBSET Chunks /\ Tiled(heap, wosize) /\ fl \in Seq(DOMAIN wosize)
        /\ fl_merge \in Elems(fl) \cup {Fl_head}
    BY Unfold
  <2>3. DOMAIN wosize \subseteq Nat \ {0}
    BY <2>2, InChunk
  <2>4. ASSUME gc_phase = "sweep", NEW i \in 1 .. Len(fl)
        PROVE  i <= Pos(fl, fl_merge) <=> fl[i] < gc_sweep_hp
    <3>1. fl[i] \in Elems(fl) /\ Ascending(fl)
      BY <2>1 DEF Elems, Ordered
    <3>2. fl[i] <= fl_merge <=> fl[i] < gc_sweep_hp
      BY <2>1, <2>4, <3>1 DEF Ordered
    <3>3. fl \in Seq(Nat \ {0})
      BY <2>2, <2>3
    <3> QED
      BY <2>2, <3>1, <3>2, <3>3, PosOrder
  <2> QED
    BY <2>1, <2>4 DEF Ordered, Ascending
<1> QED
  BY <1>1, <1>2, <1>3, PTL DEF Spec

\* As long as chunks arrive in address order, adjacent free blocks are always
\* merged: fl_merge_block finds both neighbours of a block in the list.
THEOREM AdjacentMerged == Spec => []NoAdjacentFree
<1>1. Init => IInv /\ OInv
  BY InitIInv, InitOInv
<1>2. IInv /\ OInv /\ [Next]_vars => IInv' /\ OInv'
  BY NextIInv, NextOInv
<1>3. IInv /\ OInv => NoAdjacentFree
  <2> SUFFICES ASSUME IInv, OInv, upward, NEW i \in 1 .. Len(fl), NEW j \in 1 .. Len(fl)
               PROVE  After(fl[i]) # fl[j]
    BY DEF NoAdjacentFree
  <2>1. fl[i] \in Elems(fl) /\ fl[j] \in Elems(fl)
    BY DEF Elems
  <2>2. fl[i] + wosize[fl[i]] + 1 # fl[j]
    BY <2>1 DEF OInv, Ordered
  <2>3. fl[i] \in Nat /\ wosize[fl[i]] \in Nat
    BY <2>1, Unfold DEF Blue
  <2> QED
    BY <2>2, <2>3 DEF After, Whsize
<1> QED
  BY <1>1, <1>2, <1>3, PTL DEF Spec

-----------------------------------------------------------------------------
(* The free list with its clients implements module Allocator.             *)

\* Under the invariant the header of a block says the size the program knows.
LEMMA HeldIsLive == IInv => held = live
BY DEF IInv, Held, held, Headers

\* Every step of the free list is a step of the allocator, or changes nothing
\* the program sees.
LEMMA StepRefines ==
  ASSUME IInv, IInv', [Next]_vars
  PROVE  [A!Next]_held
<1>0. held = live /\ held' = live'
  <2>1. held = live
    BY HeldIsLive
  <2>2. held' = live'
    BY DEF IInv, Held, held, Headers
  <2> QED
    BY <2>1, <2>2
<1>1. ASSUME NEW wo \in Sizes, NEW hp \in Words, Fresh(hp, wo) PROVE A!Next
  <2>1. A!allocate(hp, wo)
    BY <1>0, <1>1 DEF A!allocate, A!Extent, Put, Fresh
  <2> QED
    BY <2>1 DEF A!Next
<1>2. ASSUME NEW wo \in Sizes, alloc_shr(wo) PROVE A!Next
  BY <1>1, <1>2, AllocCase, AllocateStep
<1>3. ASSUME NEW wo \in Sizes, NEW c \in Chunks \ heap, alloc_shr_expand(wo, c) PROVE A!Next
  BY <1>1, <1>3, ExpandCase, AllocateStep
<1>4. ASSUME NEW h \in DOMAIN live, NEW wo \in Sizes, obj_truncate(h, wo) PROVE A!Next
  <2>1. A!truncate(h, wo)
    BY <1>0, <1>4 DEF A!truncate, obj_truncate
  <2> QED
    BY <1>0, <2>1 DEF A!Next
<1>5. ASSUME NEW Kept \in SUBSET DOMAIN live, start_sweep(Kept) PROVE A!Next
  <2>1. A!release(Kept)
    BY <1>0, <1>5 DEF A!release, start_sweep
  <2> QED
    BY <1>0, <2>1 DEF A!Next
<1>6. ASSUME sweep_block \/ sweep_chunk \/ UNCHANGED vars PROVE held' = held
  BY <1>0, <1>6 DEF sweep_block, sweep_chunk, vars
<1> QED
  BY <1>2, <1>3, <1>4, <1>5, <1>6 DEF Next

\* fl_allocate, fl_add_block, fl_merge_block and the sweep together implement
\* the allocator the program and the marker rely on.
THEOREM Refinement == Spec => AllocatorSpec
<1>1. Init => IInv
  BY InitIInv
<1>2. IInv /\ [Next]_vars => IInv'
  BY NextIInv
<1>3. Init => A!Init
  <2> SUFFICES ASSUME Init PROVE held = [h \in {} |-> 0]
    BY DEF A!Init
  <2>1. held = live
    BY InitIInv, HeldIsLive
  <2> QED
    BY <2>1 DEF Init
<1>4. IInv /\ IInv' /\ [Next]_vars => [A!Next]_held
  BY StepRefines
<1> QED
  BY <1>1, <1>2, <1>3, <1>4, PTL DEF Spec, AllocatorSpec, A!Spec

\* A step of the allocator keeps its blocks apart: a new block is taken away
\* from all others, the others only shrink or go.
LEMMA NextDisjoint ==
  ASSUME A!Addresses, A!TypeOK, A!Disjoint, [A!Next]_held
  PROVE  A!TypeOK' /\ A!Disjoint'
<1>1. ASSUME NEW h \in Words, NEW wo \in Sizes, A!allocate(h, wo)
      PROVE  A!TypeOK' /\ A!Disjoint'
  <2>1. DOMAIN held' = DOMAIN held \cup {h}
    BY <1>1 DEF A!allocate
  <2>2. \A g \in DOMAIN held' : held'[g] = IF g = h THEN wo ELSE held[g]
    BY <1>1 DEF A!allocate
  <2>3. A!TypeOK'
    BY <1>1, <2>1, <2>2 DEF A!Addresses, A!TypeOK, A!allocate
  <2>4. ASSUME NEW g \in DOMAIN held, g # h
        PROVE  A!Extent(g, held'[g]) \cap A!Extent(h, held'[h]) = {}
    BY <1>1, <2>1, <2>2, <2>4 DEF A!allocate
  <2>5. A!Disjoint'
    BY <2>1, <2>2, <2>4 DEF A!Disjoint
  <2> QED
    BY <2>3, <2>5
<1>2. ASSUME NEW Kept \in SUBSET DOMAIN held, A!release(Kept)
      PROVE  A!TypeOK' /\ A!Disjoint'
  <2>1. DOMAIN held' = Kept /\ \A g \in Kept : held'[g] = held[g]
    BY <1>2 DEF A!release
  <2> QED
    BY <1>2, <2>1 DEF A!TypeOK, A!Disjoint, A!release
<1>3. ASSUME NEW h \in DOMAIN held, NEW wo \in Sizes, A!truncate(h, wo)
      PROVE  A!TypeOK' /\ A!Disjoint'
  <2>1. DOMAIN held' = DOMAIN held /\ held'[h] = wo
        /\ \A g \in DOMAIN held : g # h => held'[g] = held[g]
    BY <1>3 DEF A!truncate
  <2>2. A!TypeOK'
    BY ZenonT(60), <1>3, <2>1 DEF A!Addresses, A!TypeOK, A!truncate
  <2>3. \A g \in DOMAIN held : A!Extent(g, held'[g]) \subseteq A!Extent(g, held[g])
    BY <1>3, <2>1 DEF A!Addresses, A!TypeOK, A!truncate, A!Extent
  <2>4. A!Disjoint'
    BY <2>1, <2>3 DEF A!Disjoint
  <2> QED
    BY <2>2, <2>4
<1>4. ASSUME held' = held
      PROVE  A!TypeOK' /\ A!Disjoint'
  BY <1>4 DEF A!TypeOK, A!Disjoint
<1> QED
  BY <1>1, <1>2, <1>3, <1>4 DEF A!Next

\* What module Allocator promises: the words of a block that alloc_shr returned
\* are given to no other block until the program has lost it.
THEOREM AllocatorSafety == AllocatorSpec => []A!Disjoint
<1>1. A!Addresses
  <2>1. ASSUME NEW w \in Words PROVE w \in Int
    BY ChunksAssumption DEF Words
  <2> QED
    BY <2>1, SizesAssumption DEF A!Addresses
<1>2. A!Init => A!TypeOK /\ A!Disjoint
  BY DEF A!Init, A!TypeOK, A!Disjoint
<1>3. A!TypeOK /\ A!Disjoint /\ [A!Next]_held => A!TypeOK' /\ A!Disjoint'
  BY <1>1, NextDisjoint
<1> QED
  BY <1>2, <1>3, PTL DEF AllocatorSpec, A!Spec

\* Two blocks that fl_allocate has given and the program holds share no word,
\* headers included: the free list inherits it from the allocator.
THEOREM HeldApart == Spec => []A!Disjoint
BY Refinement, AllocatorSafety, PTL

=============================================================================
