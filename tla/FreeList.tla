------------------------------ MODULE FreeList ------------------------------
(***************************************************************************)
(* The free list of the major heap (byterun/freelist.c), with its clients: *)
(* alloc_shr and expand_heap (memory.c), sweep_slice (major_gc.c) and      *)
(* Obj.truncate (obj.c).  Here memory is made of words.  A block is known  *)
(* by the address of its header; the pointers of the code, which point     *)
(* just after the header, are one more.                                    *)
(*                                                                         *)
(* Marking is one step: which blocks it finds alive is the subject of      *)
(* module MajorGC.                                                         *)
(***************************************************************************)
EXTENDS Integers, FiniteSets, Sequences

CONSTANTS
  Chunks,    \* the chunks the system may give: [base, size], in words
  First,     \* the chunk of the initial heap
  Sizes      \* the sizes the program asks for

ASSUME ChunksAssumption ==
  /\ First \in Chunks
  /\ \A c \in Chunks : c.base \in Nat \ {0} /\ c.size \in Nat \ {0, 1}
  /\ \A c, d \in Chunks : c.base < d.base => c.base + c.size < d.base
  /\ \A c, d \in Chunks : c.base = d.base => c = d

ASSUME SizesAssumption == Sizes \subseteq Nat \ {0}

End(c) == c.base + c.size
Words == UNION {c.base .. End(c) - 1 : c \in Chunks}

Fl_head == 0       \* the sentinel: below every block, adjacent to none
NULL    == -1

VARIABLES
  heap,            \* the chunks of the heap
  wosize, color,   \* the headers, by address
  fl,              \* the free list, from the sentinel on
  fl_prev, fl_merge, fl_cur_size, last_fragment,
  gc_phase, chunk, gc_sweep_hp,
  live,            \* the blocks the program holds, with their sizes
  upward           \* every chunk came above the heap (history)

blockVars == <<wosize, color>>
listVars  == <<fl, fl_prev, fl_merge, fl_cur_size, last_fragment>>
sweepVars == <<gc_phase, chunk, gc_sweep_hp>>
vars == <<heap, blockVars, listVars, sweepVars, live, upward>>

\* Writing v at h.
Put(f, h, v) == [x \in DOMAIN f \cup {h} |-> IF x = h THEN v ELSE f[x]]

Headers == DOMAIN wosize
Whsize(h) == wosize[h] + 1
After(h) == h + Whsize(h)          \* the address just after the block

\* init_major_heap: the initial heap is one free block.
Init ==
  /\ heap = {First}
  /\ wosize = [h \in {First.base} |-> First.size - 1]
  /\ color = [h \in {First.base} |-> "blue"]
  /\ fl = <<First.base>>
  /\ fl_prev = Fl_head /\ fl_merge = First.base
  /\ fl_cur_size = First.size
  /\ last_fragment = NULL
  /\ gc_phase = "idle" /\ chunk = NULL /\ gc_sweep_hp = 0
  /\ live = [h \in {} |-> 0]
  /\ upward = TRUE

-----------------------------------------------------------------------------
(* The list.                                                               *)

\* The place of a block in the list; the sentinel comes before the first.
Pos(l, h) == IF h = Fl_head THEN 0 ELSE CHOOSE i \in 1 .. Len(l) : l[i] = h

At(l, i) == IF i = 0 THEN Fl_head ELSE l[i]

\* The list without its i-th block, and the list with h for its i-th block.
unlink(l, i) == SubSeq(l, 1, i - 1) \o SubSeq(l, i + 1, Len(l))
link(l, i, h) == SubSeq(l, 1, i - 1) \o <<h>> \o SubSeq(l, i, Len(l))

-----------------------------------------------------------------------------
(* Allocation.                                                             *)

\* Mutated form: the block at the sweep pointer is taken for swept.
allocation_color_after(h) ==
  IF gc_phase = "sweep" /\ h > gc_sweep_hp THEN "black" ELSE "white"

allocation_color(h) ==
  IF gc_phase = "sweep" /\ h >= gc_sweep_hp THEN "black" ELSE "white"

\* The order in which fl_allocate looks at the list: from fl_prev to the end,
\* then from the start.
SearchOrder(l, prev) ==
  LET p == Pos(l, prev)
  IN  [k \in 1 .. Len(l) |-> IF p + k <= Len(l) THEN p + k ELSE p + k - Len(l)]

\* The first block that is large enough, 0 if there is none.
Fit(l, prev, sz, wo) ==
  LET ord == SearchOrder(l, prev)
      ok == {k \in 1 .. Len(l) : sz[l[ord[k]]] >= wo}
  IN  IF ok = {} THEN 0 ELSE ord[CHOOSE k \in ok : \A j \in ok : k <= j]

\* The new block is right-justified in the free block.  Mutated form: the
\* header of the new block is not counted.
allocated_hp_short(cur, wo, sz) == cur + sz[cur] - wo - 1

allocated_hp(cur, wo, sz) == cur + sz[cur] - wo

\* fl_merge when cur leaves the list.  Mutated form: it keeps pointing to it.
detached_merge_kept(cur, prev, merge) == merge

detached_merge(cur, prev, merge) == IF merge = cur THEN prev ELSE merge

\* allocate_block on the i-th block of the list l, and the header that
\* alloc_shr then writes.  sz, col, merge and size are the state it starts
\* from: the present one, or the one expand_heap has left.
allocate_block(l, i, sz, col, merge, size, wo) ==
  LET cur  == l[i]
      prev == At(l, i - 1)
      hp   == allocated_hp(cur, wo, sz)
      new  == allocation_color(hp)
  IN  /\ IF sz[cur] < wo + 2
         THEN /\ fl' = unlink(l, i)
              /\ fl_cur_size' = size - (sz[cur] + 1)
              /\ fl_merge' = detached_merge(cur, prev, merge)
              /\ wosize' = Put(Put(sz, cur, 0), hp, wo)
              /\ color' = Put(Put(col, cur, "white"), hp, new)
         ELSE /\ fl' = l
              /\ fl_cur_size' = size - (wo + 1)
              /\ fl_merge' = merge
              /\ wosize' = Put(Put(sz, cur, sz[cur] - (wo + 1)), hp, wo)
              /\ color' = Put(col, hp, new)
      /\ fl_prev' = prev
      /\ live' = Put(live, hp, wo)

alloc_shr(wo) ==
  /\ Fit(fl, fl_prev, wosize, wo) # 0
  /\ allocate_block(fl, Fit(fl, fl_prev, wosize, wo), wosize, color, fl_merge,
                    fl_cur_size, wo)
  /\ UNCHANGED <<heap, last_fragment, sweepVars, upward>>

\* fl_add_block: where the new block goes, and fl_merge afterwards.  An empty
\* list has the sentinel for fl_last, a static variable, and the heap is above
\* the static data.
fl_add_block_at(h) ==
  IF fl = <<>> \/ h > fl[Len(fl)] THEN Len(fl)
  ELSE CHOOSE i \in 0 .. Len(fl) : /\ \A j \in 1 .. i : fl[j] < h
                                   /\ i = Len(fl) \/ fl[i + 1] >= h

\* The pointer to the new block is compared with gc_sweep_hp, which is the
\* address of a header.
fl_add_block_merge(h) ==
  LET i == fl_add_block_at(h)
  IN  IF i < Len(fl) /\ At(fl, i) = fl_merge /\ h + 1 <= gc_sweep_hp
      THEN h ELSE fl_merge

\* No block is large enough: the system gives a chunk.
alloc_shr_expand(wo, c) ==
  /\ Fit(fl, fl_prev, wosize, wo) = 0
  /\ c.size > wo
  /\ LET l   == link(fl, fl_add_block_at(c.base) + 1, c.base)
         sz  == Put(wosize, c.base, c.size - 1)
         col == Put(color, c.base, "blue")
     IN  allocate_block(l, Fit(l, fl_prev, sz, wo), sz, col,
                        fl_add_block_merge(c.base), fl_cur_size + c.size, wo)
  /\ heap' = heap \cup {c}
  /\ upward' = (upward /\ \A d \in heap : d.base < c.base)
  /\ UNCHANGED <<last_fragment, sweepVars>>

\* Obj.truncate: what is left over becomes a white block.
obj_truncate(h, wo) ==
  /\ wo \in 1 .. live[h] - 1
  /\ wosize' = Put(Put(wosize, h + 1 + wo, live[h] - wo - 1), h, wo)
  /\ color' = Put(color, h + 1 + wo, "white")
  /\ live' = [live EXCEPT ![h] = wo]
  /\ UNCHANGED <<heap, listVars, sweepVars, upward>>

-----------------------------------------------------------------------------
(* The collector.                                                          *)

\* Mutated form: fl_merge stays where the last sweep left it.
fl_init_merge_stale == last_fragment' = NULL /\ UNCHANGED fl_merge

fl_init_merge == last_fragment' = NULL /\ fl_merge' = Fl_head

\* A cycle is marked: the blocks the program has lost stay white, the others
\* are black, and the sweep starts from the first chunk (fl_init_merge).
start_sweep(Kept) ==
  /\ gc_phase = "idle"
  /\ live' = [h \in Kept |-> live[h]]
  /\ color' = [h \in Headers |-> IF h \in Kept THEN "black" ELSE color[h]]
  /\ gc_phase' = "sweep"
  /\ chunk' = CHOOSE c \in heap : \A d \in heap : c.base <= d.base
  /\ gc_sweep_hp' = chunk'.base
  /\ fl_init_merge
  /\ UNCHANGED <<heap, wosize, fl, fl_prev, fl_cur_size, upward>>

\* The free block after fl_merge, and whether the block bp ends where it
\* starts.  Mutated form: bp is never merged with it.
next_free ==
  LET i == Pos(fl, fl_merge) IN IF i < Len(fl) THEN fl[i + 1] ELSE NULL

joins_never(bp) == FALSE

joins(bp) == After(bp) = next_free

\* The end of the block that bp becomes; it is where the sweep goes on.
\* Mutated form: the sweep goes on after bp.
merged_end(bp) == IF joins(bp) THEN After(next_free) ELSE After(bp)

sweep_next_unmerged(bp) == After(bp)

sweep_next(bp) == merged_end(bp)

\* fl_prev when the block after bp leaves the list.  Mutated form: it stays.
merged_prev_kept(bp) == fl_prev

merged_prev(bp) == IF joins(bp) /\ fl_prev = next_free THEN fl_merge ELSE fl_prev

\* A new block goes just after fl_merge.  Mutated form: at the end.
insert_last(l, h) == link(l, Len(l) + 1, h)

insert(l, h) == link(l, Pos(l, fl_merge) + 1, h)

\* fl_merge_block: the block is merged with the fragment before it, with the
\* free block after it and with the free block before it, in this order, and
\* put in the list if it is still a block of its own and has room for a link.
fl_merge_block(bp) ==
  LET prev    == fl_merge
      frag    == last_fragment # NULL /\ last_fragment + 1 = bp
      start   == IF frag THEN last_fragment ELSE bp
      end     == merged_end(bp)
      list    == IF joins(bp) THEN unlink(fl, Pos(fl, prev) + 1) ELSE fl
      size    == fl_cur_size + Whsize(bp) + (IF frag THEN 1 ELSE 0)
      extends == prev # Fl_head /\ After(prev) = start
      Kept    == {h \in Headers : h < start \/ h >= end}
  IN  /\ fl_prev' = merged_prev(bp)
      /\ \/ /\ extends
            /\ wosize' = [h \in Kept |-> IF h = prev THEN end - prev - 1 ELSE wosize[h]]
            /\ color' = [h \in Kept |-> color[h]]
            /\ fl' = list /\ fl_cur_size' = size
            /\ UNCHANGED <<fl_merge, last_fragment>>
         \/ /\ ~ extends /\ end > start + 1
            /\ wosize' = Put([h \in Kept |-> wosize[h]], start, end - start - 1)
            /\ color' = Put([h \in Kept |-> color[h]], start, "blue")
            /\ fl' = insert(list, start) /\ fl_cur_size' = size
            /\ fl_merge' = start
            /\ UNCHANGED last_fragment
         \/ /\ ~ extends /\ end = start + 1
            /\ last_fragment' = start
            /\ fl' = list /\ fl_cur_size' = size - 1
            /\ UNCHANGED <<blockVars, fl_merge>>

sweep_block ==
  /\ gc_phase = "sweep" /\ gc_sweep_hp < End(chunk)
  /\ LET h == gc_sweep_hp
     IN  \/ /\ color[h] = "white"
            /\ fl_merge_block(h)
            /\ gc_sweep_hp' = sweep_next(h)
         \/ /\ color[h] = "blue"
            /\ fl_merge' = h /\ gc_sweep_hp' = After(h)
            /\ UNCHANGED <<blockVars, fl, fl_prev, fl_cur_size, last_fragment>>
         \/ /\ color[h] = "black"
            /\ color' = [color EXCEPT ![h] = "white"]
            /\ gc_sweep_hp' = After(h)
            /\ UNCHANGED <<wosize, listVars>>
  /\ UNCHANGED <<heap, gc_phase, chunk, live, upward>>

\* The next chunk, or the end of the heap.
sweep_chunk ==
  /\ gc_phase = "sweep" /\ gc_sweep_hp = End(chunk)
  /\ LET Later == {c \in heap : c.base > chunk.base}
     IN  IF Later = {}
         THEN gc_phase' = "idle" /\ chunk' = NULL /\ UNCHANGED gc_sweep_hp
         ELSE /\ chunk' = CHOOSE c \in Later : \A d \in Later : c.base <= d.base
              /\ gc_sweep_hp' = chunk'.base
              /\ UNCHANGED gc_phase
  /\ UNCHANGED <<heap, blockVars, listVars, live, upward>>

Next ==
  \/ \E wo \in Sizes : alloc_shr(wo)
  \/ \E wo \in Sizes, c \in Chunks \ heap : alloc_shr_expand(wo, c)
  \/ \E h \in DOMAIN live, wo \in Sizes : obj_truncate(h, wo)
  \/ \E Kept \in SUBSET DOMAIN live : start_sweep(Kept)
  \/ sweep_block \/ sweep_chunk

Spec == Init /\ [][Next]_vars

-----------------------------------------------------------------------------
(* Properties.                                                             *)

\* The state's type: headers at addresses of the heap, the free list a sequence of
\* headers, and fl_prev and fl_merge of freelist.c headers or Fl_head.
TypeOK ==
  /\ heap \subseteq Chunks
  /\ Headers \subseteq Words /\ DOMAIN color = Headers
  /\ \A h \in Headers : wosize[h] \in Nat /\ color[h] \in {"white", "black", "blue"}
  /\ fl \in Seq(Headers) /\ {fl_prev, fl_merge} \subseteq Headers \cup {Fl_head}
  /\ gc_phase \in {"idle", "sweep"} /\ fl_cur_size \in Nat /\ upward \in BOOLEAN

\* The headers parse: from the base of each chunk, the end of a block is the
\* header of the next one or the end of the chunk.  Sweeping, the rescan of
\* the heap and compaction all walk the heap by its headers.
HeapParses ==
  \A c \in heap :
    /\ c.base \in Headers
    /\ \A h \in Headers : c.base <= h /\ h < End(c) =>
         After(h) = End(c) \/ (After(h) < End(c) /\ After(h) \in Headers)

\* The sweep pointer is always at a header (or at the end of its chunk),
\* whatever has been allocated, merged or truncated around it.
SweepAtHeader ==
  gc_phase = "sweep" => gc_sweep_hp \in Headers \cup {End(chunk)}

\* The list holds each blue block once and nothing else, fl_prev and fl_merge
\* are in it, and fl_cur_size is its size (the assertions of fl_check).
FreeListExact ==
  /\ {fl[i] : i \in 1 .. Len(fl)} = {h \in Headers : color[h] = "blue"}
  /\ Cardinality({fl[i] : i \in 1 .. Len(fl)}) = Len(fl)
  /\ {fl_prev, fl_merge} \subseteq {fl[i] : i \in 1 .. Len(fl)} \cup {Fl_head}
  /\ fl_cur_size = Cardinality(UNION {h .. After(h) - 1 : h \in {fl[i] : i \in 1 .. Len(fl)}})

\* "The free-list is kept sorted by increasing addresses" (freelist.c:24), while
\* the system gives memory in increasing addresses.  (A chunk that comes after
\* the last free block and before the sweep pointer is linked without advancing
\* fl_merge, freelist.c:264, and the next swept block is linked before it.)
Sorted == upward => \A i, j \in 1 .. Len(fl) : i < j => fl[i] < fl[j]

\* "fl_merge is always the last free-list block before gc_sweep_hp"
\* (freelist.c:280); it is where fl_merge_block inserts.
MergePoint ==
  upward /\ gc_phase = "sweep" =>
    \A i \in 1 .. Len(fl) : i <= Pos(fl, fl_merge) <=> fl[i] < gc_sweep_hp

\* Sorting the list is what makes "the merging of adjacent free blocks
\* possible": no two free blocks stay next to each other.
NoAdjacentFree ==
  upward => \A i, j \in 1 .. Len(fl) : After(fl[i]) # fl[j]

\* The free list with its clients implements the allocator: a block it hands
\* out overlaps no block the program still holds, and the size in the header of
\* a block that is held changes only when the program truncates it.  A block
\* that has lost its header counts as one of no words.
held == [h \in DOMAIN live |-> IF h \in Headers THEN wosize[h] ELSE 0]
A == INSTANCE Allocator WITH live <- held
AllocatorSpec == A!Spec

\* The chunks are tiled by blocks, and the sweeper stands at one of their
\* headers or at the end of its chunk.
HeapTiled == TypeOK /\ HeapParses /\ SweepAtHeader

\* As long as chunks arrive in address order, the list is in address order and
\* fl_merge is its last block before the sweeper.
AddressOrdered == Sorted /\ MergePoint

=============================================================================
