------------------------------ MODULE MajorGC ------------------------------
(***************************************************************************)
(* The incremental major collector of the bytecode runtime                 *)
(* (byterun/major_gc.c) together with everything that touches the major    *)
(* heap between two of its slices: allocation (memory.c), the write        *)
(* barrier (Modify, memory.h), weak arrays (weak.c), finalised values      *)
(* (finalise.c) and forced lazy values (Forward_tag).                      *)
(*                                                                         *)
(* The heap is a row of blocks 1 .. N in address order.  A block is one    *)
(* object, or blue when it is in the free list; how free blocks are split  *)
(* and merged is the subject of module FreeList.  The minor heap, the      *)
(* stack, the globals and the local and global C roots are one set of      *)
(* block references, "roots": the major collector scans them at one        *)
(* moment only, start_cycle, when the minor heap is empty.                 *)
(***************************************************************************)
EXTENDS Integers, Sequences, FiniteSets

CONSTANTS
  N,          \* number of blocks of the major heap
  NF,         \* number of fields of a block (the link of a weak array excluded)
  GraySize,   \* initial gray_vals_size
  GrayLimit,  \* stat_heap_size / 128: gray_vals is not grown beyond it
  MaxRoots,   \* bound on the number of blocks the program holds at a time
  MaxFinal,   \* bound on the number of registered finalisation functions
  Uses        \* the features of the runtime the program uses

Features ==
  { "weak",           \* Weak.create, set, get
    "get_copy",       \* Weak.get_copy, while the collector is not marking
    "get_copy_mark",  \* Weak.get_copy, while it is
    "weak_in_block",  \* weak arrays are stored in blocks or finalised, and
                      \* not only held by the stack and the globals
    "finalise",       \* Gc.finalise
    "lazy",           \* lazy values are forced
    "finalise_lazy" } \* lazy values are finalised

ASSUME NAssumption == N \in Nat \ {0}
ASSUME NFAssumption == NF \in Nat \ {0}
ASSUME GrayAssumption == GraySize \in Nat \ {0, 1} /\ GrayLimit \in Nat
ASSUME BoundsAssumption == MaxRoots \in Nat /\ MaxFinal \in Nat
ASSUME UsesAssumption == Uses \subseteq Features

Block == 1 .. N
Field == 1 .. NF
Nil   == 0             \* an immediate value, or the empty weak pointer
Val   == Block \cup {Nil}
NULL  == 0             \* the null heap address
Limit == N + 1         \* the address just past the last block

VARIABLES
  color, tag, field,           \* headers and contents of the blocks
  roots,                       \* what the program holds
  gc_phase, gc_subphase,
  gray_vals, gray_vals_size,   \* the mark stack and its capacity
  heap_is_pure, markhp,        \* the rescan of the heap after an overflow
  gc_sweep_hp,
  weak_list, weak_prev,        \* weak_prev: how many arrays precede the cursor
  finalisable, finalising,     \* final_table, as sets of entries
  pending                      \* values the running loop has still to darken

heapVars  == <<color, tag, field>>
stackVars == <<gray_vals, gray_vals_size, heap_is_pure>>
phaseVars == <<gc_phase, gc_subphase, markhp, gc_sweep_hp>>
weakVars  == <<weak_list, weak_prev>>
finalVars == <<finalisable, finalising>>
vars == <<heapVars, roots, phaseVars, stackVars, weakVars, finalVars, pending>>

Entry == [fun : Val, val : Val]

\* The state's type, with the cursors of major_gc.c (markhp, gc_sweep_hp, weak_prev)
\* within the heap and weak_list.
TypeOK ==
  /\ color \in [Block -> {"white", "gray", "black", "blue"}]
  /\ tag \in [Block -> {"scan", "forward", "weak"}]
  /\ field \in [Block -> [Field -> Val]]
  /\ roots \subseteq Block
  /\ gc_phase \in {"idle", "mark", "sweep"}
  /\ gc_subphase \in {"main", "weak", "final"}
  /\ gray_vals \in Seq(Block)
  /\ gray_vals_size \in Nat \ {0, 1}
  /\ heap_is_pure \in BOOLEAN
  /\ markhp \in 0 .. Limit
  /\ gc_sweep_hp \in 1 .. Limit
  /\ weak_list \in Seq(Block)
  /\ weak_prev \in 0 .. Len(weak_list)
  /\ finalisable \subseteq Entry
  /\ finalising \subseteq Entry
  /\ pending \subseteq Block

Init ==
  /\ color = [b \in Block |-> "blue"]
  /\ tag = [b \in Block |-> "scan"]
  /\ field = [b \in Block |-> [f \in Field |-> Nil]]
  /\ roots = {}
  /\ gc_phase = "idle" /\ gc_subphase = "main"
  /\ gray_vals = <<>> /\ gray_vals_size = GraySize
  /\ heap_is_pure = TRUE /\ markhp = NULL
  /\ gc_sweep_hp = 1
  /\ weak_list = <<>> /\ weak_prev = 0
  /\ finalisable = {} /\ finalising = {}
  /\ pending = {}

-----------------------------------------------------------------------------
(* Reachability.                                                           *)

Colored(c) == {b \in Block : color[b] = c}

\* What a block keeps alive: its fields, if it is scanned.
Succ(b) ==
  IF color[b] = "blue" \/ tag[b] = "weak" THEN {}
  ELSE {field[b][f] : f \in Field} \ {Nil}

\* The roots darken_all_roots goes through: final_do_strong_roots adds the
\* closures of the finalisable set, the closures and values of the
\* finalising set.
StrongRoots ==
  ( roots \cup {e.fun : e \in finalisable}
          \cup {e.fun : e \in finalising} \cup {e.val : e \in finalising} ) \ {Nil}

Closed(S) == \A b \in S : Succ(b) \subseteq S

\* The blocks that every closed set around R contains.
ReachFrom(R) ==
  {b \in Block : \A S \in SUBSET Block : R \subseteq S /\ Closed(S) => b \in S}

Reach == ReachFrom(StrongRoots)

-----------------------------------------------------------------------------
(* The mark stack.                                                         *)

\* Mutated form: an overflow that forgets to say the heap is impure.
realloc_gray_vals_pure(s) ==
  /\ gray_vals' = IF gray_vals_size < GrayLimit THEN s
                  ELSE SubSeq(s, 1, gray_vals_size \div 2)
  /\ gray_vals_size' = IF gray_vals_size < GrayLimit
                       THEN 2 * gray_vals_size ELSE gray_vals_size
  /\ UNCHANGED heap_is_pure

realloc_gray_vals(s) ==
  \/ /\ gray_vals_size < GrayLimit
     /\ \/ /\ gray_vals' = s
           /\ gray_vals_size' = 2 * gray_vals_size
           /\ UNCHANGED heap_is_pure
        \/ /\ gray_vals' = <<>>              \* realloc failed
           /\ heap_is_pure' = FALSE
           /\ UNCHANGED gray_vals_size
  \/ /\ gray_vals_size >= GrayLimit
     /\ gray_vals' = SubSeq(s, 1, gray_vals_size \div 2)
     /\ heap_is_pure' = FALSE
     /\ UNCHANGED gray_vals_size

darken(v) ==
  IF v # Nil /\ color[v] = "white"
  THEN /\ color' = [color EXCEPT ![v] = "gray"]
       /\ LET s == Append(gray_vals, v)
          IN  IF Len(s) < gray_vals_size
              THEN gray_vals' = s /\ UNCHANGED <<gray_vals_size, heap_is_pure>>
              ELSE realloc_gray_vals(s)
  ELSE UNCHANGED <<color, stackVars>>

-----------------------------------------------------------------------------
(* Marking.  Each iteration of mark_slice's loop is a step, since a slice  *)
(* may end after any of them.  The loops inside an iteration (the fields   *)
(* of a block, the roots, the values to finalise) darken the members of    *)
(* "pending" one by one, in any order, before anything else happens.       *)

start_cycle ==
  /\ pending = {} /\ gc_phase = "idle"
  /\ pending' = StrongRoots
  /\ gc_phase' = "mark" /\ gc_subphase' = "main" /\ markhp' = NULL
  /\ UNCHANGED <<heapVars, roots, stackVars, gc_sweep_hp, weakVars, finalVars>>

darken_pending ==
  /\ \E v \in pending : darken(v) /\ pending' = pending \ {v}
  /\ UNCHANGED <<tag, field, roots, phaseVars, weakVars, finalVars>>

\* A field that holds a Forward block is made to skip it.
Skip_forward(v) ==
  IF v # Nil /\ tag[v] = "forward" THEN field[v][1] ELSE v

mark_pop ==
  /\ pending = {} /\ gc_phase = "mark" /\ gray_vals # <<>>
  /\ LET v == gray_vals[Len(gray_vals)]
     IN  /\ gray_vals' = SubSeq(gray_vals, 1, Len(gray_vals) - 1)
         /\ color' = [color EXCEPT ![v] = "black"]
         /\ pending' = Succ(v)
         /\ field' = IF tag[v] = "weak" THEN field
                     ELSE [field EXCEPT ![v] =
                             [f \in Field |-> Skip_forward(field[v][f])]]
  /\ UNCHANGED <<tag, roots, phaseVars, gray_vals_size, heap_is_pure, weakVars,
                 finalVars>>

\* The stack is empty: no gray block is known to the marker.
StackEmpty == pending = {} /\ gc_phase = "mark" /\ gray_vals = <<>>

\* Mutated forms: the scan pushes a block whatever its colour; the scan does
\* not stop at the end of the last chunk.
mark_heap_any_color ==
  /\ StackEmpty /\ markhp # NULL
  /\ IF markhp = Limit
     THEN markhp' = NULL /\ UNCHANGED gray_vals
     ELSE gray_vals' = <<markhp>> /\ markhp' = markhp + 1
  /\ UNCHANGED <<heapVars, roots, gc_phase, gc_subphase, gc_sweep_hp, gray_vals_size,
                 heap_is_pure, weakVars, finalVars, pending>>

mark_heap_past_limit ==
  /\ StackEmpty /\ markhp # NULL
  /\ gray_vals' = IF markhp \in Block /\ color[markhp] = "gray" THEN <<markhp>> ELSE <<>>
  /\ markhp' = markhp + 1
  /\ UNCHANGED <<heapVars, roots, gc_phase, gc_subphase, gc_sweep_hp, gray_vals_size,
                 heap_is_pure, weakVars, finalVars, pending>>

mark_heap ==
  /\ StackEmpty /\ markhp # NULL
  /\ IF markhp = Limit
     THEN markhp' = NULL /\ UNCHANGED gray_vals
     ELSE /\ gray_vals' = IF color[markhp] = "gray" THEN <<markhp>> ELSE <<>>
          /\ markhp' = markhp + 1
  /\ UNCHANGED <<heapVars, roots, gc_phase, gc_subphase, gc_sweep_hp, gray_vals_size,
                 heap_is_pure, weakVars, finalVars, pending>>

mark_rescan ==
  /\ StackEmpty /\ markhp = NULL /\ ~heap_is_pure
  /\ heap_is_pure' = TRUE /\ markhp' = 1
  /\ UNCHANGED <<heapVars, roots, gc_phase, gc_subphase, gc_sweep_hp, gray_vals,
                 gray_vals_size, weakVars, finalVars, pending>>

\* Mutated form: a subphase ends although the stack has overflowed.
MarkDone_impure == StackEmpty /\ markhp = NULL

\* Nothing is left to mark: the marker goes on to its next subphase.
MarkDone == StackEmpty /\ markhp = NULL /\ heap_is_pure

mark_main_done ==
  /\ MarkDone /\ gc_subphase = "main"
  /\ gc_subphase' = "weak" /\ weak_prev' = 0
  /\ UNCHANGED <<heapVars, roots, gc_phase, markhp, gc_sweep_hp, stackVars,
                 weak_list, finalVars, pending>>

\* The values met by following Forward blocks of L from v, and the one where
\* that ends.
Chain(v, L) ==
  {w \in Val : \A S \in SUBSET Val :
      v \in S /\ (\A b \in S \cap L : field[b][1] \in S) => w \in S}

ForwardEnd(v, L) == Chain(v, L) \ L

Forwards == {b \in Block : tag[b] = "forward"}

\* A list without the element its first k elements precede.
Unlink(s, k) == SubSeq(s, 1, k) \o SubSeq(s, k + 2, Len(s))

\* Mutated forms: the cells of a marked array are not looked at; white arrays
\* stay in the list; a cell that holds a white Forward block is emptied
\* without following it.
mark_weak_array_no_erase ==
  /\ MarkDone /\ gc_subphase = "weak" /\ weak_prev < Len(weak_list)
  /\ LET cur == weak_list[weak_prev + 1]
     IN  \/ /\ color[cur] = "white"
            /\ weak_list' = Unlink(weak_list, weak_prev)
            /\ UNCHANGED weak_prev
         \/ /\ color[cur] # "white"
            /\ weak_prev' = weak_prev + 1
            /\ UNCHANGED weak_list
  /\ UNCHANGED <<heapVars, roots, phaseVars, stackVars, finalVars, pending>>

mark_weak_array_no_unlink ==
  /\ MarkDone /\ gc_subphase = "weak" /\ weak_prev < Len(weak_list)
  /\ LET cur == weak_list[weak_prev + 1]
     IN  field' = [field EXCEPT ![cur] =
                     [f \in Field |-> IF field[cur][f] \in Colored("white")
                                      THEN Nil ELSE field[cur][f]]]
  /\ weak_prev' = weak_prev + 1
  /\ UNCHANGED <<color, tag, roots, phaseVars, stackVars, weak_list, finalVars, pending>>

mark_weak_array_no_forward ==
  /\ MarkDone /\ gc_subphase = "weak" /\ weak_prev < Len(weak_list)
  /\ LET cur == weak_list[weak_prev + 1]
     IN  \/ /\ color[cur] = "white"
            /\ weak_list' = Unlink(weak_list, weak_prev)
            /\ UNCHANGED <<weak_prev, field>>
         \/ /\ color[cur] # "white"
            /\ field' = [field EXCEPT ![cur] =
                     [f \in Field |-> IF field[cur][f] \in Colored("white")
                                      THEN Nil ELSE field[cur][f]]]
            /\ weak_prev' = weak_prev + 1
            /\ UNCHANGED weak_list
  /\ UNCHANGED <<color, tag, roots, phaseVars, stackVars, finalVars, pending>>

mark_weak_array ==
  /\ MarkDone /\ gc_subphase = "weak" /\ weak_prev < Len(weak_list)
  /\ LET cur == weak_list[weak_prev + 1]
     IN  \/ /\ color[cur] = "white"
            /\ weak_list' = Unlink(weak_list, weak_prev)
            /\ UNCHANGED <<weak_prev, field>>
         \/ /\ color[cur] # "white"
            /\ \E end \in [Field -> Val] :
                 /\ \A f \in Field : end[f] \in ForwardEnd(field[cur][f], Forwards)
                 /\ field' = [field EXCEPT ![cur] =
                       [f \in Field |-> IF end[f] # Nil /\ color[end[f]] = "white"
                                        THEN Nil ELSE end[f]]]
            /\ weak_prev' = weak_prev + 1
            /\ UNCHANGED weak_list
  /\ UNCHANGED <<color, tag, roots, phaseVars, stackVars, finalVars, pending>>

\* Mutated form: the values to finalise are not darkened.
final_update_no_darken ==
  /\ LET Dead == {e \in finalisable : e.val \in Colored("white")}
     IN  /\ finalisable' = finalisable \ Dead
         /\ finalising' = finalising \cup Dead
  /\ UNCHANGED pending

\* final_update: the white finalisable values are moved to the finalising
\* set and darkened.  Is_white_val of an immediate value reads a header that
\* does not exist; the entry is kept as one that is not white.
final_update ==
  \E end \in [finalisable -> Val] :
    /\ \A e \in finalisable :
         end[e] \in ForwardEnd(e.val, Forwards \cap Colored("white"))
    /\ LET Seen == {[fun |-> e.fun, val |-> end[e]] : e \in finalisable}
           Dead == {e \in Seen : e.val # Nil /\ color[e.val] = "white"}
       IN  /\ finalisable' = Seen \ Dead
           /\ finalising' = finalising \cup Dead
           /\ pending' = {e.val : e \in Dead}

mark_weak_done ==
  /\ MarkDone /\ gc_subphase = "weak" /\ weak_prev = Len(weak_list)
  /\ final_update
  /\ gc_subphase' = "final" /\ weak_prev' = 0
  /\ UNCHANGED <<heapVars, roots, gc_phase, markhp, gc_sweep_hp, stackVars,
                 weak_list>>

mark_final_done ==
  /\ MarkDone /\ gc_subphase = "final"
  /\ gc_phase' = "sweep" /\ gc_sweep_hp' = 1
  /\ UNCHANGED <<heapVars, roots, gc_subphase, markhp, stackVars, weakVars,
                 finalVars, pending>>

-----------------------------------------------------------------------------
(* Sweeping: one block, or the end of the heap.                            *)

\* Mutated form: a white block is passed over.
sweep_block_keeps_white ==
  /\ gc_phase = "sweep" /\ gc_sweep_hp < Limit
  /\ IF color[gc_sweep_hp] \in {"gray", "black"}
     THEN /\ color' = [color EXCEPT ![gc_sweep_hp] = "white"]
          /\ UNCHANGED <<tag, field>>
     ELSE UNCHANGED heapVars
  /\ gc_sweep_hp' = gc_sweep_hp + 1
  /\ UNCHANGED <<roots, gc_phase, gc_subphase, markhp, stackVars, weakVars,
                 finalVars, pending>>

sweep_block ==
  /\ gc_phase = "sweep" /\ gc_sweep_hp < Limit
  /\ LET b == gc_sweep_hp
     IN  \/ /\ color[b] = "white"
            /\ color' = [color EXCEPT ![b] = "blue"]
            /\ tag' = [tag EXCEPT ![b] = "scan"]
            /\ field' = [field EXCEPT ![b] = [f \in Field |-> Nil]]
         \/ /\ color[b] = "blue"
            /\ UNCHANGED heapVars
         \/ /\ color[b] \in {"gray", "black"}
            /\ color' = [color EXCEPT ![b] = "white"]
            /\ UNCHANGED <<tag, field>>
  /\ gc_sweep_hp' = gc_sweep_hp + 1
  /\ UNCHANGED <<roots, gc_phase, gc_subphase, markhp, stackVars, weakVars,
                 finalVars, pending>>

sweep_done ==
  /\ gc_phase = "sweep" /\ gc_sweep_hp = Limit
  /\ gc_phase' = "idle" /\ gc_sweep_hp' = 1
  /\ UNCHANGED <<heapVars, roots, gc_subphase, markhp, stackVars, weakVars,
                 finalVars, pending>>

GC ==
  \/ start_cycle \/ darken_pending \/ mark_pop \/ mark_heap \/ mark_rescan
  \/ mark_main_done \/ mark_weak_array \/ mark_weak_done \/ mark_final_done
  \/ sweep_block \/ sweep_done

-----------------------------------------------------------------------------
(* The program.  It runs between slices, when the collector's inner loops  *)
(* are not in progress.                                                    *)

\* Whether the program may put v somewhere else than in its roots.
Storable(v) ==
  v # Nil /\ tag[v] = "weak" => "weak_in_block" \in Uses

\* Blocks of the program it may read and write: ordinary ones.
Plain == {b \in roots : tag[b] = "scan"}

load(b, f) ==
  /\ field[b][f] # Nil
  /\ roots' = roots \cup {field[b][f]}
  /\ UNCHANGED <<heapVars, phaseVars, stackVars, weakVars, finalVars, pending>>

drop(b) ==
  /\ roots' = roots \ {b}
  /\ UNCHANGED <<heapVars, phaseVars, stackVars, weakVars, finalVars, pending>>

\* Mutated form: blocks are allocated black throughout the sweep.
allocation_color_sweep(b) == IF gc_phase # "idle" THEN "black" ELSE "white"

allocation_color(b) ==
  IF gc_phase = "mark" \/ (gc_phase = "sweep" /\ b >= gc_sweep_hp)
  THEN "black" ELSE "white"

\* Allocation in the major heap, by the program or by the promotion of a
\* young block: the new block is filled with values the program holds.
alloc_shr(b, t, init) ==
  /\ color[b] = "blue"
  /\ color' = [color EXCEPT ![b] = allocation_color(b)]
  /\ tag' = [tag EXCEPT ![b] = t]
  /\ field' = [field EXCEPT ![b] = init]
  /\ roots' = roots \cup {b}

alloc(b, init) ==
  /\ \A f \in Field : Storable(init[f])
  /\ alloc_shr(b, "scan", init)
  /\ UNCHANGED <<phaseVars, stackVars, weakVars, finalVars, pending>>

\* Mutated form: an insertion barrier.
Modify_darken_new(b, f, v) ==
  /\ field' = [field EXCEPT ![b][f] = v]
  /\ IF gc_phase = "mark" THEN darken(v) ELSE UNCHANGED <<color, stackVars>>

\* The deletion barrier: the value that is overwritten is darkened.
Modify(b, f, v) ==
  /\ field' = [field EXCEPT ![b][f] = v]
  /\ IF gc_phase = "mark" THEN darken(field[b][f])
                          ELSE UNCHANGED <<color, stackVars>>

modify(b, f, v) ==
  /\ Storable(v)
  /\ Modify(b, f, v)
  /\ UNCHANGED <<tag, roots, phaseVars, weakVars, finalVars, pending>>

\* The end of Lazy.force: the result is in field 1 already.
obj_set_tag(b) ==
  /\ "lazy" \in Uses
  /\ \A f \in Field \ {1} : field[b][f] = Nil
  /\ b \notin Chain(field[b][1], Forwards)
  /\ (\E e \in finalisable : e.val = b) => "finalise_lazy" \in Uses
  /\ tag' = [tag EXCEPT ![b] = "forward"]
  /\ UNCHANGED <<color, field, roots, phaseVars, stackVars, weakVars, finalVars, pending>>

weak_create(b) ==
  /\ "weak" \in Uses
  /\ alloc_shr(b, "weak", [f \in Field |-> Nil])
  /\ weak_list' = <<b>> \o weak_list
  /\ weak_prev' = IF weak_prev = 0 THEN 0 ELSE weak_prev + 1
  /\ UNCHANGED <<phaseVars, stackVars, finalVars, pending>>

\* The field is emptied before Modify, which therefore darkens nothing.
weak_set(a, f, v) ==
  /\ Storable(v)
  /\ field' = [field EXCEPT ![a][f] = v]
  /\ UNCHANGED <<color, tag, roots, phaseVars, stackVars, weakVars, finalVars, pending>>

weak_get(a, f) ==
  /\ field[a][f] # Nil
  /\ roots' = roots \cup {field[a][f]}
  /\ IF gc_phase = "mark" THEN darken(field[a][f])
                          ELSE UNCHANGED <<color, stackVars>>
  /\ UNCHANGED <<tag, field, phaseVars, weakVars, finalVars, pending>>

\* The copy is a young block: what it points to is held by the program.
weak_get_copy(a, f) ==
  /\ IF gc_phase = "mark" THEN "get_copy_mark" \in Uses ELSE "get_copy" \in Uses
  /\ field[a][f] # Nil
  /\ roots' = roots \cup Succ(field[a][f])
  /\ UNCHANGED <<heapVars, phaseVars, stackVars, weakVars, finalVars, pending>>

final_register(f, v) ==
  /\ "finalise" \in Uses
  /\ Storable(f) /\ Storable(v)
  /\ tag[v] = "forward" => "finalise_lazy" \in Uses
  /\ Cardinality(finalisable \cup finalising) < MaxFinal
  /\ finalisable' = finalisable \cup {[fun |-> f, val |-> v]}
  /\ UNCHANGED <<heapVars, roots, phaseVars, stackVars, weakVars, finalising, pending>>

final_do_calls ==
  /\ \E e \in finalising :
       /\ finalising' = finalising \ {e}
       /\ roots' = roots \cup ({e.fun, e.val} \ {Nil})
  /\ UNCHANGED <<heapVars, phaseVars, stackVars, weakVars, finalisable, pending>>

Mutator ==
  /\ pending = {}
  /\ \/ \E b \in roots : drop(b)
     \/ \E b \in roots, f \in Field : tag[b] # "weak" /\ load(b, f)
     \/ \E b \in Block, init \in [Field -> roots \cup {Nil}] : alloc(b, init)
     \/ \E b \in Plain, f \in Field, v \in roots \cup {Nil} : modify(b, f, v)
     \/ \E b \in Plain : obj_set_tag(b)
     \/ \E b \in Block : weak_create(b)
     \/ \E a \in roots, f \in Field, v \in roots \cup {Nil} :
          tag[a] = "weak" /\ weak_set(a, f, v)
     \/ \E a \in roots, f \in Field : tag[a] = "weak" /\ weak_get(a, f)
     \/ \E a \in roots, f \in Field : tag[a] = "weak" /\ weak_get_copy(a, f)
     \/ \E f \in roots \cup {Nil}, v \in roots : final_register(f, v)
     \/ final_do_calls
  /\ Cardinality(roots') <= MaxRoots

Next == GC \/ Mutator

Spec == Init /\ [][Next]_vars

-----------------------------------------------------------------------------
(* Properties.                                                             *)

\* A block the program can still reach by following strong pointers from its
\* roots is never in the free list: sweep_slice frees white blocks, and the
\* marking started by start_cycle, with Modify's deletion barrier and black
\* allocation, leaves no reachable block white, although roots are scanned
\* only once and gray_vals drops blocks when it overflows.
NoLiveFreed == Reach \cap Colored("blue") = {}

\* The comment on heap_is_pure (major_gc.c:42): while it is set, the only gray
\* blocks below markhp are in gray_vals; with no rescan in progress, that is
\* all the gray blocks.  It is what lets mark_slice leave a subphase when the
\* stack is empty.
HeapPure ==
  heap_is_pure => \A b \in Colored("gray") :
     (markhp = NULL \/ b < markhp) => \E i \in 1 .. Len(gray_vals) : gray_vals[i] = b

\* A block is on the mark stack at most once, and is gray as long as it is
\* there (the assertion of mark_slice when it pops a block).
GrayStack ==
  /\ \A i \in 1 .. Len(gray_vals) : color[gray_vals[i]] = "gray"
  /\ \A i, j \in 1 .. Len(gray_vals) : gray_vals[i] = gray_vals[j] => i = j

\* The colours between phases: nothing is gray once marking is over, and
\* nothing is black where sweep_slice has passed (its assertion that a block
\* neither white nor blue is black, and start_cycle's need of a white heap).
PhaseColors ==
  gc_phase # "mark" =>
    /\ Colored("gray") = {} /\ gray_vals = <<>>
    /\ \A b \in Colored("black") : gc_phase = "sweep" /\ b >= gc_sweep_hp

\* A weak array the program can reach never holds a pointer to a freed block:
\* the weak subphase empties the cells whose value is about to be swept.
WeakNotDangling ==
  \A a \in Block : tag[a] = "weak" /\ a \in Reach =>
     \A f \in Field : field[a][f] \notin Colored("blue")

\* weak_list is threaded through the arrays themselves: no array of it is
\* ever freed, and each is there once.
WeakListIntact ==
  /\ \A i \in 1 .. Len(weak_list) :
        color[weak_list[i]] # "blue" /\ tag[weak_list[i]] = "weak"
  /\ \A i, j \in 1 .. Len(weak_list) : weak_list[i] = weak_list[j] => i = j

\* The value of a registered finalisation function is not freed before the
\* function has been called with it.
FinalValuesKept ==
  \A e \in finalisable \cup finalising : e.val \notin Colored("blue")

\* The values of the finalisable set are blocks (the assertion at the head of
\* final_update's loop).
FinalValuesAreBlocks == \A e \in finalisable : e.val # Nil

\* The collector empties a weak pointer only when the program can no longer
\* reach the value it pointed to.
ErasesOnlyDead ==
  [][ \A a \in Block : color[a] # "blue" /\ color'[a] # "blue" /\ tag[a] = "weak" =>
        \A f \in Field : field[a][f] # Nil /\ field'[a][f] = Nil /\ GC
                           => ForwardEnd(field[a][f], Forwards) \cap Reach = {} ]_vars

\* A finalisation function is scheduled only when the program can no longer
\* reach its value (Gc.finalise: "between the first time [v] becomes
\* unreachable and the time [v] is collected").
FinalisesOnlyUnreachable ==
  [][ \A e \in finalising' \ finalising : e.val \notin Reach ]_vars

-----------------------------------------------------------------------------
(* The inductive invariant behind NoLiveFreed, FinalValuesKept and         *)
(* WeakNotDangling (proved in MajorGCProofs).                              *)

Listed  == {weak_list[i] : i \in 1 .. Len(weak_list)}
Visited == {weak_list[i] : i \in 1 .. weak_prev}

FinalVals == {e.val : e \in finalisable} \ {Nil}

\* The arrays whose cells the weak subphase of this cycle has seen to.
Cleaned ==
  IF gc_subphase = "main" THEN {}
  ELSE IF gc_subphase = "weak" THEN Visited ELSE Listed

\* T contains what the sweep that follows the marking must not free.
Spares(T) ==
  /\ StrongRoots \cup Cleaned \subseteq T
  /\ \A b \in Colored("black") : Succ(b) \subseteq T
  /\ \A a \in Cleaned, f \in Field : field[a][f] \in T \cup {Nil}
  /\ gc_subphase = "final" => FinalVals \subseteq T

\* S contains everything marking will still find from the gray blocks.
Covers(S) ==
  /\ Colored("gray") \cup pending \subseteq S
  /\ \A b \in S : color[b] # "black" => Succ(b) \subseteq S

\* Every block to be spared is black or will be found from a gray one.
MarkInv ==
  gc_phase = "mark" =>
    \A S \in SUBSET Block : Covers(S) => Spares(S \cup Colored("black"))

\* The blocks that are neither free nor about to be freed by the sweep.
Good ==
  {b \in Block : /\ color[b] # "blue"
                 /\ ~ (gc_phase = "sweep" /\ b >= gc_sweep_hp /\ color[b] = "white")}

\* They are closed under everything that refers to a block.
GoodInv ==
  /\ StrongRoots \cup FinalVals \cup Listed \cup pending \subseteq Good
  /\ \A b \in Good : Succ(b) \subseteq Good
  /\ \A a \in Listed, f \in Field : field[a][f] \in Good \cup {Nil}

\* A weak array is held by the program's roots or is not held at all, and
\* one that is held is in weak_list.
WeakHeld ==
  /\ \A a \in roots : tag[a] = "weak" => a \in Listed
  /\ \A a \in Listed : tag[a] = "weak"
  /\ \A a \in Block : tag[a] = "weak" =>
       /\ \A b \in Good : a \notin Succ(b)
       /\ \A b \in Listed, f \in Field : field[b][f] # a
       /\ \A e \in finalisable \cup finalising : e.fun # a /\ e.val # a

\* A finalised value is a block, and not a Forward block.
FinalBlocks ==
  \A e \in finalisable : e.val # Nil /\ tag[e.val] # "forward"

\* The programs for which it holds.  Each of the three features breaks it; a weak
\* array in a block does without finalised values too, when Weak.get brings the
\* block back after the array was taken off weak_list.
SafeProgram == Uses \cap {"get_copy_mark", "weak_in_block", "finalise_lazy"} = {}

Quiet == gc_phase # "mark" => pending = {} /\ heap_is_pure /\ markhp = NULL

IInv ==
  /\ TypeOK /\ GrayStack /\ HeapPure /\ PhaseColors /\ Quiet
  /\ GoodInv /\ MarkInv /\ WeakHeld /\ FinalBlocks
=============================================================================
