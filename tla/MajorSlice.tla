----------------------------- MODULE MajorSlice -----------------------------
(***************************************************************************)
(* The pace of the major collector: the steps of MajorGC happen inside     *)
(* slices (major_collection_slice), which do a computed amount of work.    *)
(* The amount comes from what was allocated since the last slice, and may  *)
(* be 0: such a slice starts a cycle if none is in progress, and does      *)
(* nothing else.                                                           *)
(***************************************************************************)
EXTENDS MajorGC

VARIABLE work   \* work > 0 in the loop of the slice that is running

svars == <<vars, work>>

SliceInit == Init /\ work = FALSE

\* The computed work is abstracted to whether it is positive, which depends
\* on allocated_words, extra_heap_memory and percent_free, and on the rounding.
\* A slice of finish_major_cycle (Gc.major) has LONG_MAX words to do.
major_collection_slice ==
  /\ ~ work /\ pending = {}
  /\ \/ start_cycle
     \/ gc_phase # "idle" /\ UNCHANGED vars
  /\ work' \in BOOLEAN

\* The iterations that subtract from work, those that do not, and those that
\* set it to 0 because the phase is over.
Consuming == mark_pop \/ mark_weak_array \/ sweep_block
Free      == mark_heap \/ mark_rescan \/ mark_main_done \/ mark_weak_done
Final     == mark_final_done \/ sweep_done

slice_step ==
  \/ darken_pending /\ UNCHANGED work
  \/ /\ work
     /\ \/ Consuming /\ work' \in BOOLEAN
        \/ Free /\ UNCHANGED work
        \/ Final /\ work' = FALSE

\* The program runs between slices.
program_step == ~ work /\ Mutator /\ UNCHANGED work

SliceNext == major_collection_slice \/ slice_step \/ program_step

\* A slice that has begun goes on to its end.  Nothing says that slices begin,
\* or that they have work to do.
SliceSpec == SliceInit /\ [][SliceNext]_svars /\ WF_svars(slice_step)

-----------------------------------------------------------------------------
(* Properties.                                                             *)

\* What the finalisable values keep alive counts as held.
Kept == ReachFrom(StrongRoots \cup ({e.val : e \in finalisable} \ {Nil}))

\* Garbage does not stay, as long as slices with work to do keep coming (the
\* program allocates, or calls Gc.major): a block that nothing holds is
\* eventually freed, unless the program gets it back through a weak pointer.
GarbageFreed ==
  ([]<>work) =>
    \A b \in Block :
      (color[b] # "blue" /\ b \notin Kept) ~> (color[b] = "blue" \/ b \in Kept)
=============================================================================
