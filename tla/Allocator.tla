----------------------------- MODULE Allocator -----------------------------
(***************************************************************************)
(* What the program and the marker rely on when they call alloc_shr: the   *)
(* words of a block belong to it until it is released.  A block is known   *)
(* by the address of its header, and takes that word and "wosize" more.    *)
(***************************************************************************)
EXTENDS Integers

CONSTANTS Words,   \* the addresses the heap may come to contain
          Sizes    \* the sizes that are asked for

VARIABLES live     \* the size of each block the program holds

\* The words of the block at h.
Extent(h, wo) == h .. h + wo

Init == live = [h \in {} |-> 0]

\* A block that overlaps no other one.
allocate(h, wo) ==
  /\ Extent(h, wo) \subseteq Words
  /\ \A g \in DOMAIN live : Extent(g, live[g]) \cap Extent(h, wo) = {}
  /\ live' = [g \in DOMAIN live \cup {h} |-> IF g = h THEN wo ELSE live[g]]

\* The program forgets blocks, or the end of a block.
release(Kept) == live' = [g \in Kept |-> live[g]]

truncate(h, wo) ==
  /\ wo \in 1 .. live[h] - 1
  /\ live' = [live EXCEPT ![h] = wo]

Next ==
  \/ \E h \in Words, wo \in Sizes : allocate(h, wo)
  \/ \E Kept \in SUBSET DOMAIN live : release(Kept)
  \/ \E h \in DOMAIN live, wo \in Sizes : truncate(h, wo)

Spec == Init /\ [][Next]_live

-----------------------------------------------------------------------------
\* The constants are what FreeList gives them: addresses, and sizes in words.
Addresses == Words \subseteq Int /\ Sizes \subseteq Nat

\* The state's type: each block alloc_shr has given has its header at a word of
\* the heap and a natural size.
TypeOK ==
  /\ DOMAIN live \subseteq Words
  /\ live = [h \in DOMAIN live |-> live[h]]
  /\ \A h \in DOMAIN live : live[h] \in Nat

\* Two blocks that alloc_shr has given and the program has not lost share no
\* word, headers included.
Disjoint ==
  \A g, h \in DOMAIN live : g # h => Extent(g, live[g]) \cap Extent(h, live[h]) = {}
=============================================================================
