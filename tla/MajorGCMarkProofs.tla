------------------------- MODULE MajorGCMarkProofs --------------------------
(***************************************************************************)
(* The inductive invariant IInv of MajorGC holds initially and is preserved*)
(* by the marking of roots and blocks, and by the scan of the heap after an*)
(* overflow of the mark stack.                                             *)
(***************************************************************************)
EXTENDS MajorGC, TLAPS

\* The initial heap, all of it free, satisfies the inductive invariant.
LEMMA InitIInv == Init => IInv
<1> SUFFICES ASSUME Init PROVE IInv
  OBVIOUS
<1> USE NAssumption, NFAssumption, GrayAssumption DEF Init
<1>1. TypeOK
  BY DEF TypeOK, Block, Field, Val, Nil, NULL, Limit, Entry
<1>2. Colored("gray") = {} /\ Colored("black") = {}
  BY DEF Colored, Block
<1>3. GrayStack /\ HeapPure /\ PhaseColors /\ Quiet /\ MarkInv
  BY <1>2 DEF GrayStack, HeapPure, PhaseColors, Quiet, MarkInv, NULL
<1>4. Good = {} /\ StrongRoots = {} /\ FinalVals = {} /\ Listed = {}
  BY DEF Good, StrongRoots, FinalVals, Listed
<1>5. GoodInv /\ WeakHeld /\ FinalBlocks
  BY <1>4 DEF GoodInv, WeakHeld, FinalBlocks
<1> QED
  BY <1>1, <1>3, <1>5 DEF IInv

\* Nil is not a block; the capacity of the mark stack leaves room for one.
LEMMA Consts == /\ Nil \notin Block /\ NULL \notin Block /\ Block \subseteq Val
                /\ 1 \in Field /\ Block \subseteq Nat /\ Nil \in Val
BY NAssumption, NFAssumption DEF Nil, NULL, Block, Val, Field

\* A prefix of a sequence.
LEMMA PrefixFacts ==
  ASSUME NEW D, NEW s \in Seq(D), NEW n \in 0 .. Len(s)
  PROVE  /\ SubSeq(s, 1, n) \in Seq(D) /\ Len(SubSeq(s, 1, n)) = n
         /\ \A i \in 1 .. n : SubSeq(s, 1, n)[i] = s[i]
OBVIOUS

\* A step that touches neither the colours nor the mark stack keeps the
\* disciplines of the marker.
LEMMA MarkerFrame ==
  ASSUME GrayStack, HeapPure, PhaseColors,
         UNCHANGED <<color, gc_phase, gray_vals, heap_is_pure, markhp, gc_sweep_hp>>
  PROVE  GrayStack' /\ HeapPure' /\ PhaseColors'
<1>1. /\ color' = color /\ gc_phase' = gc_phase /\ gray_vals' = gray_vals
      /\ heap_is_pure' = heap_is_pure /\ markhp' = markhp /\ gc_sweep_hp' = gc_sweep_hp
  OBVIOUS
<1>2. /\ Colored("gray")' = Colored("gray")
      /\ Colored("black")' = Colored("black")
  BY <1>1 DEF Colored
<1>3. GrayStack'
  BY <1>1 DEF GrayStack
<1>4. HeapPure'
  BY <1>1, <1>2 DEF HeapPure
<1>5. PhaseColors'
  BY <1>1, <1>2 DEF PhaseColors
<1> QED
  BY <1>3, <1>4, <1>5

\* What darken does to the colours and to the mark stack, whether or not
\* the stack overflows.
LEMMA DarkenFacts ==
  ASSUME TypeOK, GrayStack, HeapPure, NEW v \in Val, darken(v), UNCHANGED markhp
  PROVE  /\ color' = IF v # Nil /\ color[v] = "white"
                     THEN [color EXCEPT ![v] = "gray"] ELSE color
         /\ gray_vals' \in Seq(Block) /\ gray_vals_size' \in Nat \ {0, 1}
         /\ heap_is_pure' \in BOOLEAN
         /\ GrayStack' /\ HeapPure'
<1>1. CASE ~ (v # Nil /\ color[v] = "white")
  BY <1>1 DEF darken, stackVars, GrayStack, HeapPure, TypeOK, Colored
<1>2. CASE v # Nil /\ color[v] = "white"
  <2> DEFINE s == Append(gray_vals, v)
  <2>1. v \in Block
    BY <1>2 DEF Val
  <2>2. color' = [color EXCEPT ![v] = "gray"]
    BY <1>2 DEF darken
  <2>3. /\ s \in Seq(Block) /\ Len(s) = Len(gray_vals) + 1
        /\ \A i \in 1 .. Len(gray_vals) : s[i] = gray_vals[i]
        /\ s[Len(gray_vals) + 1] = v
    BY <2>1 DEF TypeOK
  <2>4. Len(gray_vals) \in Nat
    BY DEF TypeOK
  <2>5. \A i \in 1 .. Len(s) : color'[s[i]] = "gray"
    BY <2>1, <2>2, <2>3, <2>4 DEF TypeOK, GrayStack
  <2>6. \A i, j \in 1 .. Len(s) : s[i] = s[j] => i = j
    BY <1>2, <2>1, <2>3, <2>4 DEF TypeOK, GrayStack
  <2>7. CASE gray_vals' = s /\ UNCHANGED heap_is_pure /\ gray_vals_size' \in Nat \ {0, 1}
    <3>1. GrayStack'
      BY <2>5, <2>6, <2>7 DEF GrayStack
    <3>2. HeapPure'
      BY <2>1, <2>2, <2>3, <2>4, <2>7 DEF HeapPure, Colored, TypeOK
    <3> QED
      BY <1>2, <2>2, <2>3, <2>7, <3>1, <3>2 DEF TypeOK
  <2>8. CASE /\ heap_is_pure' = FALSE /\ UNCHANGED gray_vals_size
             /\ \E n \in 0 .. Len(s) : gray_vals' = SubSeq(s, 1, n)
    <3>1. PICK n \in 0 .. Len(s) : gray_vals' = SubSeq(s, 1, n)
      BY <2>8
    <3>2. /\ gray_vals' \in Seq(Block) /\ Len(gray_vals') = n
          /\ \A i \in 1 .. n : gray_vals'[i] = s[i]
      BY <3>1, <2>3, PrefixFacts
    <3>3. GrayStack'
      BY <2>5, <2>6, <3>2, <2>3, <2>4 DEF GrayStack
    <3>4. HeapPure'
      BY <2>8 DEF HeapPure
    <3> QED
      BY ZenonT(60), <1>2, <2>2, <2>8, <3>2, <3>3, <3>4 DEF TypeOK
  <2>9. \/ /\ gray_vals' = s /\ UNCHANGED heap_is_pure
           /\ gray_vals_size' \in Nat \ {0, 1}
        \/ /\ heap_is_pure' = FALSE /\ UNCHANGED gray_vals_size
           /\ \E n \in 0 .. Len(s) : gray_vals' = SubSeq(s, 1, n)
    <3>1. CASE Len(s) < gray_vals_size
      BY <1>2, <3>1 DEF darken, TypeOK
    <3>2. CASE ~ (Len(s) < gray_vals_size)
      <4>1. realloc_gray_vals(s)
        BY <1>2, <3>2 DEF darken
      <4>2. CASE gray_vals_size < GrayLimit /\ gray_vals' = s
        BY <4>1, <4>2, GrayAssumption DEF realloc_gray_vals, TypeOK
      <4>3. CASE gray_vals_size < GrayLimit /\ gray_vals' = <<>>
                 /\ heap_is_pure' = FALSE /\ UNCHANGED gray_vals_size
        <5>1. <<>> = SubSeq(s, 1, 0) /\ 0 \in 0 .. Len(s)
          BY <2>3, <2>4
        <5> QED
          BY <4>3, <5>1
      <4>4. CASE gray_vals_size >= GrayLimit
        <5>1. gray_vals_size \div 2 \in 0 .. Len(s)
          BY <2>3, <2>4, <3>2 DEF TypeOK
        <5> QED
          BY <4>1, <4>4, <5>1, GrayAssumption DEF realloc_gray_vals, TypeOK
      <4> QED
        BY ZenonT(60), <4>1, <4>2, <4>3, <4>4, GrayAssumption DEF realloc_gray_vals, TypeOK
    <3> QED
      BY ZenonT(60), <3>1, <3>2
  <2> QED
    BY ZenonT(60), <2>7, <2>8, <2>9
<1> QED
  BY <1>1, <1>2

\* When the marker has nothing left to do, nothing is gray and everything
\* the sweep must not free is black.
LEMMA MarkDoneFacts ==
  ASSUME IInv, MarkDone
  PROVE  Colored("gray") = {} /\ Spares(Colored("black"))
<1>1. Colored("gray") = {}
  BY DEF IInv, HeapPure, MarkDone, StackEmpty, TypeOK
<1>2. Covers({})
  BY <1>1 DEF Covers, MarkDone, StackEmpty
<1>3. {} \in SUBSET Block /\ {} \cup Colored("black") = Colored("black")
  OBVIOUS
<1> QED
  BY <1>1, <1>2, <1>3 DEF IInv, MarkInv, MarkDone, StackEmpty

\* start_cycle makes every strong root pending, which is all MarkInv asks for.
LEMMA StartCycle == ASSUME IInv, start_cycle PROVE IInv'
<1> USE DEF IInv, start_cycle, heapVars, stackVars, weakVars, finalVars
<1>1. StrongRoots' = StrongRoots /\ FinalVals' = FinalVals /\ Listed' = Listed
  BY DEF StrongRoots, FinalVals, Listed
<1>2. Good' = Good
  BY DEF Good
<1>3. \A b \in Block : Succ(b)' = Succ(b)
  BY DEF Succ
<1>4. StrongRoots \subseteq Block
  BY DEF GoodInv, Good
<1>5. TypeOK'
  BY <1>4, NAssumption DEF TypeOK, NULL, Limit
<1>6. GrayStack' /\ HeapPure' /\ PhaseColors' /\ Quiet' /\ FinalBlocks'
  BY DEF GrayStack, HeapPure, PhaseColors, Quiet, FinalBlocks, Colored
<1>7. GoodInv'
  BY <1>1, <1>2, <1>3 DEF GoodInv, Good
<1>8. MarkInv'
  <2>1. Colored("black")' = {}
    BY DEF PhaseColors, Colored
  <2>2. Cleaned' = {}
    BY DEF Cleaned
  <2>3. \A S : Covers(S)' => StrongRoots \subseteq S
    BY DEF Covers
  <2> QED
    BY <1>1, <2>1, <2>2, <2>3 DEF MarkInv, Spares
<1>9. WeakHeld'
  BY <1>1, <1>2, <1>3 DEF WeakHeld, Good
<1> QED
  BY <1>5, <1>6, <1>7, <1>8, <1>9

\* Spares is monotonic.
LEMMA SparesMono ==
  ASSUME NEW T, NEW U, T \subseteq U, Spares(T)
  PROVE  Spares(U)
BY DEF Spares

\* Darkening a root or a field turns a pending block gray, or finds it marked.
LEMMA DarkenPending == ASSUME IInv, darken_pending PROVE IInv'
<1> USE DEF phaseVars, weakVars, finalVars
<1>1. PICK v \in pending : darken(v) /\ pending' = pending \ {v}
  BY DEF darken_pending
<1>2. UNCHANGED <<tag, field, roots, phaseVars, weakVars, finalVars>>
  BY DEF darken_pending
<1>3. TypeOK /\ GrayStack /\ HeapPure /\ v \in Block /\ gc_phase = "mark" /\ v \in Good
  BY DEF IInv, TypeOK, Quiet, GoodInv
<1>4. /\ color' = IF v # Nil /\ color[v] = "white"
                  THEN [color EXCEPT ![v] = "gray"] ELSE color
      /\ gray_vals' \in Seq(Block) /\ gray_vals_size' \in Nat \ {0, 1}
      /\ heap_is_pure' \in BOOLEAN /\ GrayStack' /\ HeapPure'
  BY <1>1, <1>2, <1>3, DarkenFacts, Consts
<1>5. /\ color' \in [Block -> {"white", "gray", "black", "blue"}]
      /\ \A b \in Block : (color'[b] = "blue") = (color[b] = "blue")
      /\ \A b \in Block : (color'[b] = "black") = (color[b] = "black")
      /\ \A b \in Block : color[b] = "gray" => color'[b] = "gray"
      /\ color'[v] # "white"
  BY <1>3, <1>4, Consts DEF TypeOK
<1>6. TypeOK'
  BY <1>1, <1>2, <1>3, <1>4, <1>5 DEF TypeOK
<1>7. \A b \in Block : Succ(b)' = Succ(b)
  BY <1>2, <1>5 DEF Succ
<1>8. Good' = Good
  BY <1>2, <1>3, <1>5 DEF Good
<1>9. /\ StrongRoots' = StrongRoots /\ FinalVals' = FinalVals /\ Listed' = Listed
      /\ Cleaned' = Cleaned /\ Colored("black")' = Colored("black")
  BY <1>2, <1>5 DEF StrongRoots, FinalVals, Listed, Cleaned, Visited, Colored
<1>10. GoodInv'
  BY <1>1, <1>2, <1>7, <1>8, <1>9 DEF IInv, GoodInv, Good
<1>11. MarkInv'
  <2> SUFFICES ASSUME NEW S \in SUBSET Block, Covers(S)'
               PROVE  Spares(S \cup Colored("black"))'
    BY DEF MarkInv
  <2> DEFINE R == S \cup {v}
  <2>1. v \in S \/ color[v] = "black"
    BY <1>3, <1>5 DEF Covers, Colored, Good
  <2>2. Covers(R)
    BY <1>1, <1>3, <1>5, <1>7, <2>1 DEF Covers, Colored
  <2>3. Spares(R \cup Colored("black"))
    BY <1>3, <2>2 DEF IInv, MarkInv
  <2>4. R \cup Colored("black") \subseteq S \cup Colored("black")
    BY <1>3, <2>1 DEF Colored
  <2>5. Spares(S \cup Colored("black"))
    BY <2>3, <2>4, SparesMono
  <2> QED
    BY <1>2, <1>7, <1>9, <2>5 DEF Spares, Colored
<1>12. WeakHeld' /\ FinalBlocks'
  BY <1>2, <1>7, <1>8, <1>9 DEF IInv, WeakHeld, FinalBlocks, Good
<1>13. PhaseColors' /\ Quiet'
  BY <1>2, <1>3 DEF PhaseColors, Quiet
<1> QED
  BY <1>4, <1>6, <1>10, <1>11, <1>12, <1>13 DEF IInv

\* Blackening the block on top of the stack makes its fields pending, and
\* skipping Forward blocks replaces a field by a block found through it.
LEMMA MarkPop == ASSUME IInv, mark_pop PROVE IInv'
<1> USE DEF phaseVars, weakVars, finalVars
<1>2. TypeOK /\ GrayStack /\ HeapPure
  BY DEF IInv
<1>0. PICK v \in Block : v = gray_vals[Len(gray_vals)]
  BY <1>2 DEF mark_pop, TypeOK
<1>1. /\ pending = {} /\ gc_phase = "mark" /\ gray_vals # <<>>
      /\ gray_vals' = SubSeq(gray_vals, 1, Len(gray_vals) - 1)
      /\ color' = [color EXCEPT ![v] = "black"]
      /\ pending' = Succ(v)
      /\ field' = IF tag[v] = "weak" THEN field
                  ELSE [field EXCEPT ![v] = [f \in Field |-> Skip_forward(field[v][f])]]
      /\ UNCHANGED <<tag, roots, phaseVars, gray_vals_size, heap_is_pure, weakVars,
                     finalVars>>
  BY <1>0 DEF mark_pop
<1>3. Len(gray_vals) \in Nat \ {0} /\ color[v] = "gray"
  BY <1>0, <1>1, <1>2 DEF TypeOK, GrayStack
<1>4. /\ gray_vals' \in Seq(Block) /\ Len(gray_vals') = Len(gray_vals) - 1
      /\ \A i \in 1 .. Len(gray_vals) - 1 : gray_vals'[i] = gray_vals[i]
  <2>1. gray_vals \in Seq(Block) /\ gray_vals' = SubSeq(gray_vals, 1, Len(gray_vals) - 1)
    BY <1>1, <1>2 DEF TypeOK
  <2>2. Len(gray_vals) - 1 \in 0 .. Len(gray_vals)
    BY <1>3
  <2> QED
    BY ZenonT(60), <2>1, <2>2, PrefixFacts
<1>5. \A i \in 1 .. Len(gray_vals) - 1 : gray_vals[i] # v /\ gray_vals[i] \in Block
  BY <1>0, <1>2, <1>3 DEF GrayStack, TypeOK
<1>6. GrayStack'
  <2>1. \A i \in 1 .. Len(gray_vals) - 1 : color'[gray_vals[i]] = "gray"
    BY <1>1, <1>2, <1>3, <1>5 DEF GrayStack, TypeOK
  <2>2. \A i, j \in 1 .. Len(gray_vals) - 1 : gray_vals[i] = gray_vals[j] => i = j
    BY <1>2, <1>3 DEF GrayStack
  <2> QED
    BY <1>3, <1>4, <2>1, <2>2 DEF GrayStack
<1>7. HeapPure'
  <2> SUFFICES ASSUME heap_is_pure, NEW b \in Block, color'[b] = "gray",
                      markhp = NULL \/ b < markhp
               PROVE  \E i \in 1 .. Len(gray_vals') : gray_vals'[i] = b
    BY <1>1 DEF HeapPure, Colored
  <2>1. b # v /\ color[b] = "gray"
    BY <1>1, <1>2, <1>3 DEF TypeOK
  <2>2. PICK i \in 1 .. Len(gray_vals) : gray_vals[i] = b
    BY <1>2, <2>1 DEF HeapPure, Colored
  <2>3. i \in 1 .. Len(gray_vals) - 1
    BY <1>0, <1>3, <2>1, <2>2
  <2> QED
    BY <1>4, <2>2, <2>3
<1>8. /\ \A f \in Field : field[v][f] \in Val
      /\ \A b \in Block : field[b][1] \in Val
  BY <1>2, <1>3, Consts DEF TypeOK
<1>9. \A f \in Field : Skip_forward(field[v][f]) \in Val
  BY <1>8, Consts DEF Skip_forward, Val
<1>10. /\ \A b \in Block : b # v => Succ(b)' = Succ(b)
       /\ \A b \in Block : Succ(b) \subseteq Block
  BY <1>1, <1>2, <1>3 DEF Succ, TypeOK, Val
<1>11. Good' = Good
  BY <1>1, <1>2, <1>3 DEF Good, TypeOK
<1>12. v \in Good /\ Succ(v) \subseteq Good
  BY <1>1, <1>3 DEF IInv, Good, GoodInv
<1>13. \A x \in Succ(v)' : x \in Succ(v) \/ \E c \in Succ(v) : x \in Succ(c)
  <2> SUFFICES ASSUME NEW x \in Succ(v)'
               PROVE  x \in Succ(v) \/ \E c \in Succ(v) : x \in Succ(c)
    BY ZenonT(60)
  <2>1. tag[v] # "weak" /\ x # Nil
    BY <1>1 DEF Succ
  <2>2. PICK f \in Field : x = Skip_forward(field[v][f])
    BY <1>1, <1>2, <1>3, <2>1 DEF Succ, TypeOK
  <2>3. CASE field[v][f] # Nil /\ tag[field[v][f]] = "forward"
    <3> DEFINE c == field[v][f]
    <3>1. c \in Succ(v)
      BY <1>3, <2>1, <2>3 DEF Succ
    <3>2. c \in Block /\ color[c] # "blue"
      BY <1>12, <3>1 DEF Good
    <3>3. x = field[c][1] /\ tag[c] # "weak"
      BY <2>2, <2>3 DEF Skip_forward
    <3>4. x \in Succ(c)
      BY <2>1, <3>2, <3>3, Consts DEF Succ
    <3> QED
      BY <3>1, <3>4
  <2>4. CASE ~ (field[v][f] # Nil /\ tag[field[v][f]] = "forward")
    BY <1>3, <2>1, <2>2, <2>4 DEF Skip_forward, Succ
  <2> QED
    BY <2>3, <2>4
<1>14. TypeOK'
  <2>1. field' \in [Block -> [Field -> Val]]
    BY <1>1, <1>2, <1>3, <1>9 DEF TypeOK
  <2>2. color' \in [Block -> {"white", "gray", "black", "blue"}]
    BY <1>1, <1>2, <1>3 DEF TypeOK
  <2> QED
    BY <1>1, <1>2, <1>3, <1>4, <1>10, <2>1, <2>2 DEF TypeOK
<1>15. /\ StrongRoots' = StrongRoots /\ FinalVals' = FinalVals /\ Listed' = Listed
       /\ Cleaned' = Cleaned
  BY <1>1 DEF StrongRoots, FinalVals, Listed, Cleaned, Visited
<1>16. /\ \A a \in Listed : field'[a] = field[a]
       /\ Cleaned \subseteq Listed
  <2>1. \A a \in Listed : a \in Block /\ tag[a] = "weak"
    BY DEF IInv, WeakHeld, GoodInv, Good
  <2>2. weak_prev \in 0 .. Len(weak_list) /\ Len(weak_list) \in Nat
    BY <1>2 DEF TypeOK
  <2> QED
    BY SMTT(60), <1>1, <1>2, <1>3, <2>1, <2>2 DEF TypeOK, Cleaned, Visited, Listed
<1>17. GoodInv'
  <2>1. \A b \in Good : Succ(b)' \subseteq Good
    BY <1>10, <1>12, <1>13 DEF IInv, GoodInv, Good
  <2> QED
    BY <1>1, <1>11, <1>12, <1>15, <1>16, <2>1 DEF IInv, GoodInv
<1>18. MarkInv'
  <2> SUFFICES ASSUME NEW S \in SUBSET Block, Covers(S)'
               PROVE  Spares(S \cup Colored("black"))'
    BY SMTT(60) DEF MarkInv
  <2> DEFINE R == S \cup {v}
             T == R \cup Colored("black")
  <2>1. Succ(v) \subseteq S
    BY ZenonT(60), <1>1 DEF Covers
  <2>2. \A b \in S : b # v /\ color[b] # "black" => Succ(b) \subseteq S
    BY <1>1, <1>2, <1>3, <1>10 DEF Covers, TypeOK
  <2>3. Colored("gray") \subseteq R
    BY <1>1, <1>2, <1>3 DEF Covers, Colored, TypeOK
  <2>4. Covers(R)
    BY <1>1, <2>1, <2>2, <2>3 DEF Covers
  <2>5. Spares(T)
    BY <1>1, <1>3, <2>4 DEF IInv, MarkInv
  <2>6. (S \cup Colored("black"))' = T
    BY <1>1, <1>2, <1>3 DEF Colored, TypeOK
  <2>7. \A b \in Colored("black")' : Succ(b)' \subseteq T
    <3>1. \A b \in Block : color'[b] = "black" /\ b # v => color[b] = "black"
      BY <1>1, <1>2, <1>3 DEF TypeOK
    <3>2. \A c \in Succ(v) : Succ(c) \subseteq T
      <4> SUFFICES ASSUME NEW c \in Succ(v) PROVE Succ(c) \subseteq T
        OBVIOUS
      <4>1. c \in S /\ c \in Block
        BY <2>1
      <4>2. CASE color[c] = "black"
        BY <2>5, <4>1, <4>2 DEF Spares, Colored
      <4>3. CASE color[c] # "black"
        BY <2>1, <2>2, <4>1, <4>3
      <4> QED
        BY <4>2, <4>3
    <3>3. Succ(v)' \subseteq T
      BY <1>13, <2>1, <3>2
    <3> QED
      BY <1>10, <2>5, <3>1, <3>3 DEF Spares, Colored
  <2>8. \A a \in Cleaned, f \in Field : field'[a][f] \in T \cup {Nil}
    BY <1>16, <2>5 DEF Spares
  <2> QED
    BY <1>1, <1>15, <2>5, <2>6, <2>7, <2>8 DEF Spares
<1>19. WeakHeld'
  <2>1. \A a \in Block : tag[a] = "weak" => \A b \in Good : a \notin Succ(b)'
    <3> SUFFICES ASSUME NEW a \in Block, tag[a] = "weak", NEW b \in Good, a \in Succ(b)'
                 PROVE  FALSE
      OBVIOUS
    <3>1. b \in Block /\ a \notin Succ(b)
      BY DEF IInv, WeakHeld, Good
    <3>2. b = v /\ \E c \in Succ(v) : a \in Succ(c)
      BY <1>10, <1>13, <3>1
    <3> QED
      BY <1>12, <3>2 DEF IInv, WeakHeld
  <2>2. tag' = tag /\ roots' = roots /\ finalisable' = finalisable /\ finalising' = finalising
    BY <1>1
  <2>3. /\ \A a \in roots' : tag'[a] = "weak" => a \in Listed'
        /\ \A a \in Listed' : tag'[a] = "weak"
    BY <1>15, <2>2 DEF IInv, WeakHeld
  <2>4. ASSUME NEW a \in Block, tag'[a] = "weak"
        PROVE  /\ \A b \in Good' : a \notin Succ(b)'
               /\ \A b \in Listed', f \in Field : field'[b][f] # a
               /\ \A e \in finalisable' \cup finalising' : e.fun # a /\ e.val # a
    <3>1. tag[a] = "weak"
      BY <2>2, <2>4
    <3>2. /\ \A b \in Listed, f \in Field : field[b][f] # a
          /\ \A e \in finalisable \cup finalising : e.fun # a /\ e.val # a
      BY <3>1 DEF IInv, WeakHeld
    <3>3. \A b \in Good' : a \notin Succ(b)'
      BY <1>11, <2>1, <3>1
    <3>4. \A b \in Listed', f \in Field : field'[b][f] # a
      BY <1>15, <1>16, <3>2
    <3> QED
      BY <2>2, <3>2, <3>3, <3>4
  <2> QED
    BY <2>3, <2>4 DEF WeakHeld
<1>20. FinalBlocks' /\ PhaseColors' /\ Quiet'
  BY <1>1 DEF IInv, FinalBlocks, PhaseColors, Quiet
<1> QED
  BY <1>6, <1>7, <1>14, <1>17, <1>18, <1>19, <1>20 DEF IInv

\* The part of the invariant that is not about the mark stack depends on
\* the heap, the roots, the tables and the phase only.
LEMMA Frame ==
  ASSUME IInv, UNCHANGED <<heapVars, roots, gc_phase, gc_subphase, gc_sweep_hp,
                           weakVars, finalVars, pending>>
  PROVE  GoodInv' /\ MarkInv' /\ WeakHeld' /\ FinalBlocks'
<1> USE DEF heapVars, weakVars, finalVars
<1>1. /\ Good' = Good /\ StrongRoots' = StrongRoots /\ FinalVals' = FinalVals
      /\ Listed' = Listed /\ Cleaned' = Cleaned
      /\ Colored("black")' = Colored("black") /\ Colored("gray")' = Colored("gray")
  BY DEF Good, StrongRoots, FinalVals, Listed, Cleaned, Visited, Colored
<1>2. \A b : Succ(b)' = Succ(b)
  BY DEF Succ
<1>3. GoodInv' /\ WeakHeld' /\ FinalBlocks'
  BY <1>1, <1>2 DEF IInv, GoodInv, WeakHeld, FinalBlocks
<1>4. \A S : Covers(S)' = Covers(S)
  BY <1>1, <1>2 DEF Covers
<1>5. \A S : Spares(S \cup Colored("black"))' = Spares(S \cup Colored("black"))
  BY <1>1, <1>2 DEF Spares
<1>6. MarkInv'
  BY ZenonT(60), <1>4, <1>5 DEF IInv, MarkInv
<1> QED
  BY <1>3, <1>6

\* The scan of the heap for gray blocks moves markhp past a block it pushes.
LEMMA MarkHeap == ASSUME IInv, mark_heap PROVE IInv'
<1> USE DEF weakVars, finalVars, heapVars
<1>1. /\ pending = {} /\ gc_phase = "mark" /\ gray_vals = <<>> /\ markhp # NULL
      /\ UNCHANGED <<heapVars, roots, gc_phase, gc_subphase, gc_sweep_hp,
                     gray_vals_size, heap_is_pure, weakVars, finalVars, pending>>
  BY DEF mark_heap, StackEmpty
<1>2. GoodInv' /\ MarkInv' /\ WeakHeld' /\ FinalBlocks'
  BY <1>1, Frame
<1>3. PhaseColors' /\ Quiet'
  BY <1>1 DEF PhaseColors, Quiet
<1>4. TypeOK /\ HeapPure /\ markhp \in 1 .. Limit
  BY <1>1 DEF IInv, TypeOK, NULL
<1>5. CASE markhp = Limit /\ markhp' = NULL /\ UNCHANGED gray_vals
  <2>1. TypeOK'
    BY <1>1, <1>4, <1>5, NAssumption DEF TypeOK, NULL, Limit
  <2>2. \A b \in Block : b < Limit
    BY NAssumption DEF Block, Limit
  <2>3. HeapPure'
    BY <1>1, <1>4, <1>5, <2>2 DEF HeapPure, Colored
  <2>4. GrayStack'
    BY <1>1, <1>5 DEF IInv, GrayStack
  <2> QED
    BY <1>2, <1>3, <2>1, <2>3, <2>4 DEF IInv
<1>6. CASE /\ markhp # Limit /\ markhp' = markhp + 1
           /\ gray_vals' = IF color[markhp] = "gray" THEN <<markhp>> ELSE <<>>
  <2>1. markhp \in Block /\ markhp' \in 0 .. Limit
    BY <1>4, <1>6, NAssumption DEF Block, Limit
  <2>2. gray_vals' \in Seq(Block)
    BY <1>6, <2>1
  <2>3. TypeOK'
    BY <1>1, <1>4, <2>1, <2>2 DEF TypeOK
  <2>4. CASE color[markhp] = "gray"
    <3>1. gray_vals' = <<markhp>> /\ Len(gray_vals') = 1 /\ gray_vals'[1] = markhp
      BY <1>6, <2>4
    <3>2. GrayStack'
      BY <1>1, <2>1, <2>4, <3>1 DEF GrayStack
    <3>3. HeapPure'
      <4> SUFFICES ASSUME heap_is_pure, NEW b \in Block, color[b] = "gray",
                          markhp' = NULL \/ b < markhp'
                   PROVE  b = markhp
        BY <1>1, <3>1 DEF HeapPure, Colored
      <4>1. b < markhp \/ b = markhp
        BY <1>4, <1>6, Consts DEF NULL, Limit, Block
      <4> QED
        BY <1>1, <1>4, <4>1 DEF HeapPure, Colored
    <3> QED
      BY <1>2, <1>3, <2>3, <3>2, <3>3 DEF IInv
  <2>5. CASE color[markhp] # "gray"
    <3>1. gray_vals' = <<>>
      BY <1>6, <2>5
    <3>2. GrayStack'
      BY <3>1 DEF GrayStack
    <3>3. HeapPure'
      <4> SUFFICES ASSUME heap_is_pure, NEW b \in Block, color[b] = "gray",
                          markhp' = NULL \/ b < markhp'
                   PROVE  FALSE
        BY <1>1, <3>1 DEF HeapPure, Colored
      <4>1. b < markhp
        BY <1>4, <1>6, <2>5, Consts DEF NULL, Limit, Block
      <4> QED
        BY <1>1, <1>4, <4>1 DEF HeapPure, Colored
    <3> QED
      BY <1>2, <1>3, <2>3, <3>2, <3>3 DEF IInv
  <2> QED
    BY <2>4, <2>5
<1> QED
  BY <1>5, <1>6 DEF mark_heap

\* A rescan starts from the first block, so the heap is pure again.
LEMMA MarkRescan == ASSUME IInv, mark_rescan PROVE IInv'
<1>1. /\ gc_phase = "mark" /\ heap_is_pure' = TRUE /\ markhp' = 1
      /\ UNCHANGED <<heapVars, roots, gc_phase, gc_subphase, gc_sweep_hp, gray_vals,
                     gray_vals_size, weakVars, finalVars, pending>>
  BY DEF mark_rescan, StackEmpty
<1>2. GoodInv' /\ MarkInv' /\ WeakHeld' /\ FinalBlocks'
  BY <1>1, Frame
<1>3. TypeOK'
  BY <1>1, NAssumption DEF IInv, TypeOK, heapVars, weakVars, finalVars, Limit
<1>4. GrayStack' /\ PhaseColors' /\ Quiet'
  BY <1>1 DEF IInv, GrayStack, PhaseColors, Quiet, heapVars
<1>5. HeapPure'
  BY <1>1, NAssumption DEF HeapPure, Colored, Block, NULL
<1> QED
  BY <1>2, <1>3, <1>4, <1>5 DEF IInv

\* With nothing left to mark, the blocks to be spared are the black ones.
LEMMA MarkMainDone == ASSUME IInv, mark_main_done PROVE IInv'
<1> USE DEF heapVars, stackVars, finalVars
<1>1. /\ MarkDone /\ gc_phase = "mark" /\ gc_subphase' = "weak" /\ weak_prev' = 0
      /\ UNCHANGED <<heapVars, roots, gc_phase, markhp, gc_sweep_hp, stackVars,
                     weak_list, finalVars, pending>>
  BY DEF mark_main_done, MarkDone, StackEmpty
<1>2. TypeOK'
  <2>1. Len(weak_list) \in Nat
    BY DEF IInv, TypeOK
  <2> QED
    BY <1>1, <2>1 DEF IInv, TypeOK
<1>3. GrayStack' /\ HeapPure' /\ PhaseColors' /\ Quiet' /\ FinalBlocks'
  <2>1. GrayStack' /\ HeapPure' /\ PhaseColors'
    BY <1>1, MarkerFrame DEF IInv
  <2>2. Quiet' /\ FinalBlocks'
    BY <1>1 DEF IInv, Quiet, FinalBlocks
  <2> QED
    BY <2>1, <2>2
<1>4. /\ Good' = Good /\ StrongRoots' = StrongRoots /\ FinalVals' = FinalVals
      /\ Listed' = Listed /\ Colored("black")' = Colored("black")
  BY <1>1 DEF Good, StrongRoots, FinalVals, Listed, Colored
<1>5. \A b : Succ(b)' = Succ(b)
  BY <1>1 DEF Succ
<1>6. GoodInv' /\ WeakHeld'
  BY <1>1, <1>4, <1>5 DEF IInv, GoodInv, WeakHeld
<1>7. MarkInv'
  <2>1. Cleaned' = {}
    BY <1>1 DEF Cleaned, Visited
  <2>2. Spares(Colored("black"))'
    BY <1>1, <1>4, <1>5, <2>1, MarkDoneFacts DEF Spares
  <2> QED
    BY <2>2 DEF MarkInv, Spares
<1> QED
  BY <1>2, <1>3, <1>6, <1>7 DEF IInv
=============================================================================
