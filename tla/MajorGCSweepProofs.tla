------------------------- MODULE MajorGCSweepProofs -------------------------
(***************************************************************************)
(* The weak and the final subphase of marking and the sweep preserve IInv. *)
(***************************************************************************)
EXTENDS MajorGCMarkProofs

\* The concatenation of two sequences.
LEMMA ConcatFacts ==
  ASSUME NEW D, NEW s \in Seq(D), NEW t \in Seq(D)
  PROVE  /\ s \o t \in Seq(D) /\ Len(s \o t) = Len(s) + Len(t)
         /\ \A i \in 1 .. Len(s) : (s \o t)[i] = s[i]
         /\ \A i \in Len(s) + 1 .. Len(s) + Len(t) : (s \o t)[i] = t[i - Len(s)]
OBVIOUS

\* What Unlink returns.
LEMMA UnlinkFacts ==
  ASSUME NEW D, NEW s \in Seq(D), NEW k \in 0 .. Len(s) - 1
  PROVE  /\ Unlink(s, k) \in Seq(D) /\ Len(Unlink(s, k)) = Len(s) - 1
         /\ \A i \in 1 .. k : Unlink(s, k)[i] = s[i]
         /\ \A i \in k + 1 .. Len(s) - 1 : Unlink(s, k)[i] = s[i + 1]
<1> DEFINE p == SubSeq(s, 1, k)
           q == SubSeq(s, k + 2, Len(s))
<1>1. Len(s) \in Nat /\ k \in 0 .. Len(s)
  OBVIOUS
<1>2. p \in Seq(D) /\ Len(p) = k /\ \A i \in 1 .. k : p[i] = s[i]
  BY <1>1, PrefixFacts
<1>3. q \in Seq(D) /\ Len(q) = Len(s) - 1 - k
      /\ \A i \in 1 .. Len(s) - 1 - k : q[i] = s[i + k + 1]
  BY <1>1
<1> HIDE DEF p, q
<1> DEFINE r == Unlink(s, k)
<1>4. r = p \o q
  BY DEF p, q, Unlink
<1> HIDE DEF r
<1>5. /\ r \in Seq(D) /\ Len(r) = Len(s) - 1
      /\ \A i \in 1 .. k : r[i] = p[i]
      /\ \A i \in k + 1 .. Len(s) - 1 : r[i] = q[i - k]
  <2>1. /\ p \o q \in Seq(D) /\ Len(p \o q) = Len(p) + Len(q)
        /\ \A i \in 1 .. Len(p) : (p \o q)[i] = p[i]
        /\ \A i \in Len(p) + 1 .. Len(p) + Len(q) : (p \o q)[i] = q[i - Len(p)]
    <3>1. p \in Seq(D) /\ q \in Seq(D)
      BY <1>2, <1>3
    <3> QED
      BY <3>1, ConcatFacts
  <2>2. Len(p) = k /\ Len(p) + Len(q) = Len(s) - 1
    BY <1>1, <1>2, <1>3
  <2> QED
    BY SMTT(60), <1>4, <2>1, <2>2
<1>6. \A i \in k + 1 .. Len(s) - 1 : i - k \in 1 .. Len(s) - 1 - k /\ (i - k) + k + 1 = i + 1
  BY <1>1
<1>7. \A i \in k + 1 .. Len(s) - 1 : r[i] = s[i + 1]
  BY ZenonT(60), <1>3, <1>5, <1>6
<1> QED
  BY <1>2, <1>5, <1>7 DEF r

\* Following Forward blocks from a value that a good block or a weak pointer
\* holds never leaves the good blocks, and never meets a weak array.
LEMMA ChainFacts ==
  ASSUME IInv, gc_phase = "mark", NEW L, L \subseteq Forwards,
         NEW v \in Val, v # Nil => v \in Good /\ tag[v] # "weak",
         NEW w \in Chain(v, L), w # Nil
  PROVE  w \in Good /\ tag[w] # "weak"
<1> DEFINE K == {x \in Val : x # Nil => x \in Good /\ tag[x] # "weak"}
<1>1. v \in K /\ K \in SUBSET Val
  OBVIOUS
<1>2. ASSUME NEW b \in K \cap L PROVE field[b][1] \in K
  <2>1. b \in Good /\ b \in Block /\ tag[b] = "forward"
    BY Consts DEF Forwards
  <2>2. field[b][1] \in Val
    BY <2>1, Consts DEF IInv, TypeOK
  <2>3. ASSUME field[b][1] # Nil PROVE field[b][1] \in Good /\ tag[field[b][1]] # "weak"
    <3>1. field[b][1] \in Succ(b)
      BY <2>1, <2>3, Consts DEF Succ, Good
    <3>2. Succ(b) \subseteq Good
      BY <2>1 DEF IInv, GoodInv
    <3> QED
      BY <2>1, <3>1, <3>2 DEF IInv, WeakHeld, Good
  <2> QED
    BY <2>2, <2>3
<1> HIDE DEF K
<1>3. w \in K
  BY <1>1, <1>2 DEF Chain
<1> QED
  BY <1>3 DEF K

\* Going through a weak array unlinks it when it is white; otherwise its
\* cells are left with marked blocks only.
LEMMA MarkWeakArray == ASSUME IInv, mark_weak_array PROVE IInv'
<1> USE DEF phaseVars, stackVars, finalVars
<1>1. /\ MarkDone /\ gc_phase = "mark" /\ gc_subphase = "weak"
      /\ weak_prev < Len(weak_list)
      /\ UNCHANGED <<color, tag, roots, phaseVars, stackVars, finalVars, pending>>
  BY DEF mark_weak_array, MarkDone, StackEmpty
<1>2. TypeOK /\ Colored("gray") = {} /\ Spares(Colored("black"))
  BY <1>1, MarkDoneFacts DEF IInv
<1>3. Len(weak_list) \in Nat /\ weak_prev \in 0 .. Len(weak_list) - 1
  BY <1>1, <1>2 DEF TypeOK
<1>4. PICK cur \in Block : cur = weak_list[weak_prev + 1]
  BY <1>2, <1>3 DEF TypeOK
<1>5. cur \in Listed /\ tag[cur] = "weak" /\ cur \in Good
  BY <1>3, <1>4 DEF Listed, IInv, WeakHeld, GoodInv
<1>6. /\ StrongRoots' = StrongRoots /\ FinalVals' = FinalVals /\ Good' = Good
      /\ Colored("black")' = Colored("black") /\ Colored("gray")' = Colored("gray")
  BY <1>1 DEF StrongRoots, FinalVals, Good, Colored
<1>7. GrayStack' /\ HeapPure' /\ PhaseColors' /\ Quiet' /\ FinalBlocks'
  BY <1>1, <1>6 DEF IInv, GrayStack, HeapPure, PhaseColors, Quiet, FinalBlocks
<1>8. CASE /\ color[cur] = "white" /\ UNCHANGED <<weak_prev, field>>
           /\ weak_list' = Unlink(weak_list, weak_prev)
  <2>1. /\ weak_list' \in Seq(Block) /\ Len(weak_list') = Len(weak_list) - 1
        /\ \A i \in 1 .. weak_prev : weak_list'[i] = weak_list[i]
        /\ \A i \in weak_prev + 1 .. Len(weak_list) - 1 : weak_list'[i] = weak_list[i + 1]
    <3>1. weak_list \in Seq(Block) /\ weak_prev \in 0 .. Len(weak_list) - 1
      BY <1>2, <1>3 DEF TypeOK
    <3> QED
      BY <1>8, <3>1, UnlinkFacts
  <2>2. TypeOK'
    BY <1>1, <1>2, <1>3, <1>8, <2>1 DEF TypeOK
  <2>3. Listed' \subseteq Listed
    <3>1. ASSUME NEW i \in 1 .. Len(weak_list) - 1
          PROVE  \E j \in 1 .. Len(weak_list) : weak_list'[i] = weak_list[j]
      BY <1>3, <2>1
    <3> QED
      BY <2>1, <3>1 DEF Listed
  <2>4. \A x \in Listed : x # cur => x \in Listed'
    <3> SUFFICES ASSUME NEW i \in 1 .. Len(weak_list), weak_list[i] # cur
                 PROVE  \E j \in 1 .. Len(weak_list) - 1 : weak_list'[j] = weak_list[i]
      BY <2>1 DEF Listed
    <3>1. i # weak_prev + 1
      BY <1>4
    <3>2. CASE i <= weak_prev
      BY <1>3, <2>1, <3>2
    <3>3. CASE i > weak_prev
      <4>1. i - 1 \in weak_prev + 1 .. Len(weak_list) - 1 /\ (i - 1) + 1 = i
        BY <1>3, <3>1, <3>3
      <4>2. weak_list'[i - 1] = weak_list[i]
        BY <2>1, <4>1
      <4>3. i - 1 \in 1 .. Len(weak_list) - 1
        BY <1>3, <4>1
      <4> QED
        BY <4>2, <4>3
    <3> QED
      BY <1>3, <3>2, <3>3
  <2>5. Cleaned' = Cleaned
    BY <1>1, <1>3, <1>8, <2>1 DEF Cleaned, Visited
  <2>6. \A b : Succ(b)' = Succ(b)
    BY <1>1, <1>8 DEF Succ
  <2>7. cur \notin roots
    <3>1. roots \subseteq StrongRoots
      BY <1>2, Consts DEF StrongRoots, TypeOK
    <3> QED
      BY <1>2, <1>8, <3>1 DEF Spares, Colored
  <2>8. GoodInv'
    BY <1>1, <1>6, <1>8, <2>3, <2>6 DEF IInv, GoodInv
  <2>9. WeakHeld'
    BY <1>1, <1>6, <1>8, <2>3, <2>4, <2>6, <2>7 DEF IInv, WeakHeld
  <2>10. MarkInv'
    BY <1>1, <1>2, <1>6, <1>8, <2>5, <2>6 DEF MarkInv, Spares
  <2> QED
    BY <1>7, <2>2, <2>8, <2>9, <2>10 DEF IInv
<1>9. CASE /\ color[cur] # "white" /\ weak_prev' = weak_prev + 1 /\ UNCHANGED weak_list
           /\ \E end \in [Field -> Val] :
                /\ \A f \in Field : end[f] \in ForwardEnd(field[cur][f], Forwards)
                /\ field' = [field EXCEPT ![cur] =
                      [f \in Field |-> IF end[f] # Nil /\ color[end[f]] = "white"
                                       THEN Nil ELSE end[f]]]
  <2>1. PICK end \in [Field -> Val] :
          /\ \A f \in Field : end[f] \in ForwardEnd(field[cur][f], Forwards)
          /\ field' = [field EXCEPT ![cur] =
                [f \in Field |-> IF end[f] # Nil /\ color[end[f]] = "white"
                                 THEN Nil ELSE end[f]]]
    BY ZenonT(60), <1>9
  <2>2. \A f \in Field : end[f] # Nil => end[f] \in Good /\ tag[end[f]] # "weak"
    <3> SUFFICES ASSUME NEW f \in Field, end[f] # Nil
                 PROVE  end[f] \in Good /\ tag[end[f]] # "weak"
      OBVIOUS
    <3>1. field[cur][f] \in Val
      BY <1>2 DEF TypeOK
    <3>2. field[cur][f] # Nil => field[cur][f] \in Good /\ tag[field[cur][f]] # "weak"
      BY <1>5 DEF IInv, GoodInv, WeakHeld, Good
    <3>3. end[f] \in Chain(field[cur][f], Forwards)
      BY <2>1 DEF ForwardEnd
    <3> QED
      BY <1>1, <3>1, <3>2, <3>3, ChainFacts
  <2>3. /\ \A f \in Field : field'[cur][f] \in Val
        /\ \A f \in Field : field'[cur][f] # Nil =>
              field'[cur][f] = end[f] /\ color[end[f]] # "white"
        /\ \A b \in Block : b # cur => field'[b] = field[b]
        /\ field' \in [Block -> [Field -> Val]]
    <3> DEFINE g == [f \in Field |-> IF end[f] # Nil /\ color[end[f]] = "white"
                                     THEN Nil ELSE end[f]]
    <3>1. g \in [Field -> Val]
      BY Consts
    <3>2. \A f \in Field : g[f] # Nil => g[f] = end[f] /\ color[end[f]] # "white"
      OBVIOUS
    <3>3. field' = [field EXCEPT ![cur] = g] /\ field \in [Block -> [Field -> Val]]
      BY <1>2, <2>1 DEF TypeOK
    <3> HIDE DEF g
    <3> QED
      BY <3>1, <3>2, <3>3
  <2>4. TypeOK'
    BY <1>1, <1>2, <1>3, <1>9, <2>3 DEF TypeOK
  <2>5. \A b \in Block : Succ(b)' = Succ(b)
    <3> SUFFICES ASSUME NEW b \in Block PROVE Succ(b)' = Succ(b)
      OBVIOUS
    <3>1. CASE b = cur
      BY <1>1, <1>5, <3>1 DEF Succ
    <3>2. CASE b # cur
      <4>1. field'[b] = field[b] /\ color' = color /\ tag' = tag
        BY <1>1, <2>3, <3>2
      <4> QED
        BY <4>1 DEF Succ
    <3> QED
      BY <3>1, <3>2
  <2>6. Listed' = Listed /\ Listed \subseteq Good
    BY <1>9 DEF Listed, IInv, GoodInv
  <2>7. \A f \in Field : field'[cur][f] # Nil => /\ field'[cur][f] \in Good
                                                  /\ tag[field'[cur][f]] # "weak"
                                                  /\ color[field'[cur][f]] # "white"
    BY <2>2, <2>3
  <2>8. GoodInv'
    <3>1. \A a \in Listed, f \in Field : field'[a][f] \in Good \cup {Nil}
      BY SMTT(60), <2>3, <2>6, <2>7 DEF IInv, GoodInv, Good
    <3> QED
      BY SMTT(60), <1>1, <1>6, <2>5, <2>6, <3>1 DEF IInv, GoodInv, Good
  <2>9. WeakHeld'
    <3>1. \A a \in Block : tag[a] = "weak" =>
            \A b \in Listed, f \in Field : field'[b][f] # a
      <4> SUFFICES ASSUME NEW a \in Block, tag[a] = "weak",
                          NEW b \in Listed, NEW f \in Field, field'[b][f] = a
                   PROVE  FALSE
        OBVIOUS
      <4>1. CASE b = cur
        BY <2>7, <4>1, Consts
      <4>2. CASE b # cur
        BY <2>3, <2>6, <4>2 DEF IInv, WeakHeld, Good
      <4> QED
        BY <4>1, <4>2
    <3> QED
      BY ZenonT(60), <1>1, <1>6, <2>5, <2>6, <3>1 DEF IInv, WeakHeld, Good
  <2>10. Cleaned' = Cleaned \cup {cur} /\ Cleaned \subseteq Listed
    <3>1. /\ 1 .. weak_prev + 1 = (1 .. weak_prev) \cup {weak_prev + 1}
          /\ 1 .. weak_prev \subseteq 1 .. Len(weak_list)
      BY <1>3
    <3>2. Cleaned = Visited /\ Cleaned' = {weak_list[i] : i \in 1 .. weak_prev + 1}
      BY <1>1, <1>9 DEF Cleaned, Visited
    <3> QED
      BY <1>4, <3>1, <3>2 DEF Visited, Listed
  <2>11. Spares(Colored("black"))'
    <3>1. \A b \in Good : color[b] # "white" => b \in Colored("black")
      BY <1>2 DEF Good, Colored, TypeOK
    <3>2. cur \in Colored("black")
      BY SMTT(60), <1>5, <1>9, <3>1
    <3>3. \A a \in Cleaned \cup {cur}, f \in Field :
             field'[a][f] \in Colored("black") \cup {Nil}
      BY <1>2, <2>3, <2>6, <2>7, <2>10, <3>1 DEF Spares, Good
    <3> QED
      BY <1>1, <1>2, <1>6, <2>5, <2>10, <3>2, <3>3 DEF Spares, Colored
  <2>12. MarkInv'
    BY ZenonT(60), <2>11 DEF MarkInv, Spares
  <2> QED
    BY <1>7, <2>4, <2>8, <2>9, <2>12 DEF IInv
<1> QED
  BY ZenonT(60), <1>4, <1>8, <1>9 DEF mark_weak_array

\* With no Forward block registered, final_update moves the entries whose
\* value is white.
LEMMA FinalUpdateFacts ==
  ASSUME IInv, mark_weak_done
  PROVE  /\ finalisable' = finalisable \ {e \in finalisable : color[e.val] = "white"}
         /\ finalising' = finalising \cup {e \in finalisable : color[e.val] = "white"}
         /\ pending' = {e.val : e \in {d \in finalisable : color[d.val] = "white"}}
<1> DEFINE Dead == {e \in finalisable : color[e.val] = "white"}
<1>0. TypeOK
  BY SMTT(60) DEF IInv
<1>1. PICK end \in [finalisable -> Val] :
        /\ \A e \in finalisable :
             end[e] \in ForwardEnd(e.val, Forwards \cap Colored("white"))
        /\ LET Seen == {[fun |-> e.fun, val |-> end[e]] : e \in finalisable}
               D == {e \in Seen : e.val # Nil /\ color[e.val] = "white"}
           IN  /\ finalisable' = Seen \ D
               /\ finalising' = finalising \cup D
               /\ pending' = {e.val : e \in D}
  BY ZenonT(60) DEF mark_weak_done, final_update
<1>2. ASSUME NEW e \in finalisable PROVE end[e] = e.val
  <2> DEFINE L == Forwards \cap Colored("white")
  <2>1. e.val \in Val /\ e.val \notin L
    BY DEF IInv, FinalBlocks, TypeOK, Entry, Forwards
  <2>2. {e.val} \in SUBSET Val /\ {e.val} \cap L = {}
    BY <2>1
  <2>3. Chain(e.val, L) \subseteq {e.val}
    BY ZenonT(60), <2>2 DEF Chain
  <2> QED
    BY ZenonT(60), <1>1, <2>3 DEF ForwardEnd
<1>3. ASSUME NEW e \in finalisable PROVE [fun |-> e.fun, val |-> end[e]] = e
  BY <1>2, <1>0 DEF TypeOK, Entry
<1>4. {[fun |-> e.fun, val |-> end[e]] : e \in finalisable} = finalisable
  BY <1>3
<1>5. {e \in finalisable : e.val # Nil /\ color[e.val] = "white"} = Dead
  BY DEF IInv, FinalBlocks
<1> QED
  BY <1>1, <1>4, <1>5

\* The values final_update finds white become pending.
LEMMA MarkWeakDone == ASSUME IInv, mark_weak_done PROVE IInv'
<1> USE DEF heapVars, stackVars
<1>1. /\ MarkDone /\ gc_phase = "mark" /\ gc_subphase = "weak" /\ pending = {}
      /\ weak_prev = Len(weak_list) /\ gc_subphase' = "final" /\ weak_prev' = 0
      /\ UNCHANGED <<heapVars, roots, gc_phase, markhp, gc_sweep_hp, stackVars, weak_list>>
  BY DEF mark_weak_done, MarkDone, StackEmpty
<1>2. TypeOK /\ Colored("gray") = {} /\ Spares(Colored("black"))
  BY <1>1, MarkDoneFacts DEF IInv
<1> DEFINE Dead == {e \in finalisable : color[e.val] = "white"}
<1>3. /\ finalisable' = finalisable \ Dead
      /\ finalising' = finalising \cup Dead
      /\ pending' = {e.val : e \in Dead}
  BY FinalUpdateFacts
<1>4. \A e \in finalisable : e.val \in Good /\ e.val \in Block
  BY DEF IInv, GoodInv, FinalBlocks, FinalVals, Good
<1>5. TypeOK'
  <2>1. Len(weak_list) \in Nat
    BY <1>2 DEF TypeOK
  <2> QED
    BY SMTT(60), <1>1, <1>2, <1>3, <1>4, <2>1 DEF TypeOK
<1>6. GrayStack' /\ HeapPure' /\ PhaseColors' /\ Quiet' /\ FinalBlocks'
  <2>1. GrayStack' /\ HeapPure' /\ PhaseColors'
    BY <1>1, MarkerFrame DEF IInv
  <2>2. Quiet' /\ FinalBlocks'
    BY <1>1, <1>3 DEF IInv, Quiet, FinalBlocks
  <2> QED
    BY <2>1, <2>2
<1>7. Good' = Good /\ Listed' = Listed /\ Colored("black")' = Colored("black")
  BY <1>1 DEF Good, Listed, Colored
<1>8. StrongRoots' \subseteq StrongRoots \cup pending' /\ FinalVals' \subseteq FinalVals
  <2>1. \A e \in finalisable' : e \in finalisable
    BY <1>3
  <2>2. \A e \in finalising' : e \in finalising \/ (e \in finalisable /\ e.val \in pending')
    BY <1>3
  <2> HIDE DEF Dead
  <2>3. FinalVals' \subseteq FinalVals
    BY <2>1 DEF FinalVals
  <2>4. StrongRoots' \subseteq StrongRoots \cup pending'
    BY <1>1, <2>1, <2>2 DEF StrongRoots
  <2> QED
    BY <2>3, <2>4
<1>9. \A b : Succ(b)' = Succ(b)
  BY <1>1 DEF Succ
<1>10. GoodInv'
  <2>1. pending' \subseteq Good
    BY SMTT(60), <1>3, <1>4
  <2> QED
    BY <1>1, <1>7, <1>8, <1>9, <2>1 DEF IInv, GoodInv
<1>11. WeakHeld'
  BY <1>1, <1>3, <1>7, <1>9 DEF IInv, WeakHeld
<1>12. MarkInv'
  <2> SUFFICES ASSUME NEW S \in SUBSET Block, Covers(S)'
               PROVE  Spares(S \cup Colored("black"))'
    BY DEF MarkInv
  <2>1. pending' \subseteq S
    BY DEF Covers
  <2>2. Cleaned' = Listed /\ Cleaned = Listed
    BY <1>1 DEF Cleaned, Visited, Listed
  <2>3. FinalVals' \subseteq Colored("black")
    <3>1. ASSUME NEW e \in finalisable, e \notin Dead PROVE e.val \in Colored("black")
      BY <1>2, <1>4, <3>1 DEF Good, Colored, TypeOK
    <3> QED
      BY <1>3, <3>1 DEF FinalVals
  <2> QED
    BY <1>1, <1>2, <1>7, <1>8, <1>9, <2>1, <2>2, <2>3 DEF Spares
<1> QED
  BY <1>5, <1>6, <1>10, <1>11, <1>12 DEF IInv

\* At the start of the sweep the good blocks are the black ones.
LEMMA MarkFinalDone == ASSUME IInv, mark_final_done PROVE IInv'
<1> USE DEF heapVars, stackVars, weakVars, finalVars
<1>1. /\ MarkDone /\ gc_phase = "mark" /\ gc_subphase = "final"
      /\ pending = {} /\ gray_vals = <<>> /\ markhp = NULL /\ heap_is_pure
      /\ gc_phase' = "sweep" /\ gc_sweep_hp' = 1
      /\ UNCHANGED <<heapVars, roots, gc_subphase, markhp, stackVars, weakVars,
                     finalVars, pending>>
  BY DEF mark_final_done, MarkDone, StackEmpty
<1>2. TypeOK'
  BY SMTT(60), <1>1, NAssumption DEF IInv, TypeOK, Limit
<1>3. Colored("gray") = {} /\ Spares(Colored("black"))
  BY <1>1, MarkDoneFacts
<1>4. GrayStack' /\ HeapPure' /\ Quiet' /\ FinalBlocks'
  <2>1. Colored("gray")' = Colored("gray")
    BY <1>1 DEF Colored
  <2>2. GrayStack' /\ HeapPure'
    BY <1>1, <2>1 DEF IInv, GrayStack, HeapPure
  <2>3. Quiet' /\ FinalBlocks'
    BY <1>1 DEF IInv, Quiet, FinalBlocks
  <2> QED
    BY <2>2, <2>3
<1>5. PhaseColors'
  BY <1>1, <1>3, NAssumption DEF PhaseColors, Colored, Block
<1>6. Good' = Colored("black")
  BY SMTT(60), <1>1, <1>3, NAssumption DEF Good, Colored, Block, IInv, TypeOK
<1>7. /\ StrongRoots' = StrongRoots /\ FinalVals' = FinalVals
      /\ Listed' = Listed /\ Cleaned = Listed
  BY <1>1 DEF StrongRoots, FinalVals, Listed, Cleaned
<1>8. \A b : Succ(b)' = Succ(b)
  BY <1>1 DEF Succ
<1>9. GoodInv'
  BY <1>1, <1>3, <1>6, <1>7, <1>8 DEF GoodInv, Spares
<1>10. Colored("black") \subseteq Good
  BY SMTT(60), <1>1 DEF Colored, Good
<1>11. WeakHeld'
  BY ZenonT(60), <1>1, <1>6, <1>7, <1>8, <1>10 DEF IInv, WeakHeld
<1>12. MarkInv'
  BY <1>1 DEF MarkInv
<1> QED
  BY <1>2, <1>4, <1>5, <1>9, <1>11, <1>12 DEF IInv

\* Sweeping a block frees it when it is not good and whitens it otherwise.
LEMMA SweepBlock == ASSUME IInv, sweep_block PROVE IInv'
<1> USE DEF stackVars, weakVars, finalVars
<1>0. PICK b \in Block : b = gc_sweep_hp
  BY NAssumption DEF IInv, TypeOK, sweep_block, Block, Limit
<1>1. /\ gc_phase = "sweep" /\ gc_sweep_hp' = b + 1
      /\ UNCHANGED <<roots, gc_phase, gc_subphase, markhp, stackVars, weakVars,
                     finalVars, pending>>
      /\ \/ /\ color[b] = "white"
            /\ color' = [color EXCEPT ![b] = "blue"]
            /\ tag' = [tag EXCEPT ![b] = "scan"]
            /\ field' = [field EXCEPT ![b] = [f \in Field |-> Nil]]
         \/ color[b] = "blue" /\ UNCHANGED <<color, tag, field>>
         \/ /\ color[b] \in {"gray", "black"}
            /\ color' = [color EXCEPT ![b] = "white"]
            /\ UNCHANGED <<tag, field>>
  BY <1>0 DEF sweep_block, heapVars
<1>2. TypeOK /\ PhaseColors /\ pending = {}
  BY <1>1 DEF IInv, Quiet
<1>3. color[b] # "gray"
  BY <1>1, <1>2 DEF PhaseColors, Colored
<1>4. TypeOK'
  <2>1. gc_sweep_hp' \in 1 .. Limit
    BY <1>0, <1>1, NAssumption DEF Block, Limit
  <2>2. /\ color' \in [Block -> {"white", "gray", "black", "blue"}]
        /\ tag' \in [Block -> {"scan", "forward", "weak"}]
        /\ field' \in [Block -> [Field -> Val]]
    <3>1. [f \in Field |-> Nil] \in [Field -> Val]
      BY Consts
    <3>2. /\ color \in [Block -> {"white", "gray", "black", "blue"}]
          /\ tag \in [Block -> {"scan", "forward", "weak"}]
          /\ field \in [Block -> [Field -> Val]]
      BY <1>2 DEF TypeOK
    <3>3. field' = field \/ field' = [field EXCEPT ![b] = [f \in Field |-> Nil]]
      BY <1>1
    <3>4. field' \in [Block -> [Field -> Val]]
      BY <3>1, <3>2, <3>3
    <3>5. color' = color \/ \E c \in {"white", "blue"} : color' = [color EXCEPT ![b] = c]
      BY <1>1
    <3>6. tag' = tag \/ tag' = [tag EXCEPT ![b] = "scan"]
      BY <1>1
    <3> QED
      BY ZenonT(60), <3>2, <3>4, <3>5, <3>6
  <2> QED
    BY <1>1, <1>2, <2>1, <2>2 DEF TypeOK
<1>5. Good' = Good
  <2>0. \A c \in Block : c # b => (c >= b + 1) = (c >= b)
    BY DEF Block
  <2>1. \A c \in Block : c # b => color'[c] = color[c] /\ (c >= b + 1) = (c >= b)
    BY <1>1, <1>2, <2>0 DEF TypeOK
  <2>2. (color'[b] = "blue") = (color[b] \in {"white", "blue"})
    BY <1>1, <1>2, <1>3 DEF TypeOK
  <2>3. ~ (b >= b + 1) /\ b >= b
    BY DEF Block
  <2>4. ASSUME NEW c \in Block, c # b
        PROVE  c \in Good' <=> c \in Good
    BY <1>0, <1>1, <2>1, <2>4 DEF Good
  <2>5. b \in Good' <=> b \in Good
    BY <1>0, <1>1, <1>3, <2>2, <2>3 DEF Good
  <2>6. Good \subseteq Block /\ Good' \subseteq Block
    BY DEF Good
  <2> QED
    BY <2>4, <2>5, <2>6
<1>6. /\ StrongRoots' = StrongRoots /\ FinalVals' = FinalVals /\ Listed' = Listed
  BY SMTT(60), <1>1 DEF StrongRoots, FinalVals, Listed
<1>7. \A c \in Good : Succ(c)' = Succ(c) /\ field'[c] = field[c] /\ tag'[c] = tag[c]
  <2> SUFFICES ASSUME NEW c \in Good
               PROVE  Succ(c)' = Succ(c) /\ field'[c] = field[c] /\ tag'[c] = tag[c]
    OBVIOUS
  <2>1. c \in Block /\ ~ (c = b /\ color[b] = "white")
    BY <1>0, <1>1 DEF Good, Block
  <2>4. c # b => field'[c] = field[c] /\ tag'[c] = tag[c]
    BY <1>1, <1>2, <2>1 DEF TypeOK
  <2>2. field'[c] = field[c] /\ tag'[c] = tag[c]
    BY <1>1, <2>1, <2>4
  <2>3. (color'[c] = "blue") = (color[c] = "blue")
    BY <1>1, <1>2, <2>1 DEF TypeOK
  <2> QED
    BY <2>2, <2>3 DEF Succ
<1>8. GoodInv'
  BY SMTT(60), <1>1, <1>5, <1>6, <1>7 DEF IInv, GoodInv
<1>9. WeakHeld'
  <2>1. \A a \in Block : tag'[a] = "weak" => tag[a] = "weak"
    BY <1>1, <1>2 DEF TypeOK
  <2>2. roots \subseteq Good /\ Listed \subseteq Good
    <3>1. StrongRoots \cup Listed \subseteq Good
      BY DEF IInv, GoodInv
    <3>2. roots \subseteq StrongRoots
      BY <1>2, Consts DEF StrongRoots, TypeOK
    <3> QED
      BY <3>1, <3>2
  <2>3. \A a \in roots' : tag'[a] = "weak" => a \in Listed'
    BY <1>1, <1>6, <1>7, <2>2 DEF IInv, WeakHeld
  <2>4. \A a \in Listed' : tag'[a] = "weak"
    BY <1>6, <1>7, <2>2 DEF IInv, WeakHeld
  <2>5. ASSUME NEW a \in Block, tag'[a] = "weak"
        PROVE  /\ \A c \in Good' : a \notin Succ(c)'
               /\ \A c \in Listed', f \in Field : field'[c][f] # a
               /\ \A e \in finalisable' \cup finalising' : e.fun # a /\ e.val # a
    <3>1. /\ \A c \in Good : a \notin Succ(c)
          /\ \A c \in Listed, f \in Field : field[c][f] # a
          /\ \A e \in finalisable \cup finalising : e.fun # a /\ e.val # a
      BY <2>1, <2>5 DEF IInv, WeakHeld
    <3>2. \A c \in Good' : a \notin Succ(c)'
      BY <1>5, <1>7, <3>1
    <3>3. \A c \in Listed', f \in Field : field'[c][f] # a
      BY <1>6, <1>7, <2>2, <3>1
    <3>4. finalisable' = finalisable /\ finalising' = finalising
      BY <1>1
    <3> QED
      BY <3>1, <3>2, <3>3, <3>4
  <2> QED
    BY <2>3, <2>4, <2>5 DEF WeakHeld
<1>10. FinalBlocks'
  <2>1. \A e \in finalisable : e.val # Nil => e.val \in Good
    BY DEF IInv, GoodInv, FinalVals
  <2> QED
    BY SMTT(60), <1>1, <1>7, <2>1 DEF IInv, FinalBlocks
<1>11. Colored("gray")' = {} /\ gray_vals = <<>>
  BY <1>1, <1>2 DEF PhaseColors, Colored, TypeOK
<1>12. PhaseColors'
  <2>1. \A c \in Block : color'[c] = "black" => color[c] = "black" /\ c # b
    BY <1>1, <1>2, <1>3 DEF TypeOK
  <2>2. \A c \in Block : color[c] = "black" => c >= b
    BY <1>0, <1>1, <1>2 DEF PhaseColors, Colored
  <2>3. \A c \in Block : c >= b /\ c # b => c >= b + 1
    BY DEF Block
  <2> QED
    BY <1>1, <1>11, <2>1, <2>2, <2>3 DEF PhaseColors, Colored
<1>13. GrayStack' /\ HeapPure' /\ Quiet' /\ MarkInv'
  <2>1. GrayStack'
    BY <1>1, <1>11 DEF IInv, GrayStack
  <2>2. HeapPure'
    BY <1>1, <1>11 DEF HeapPure
  <2>3. Quiet'
    BY <1>1 DEF IInv, Quiet
  <2>4. MarkInv'
    BY <1>1 DEF MarkInv
  <2> QED
    BY <2>1, <2>2, <2>3, <2>4
<1> QED
  BY <1>4, <1>8, <1>9, <1>10, <1>12, <1>13 DEF IInv

\* A finished sweep leaves every block that is not free white and good.
LEMMA SweepDone == ASSUME IInv, sweep_done PROVE IInv'
<1> USE DEF heapVars, stackVars, weakVars, finalVars
<1>1. /\ gc_phase = "sweep" /\ gc_sweep_hp = Limit
      /\ gc_phase' = "idle" /\ gc_sweep_hp' = 1
      /\ UNCHANGED <<heapVars, roots, gc_subphase, markhp, stackVars, weakVars,
                     finalVars, pending>>
  BY DEF sweep_done
<1>2. \A b \in Block : ~ (b >= gc_sweep_hp)
  BY <1>1, NAssumption DEF Block, Limit
<1>3. Good' = Good
  BY <1>1, <1>2 DEF Good
<1>4. TypeOK'
  BY <1>1, NAssumption DEF IInv, TypeOK, Limit
<1>5. PhaseColors'
  BY SMTT(60), <1>1, <1>2 DEF IInv, PhaseColors, Colored
<1>6. GrayStack' /\ HeapPure' /\ Quiet' /\ MarkInv' /\ FinalBlocks'
  BY <1>1 DEF IInv, GrayStack, HeapPure, Quiet, MarkInv, FinalBlocks, Colored
<1>7. StrongRoots' = StrongRoots /\ FinalVals' = FinalVals /\ Listed' = Listed
  BY ZenonT(60), <1>1 DEF StrongRoots, FinalVals, Listed
<1>8. \A b : Succ(b)' = Succ(b)
  BY ZenonT(60), <1>1 DEF Succ
<1>9. GoodInv' /\ WeakHeld'
  BY <1>1, <1>3, <1>7, <1>8 DEF IInv, GoodInv, WeakHeld
<1> QED
  BY <1>4, <1>5, <1>6, <1>9 DEF IInv
=============================================================================
