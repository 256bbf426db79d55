------------------------- MODULE MajorGCAllocProofs -------------------------
(***************************************************************************)
(* Allocation, and assignment behind its deletion barrier, preserve IInv.  *)
(***************************************************************************)
EXTENDS MajorGCMarkProofs

\* What the program holds is good, and is spared.
LEMMA RootsGood ==
  ASSUME IInv
  PROVE  roots \subseteq StrongRoots /\ roots \subseteq Good /\ roots \subseteq Block
<1>1. roots \subseteq StrongRoots
  BY Consts DEF IInv, TypeOK, StrongRoots
<1> QED
  BY <1>1 DEF IInv, GoodInv, Good

\* Two elements of Val that are not Nil are blocks.
LEMMA ValBlock == \A v \in Val : v # Nil => v \in Block
BY DEF Val

\* What an allocation does: the new block is good at once, and black while
\* marking.
LEMMA AllocFacts ==
  ASSUME IInv, pending = {}, NEW b \in Block, NEW t \in {"scan", "weak"},
         NEW init \in [Field -> roots \cup {Nil}], alloc_shr(b, t, init),
         UNCHANGED <<phaseVars, stackVars, finalVars, pending>>
  PROVE  /\ color' \in [Block -> {"white", "gray", "black", "blue"}]
         /\ tag' \in [Block -> {"scan", "forward", "weak"}]
         /\ field' \in [Block -> [Field -> Val]] /\ roots' \subseteq Block
         /\ GrayStack' /\ HeapPure' /\ PhaseColors' /\ Quiet' /\ FinalBlocks'
         /\ Good' = Good \cup {b} /\ b \notin Good
         /\ StrongRoots' = StrongRoots \cup {b} /\ FinalVals' = FinalVals
         /\ \A c \in Block : c # b =>
               tag'[c] = tag[c] /\ field'[c] = field[c] /\ Succ(c)' = Succ(c)
         /\ tag'[b] = t /\ field'[b] = init
         /\ Succ(b)' \subseteq roots
         /\ gc_phase = "mark" =>
              /\ Colored("black")' = Colored("black") \cup {b}
              /\ \A S \in SUBSET Block : Covers(S)' => Covers(S)
<1> USE DEF phaseVars, stackVars, finalVars
<1>1. TypeOK /\ color[b] = "blue" /\ PhaseColors
  BY DEF IInv, alloc_shr
<1>2. PICK c0 \in {"black", "white"} :
        /\ color' = [color EXCEPT ![b] = c0]
        /\ c0 = "black" <=> gc_phase = "mark" \/ (gc_phase = "sweep" /\ b >= gc_sweep_hp)
  BY ZenonT(60) DEF alloc_shr, allocation_color
<1>3. tag' = [tag EXCEPT ![b] = t] /\ field' = [field EXCEPT ![b] = init]
      /\ roots' = roots \cup {b}
  BY DEF alloc_shr
<1>4. init \in [Field -> Val]
  BY ZenonT(60), <1>1, Consts DEF TypeOK
<1>5. /\ color' \in [Block -> {"white", "gray", "black", "blue"}]
      /\ tag' \in [Block -> {"scan", "forward", "weak"}]
      /\ field' \in [Block -> [Field -> Val]] /\ roots' \subseteq Block
  BY <1>1, <1>2, <1>3, <1>4 DEF TypeOK
<1>6. /\ color'[b] = c0 /\ tag'[b] = t /\ field'[b] = init
      /\ \A c \in Block : c # b => color'[c] = color[c] /\ tag'[c] = tag[c]
                                       /\ field'[c] = field[c]
  BY <1>1, <1>2, <1>3 DEF TypeOK
<1>7. Colored("gray")' = Colored("gray")
  BY <1>1, <1>6 DEF Colored
<1>8. GrayStack' /\ HeapPure'
  <2>1. \A i \in 1 .. Len(gray_vals) : gray_vals[i] \in Colored("gray")
    BY <1>1 DEF IInv, GrayStack, TypeOK, Colored
  <2>2. GrayStack'
    BY <1>7, <2>1 DEF IInv, GrayStack, Colored
  <2> QED
    BY <1>7, <2>2 DEF IInv, HeapPure
<1>9. PhaseColors' /\ Quiet'
  <2>1. \A c \in Block : color'[c] = "black" => color[c] = "black" \/ (c = b /\ c0 = "black")
    BY <1>6
  <2> QED
    BY <1>2, <1>7, <2>1 DEF IInv, PhaseColors, Quiet, Colored
<1>10. b \notin Good
  BY <1>1 DEF Good
<1>11. \A e \in finalisable : e.val \in Good /\ e.val \in Block
  BY DEF IInv, GoodInv, FinalBlocks, FinalVals, Good
<1>12. FinalBlocks'
  BY <1>6, <1>10, <1>11 DEF IInv, FinalBlocks
<1>13. Good' = Good \cup {b}
  <2>1. b \in Good'
    BY <1>2, <1>6 DEF Good
  <2>2. \A c \in Block : c # b => (c \in Good' <=> c \in Good)
    BY <1>6 DEF Good
  <2>3. Good \subseteq Block /\ Good' \subseteq Block
    BY DEF Good
  <2> QED
    BY <2>1, <2>2, <2>3
<1>14. StrongRoots' = StrongRoots \cup {b} /\ FinalVals' = FinalVals
  BY <1>3, Consts DEF StrongRoots, FinalVals
<1>15. ASSUME NEW c \in Block, c # b PROVE Succ(c)' = Succ(c)
  <2>1. color'[c] = color[c] /\ tag'[c] = tag[c] /\ field'[c] = field[c]
    BY <1>6, <1>15
  <2> QED
    BY <2>1 DEF Succ
<1>16. Succ(b)' \subseteq roots
  BY <1>6 DEF Succ
<1>17. ASSUME gc_phase = "mark"
       PROVE  /\ Colored("black")' = Colored("black") \cup {b}
              /\ \A S \in SUBSET Block : Covers(S)' => Covers(S)
  <2>1. c0 = "black"
    BY <1>2, <1>17
  <2>2. Colored("black")' = Colored("black") \cup {b}
    BY <1>6, <2>1 DEF Colored
  <2>3. ASSUME NEW S \in SUBSET Block, Covers(S)' PROVE Covers(S)
    <3>1. Colored("gray") \cup pending \subseteq S
      BY <1>7, <2>3 DEF Covers
    <3>2. ASSUME NEW c \in S, color[c] # "black" PROVE Succ(c) \subseteq S
      <4>1. CASE c = b
        BY <1>1, <4>1 DEF Succ
      <4>2. CASE c # b
        BY <1>6, <1>15, <2>3, <3>2, <4>2 DEF Covers
      <4> QED
        BY <4>1, <4>2
    <3> QED
      BY <3>1, <3>2 DEF Covers
  <2> QED
    BY <2>2, <2>3
<1> QED
  BY <1>5, <1>6, <1>8, <1>9, <1>10, <1>12, <1>13, <1>14, <1>15, <1>16, <1>17

\* Allocating an ordinary block keeps IInv.
LEMMA Alloc ==
  ASSUME IInv, SafeProgram, pending = {}, NEW b \in Block,
         NEW init \in [Field -> roots \cup {Nil}], alloc(b, init)
  PROVE  IInv'
<1>1. /\ \A f \in Field : Storable(init[f])
      /\ alloc_shr(b, "scan", init)
      /\ UNCHANGED <<phaseVars, stackVars, weakVars, finalVars, pending>>
  BY DEF alloc
<1>2. /\ color' \in [Block -> {"white", "gray", "black", "blue"}]
      /\ tag' \in [Block -> {"scan", "forward", "weak"}]
      /\ field' \in [Block -> [Field -> Val]] /\ roots' \subseteq Block
      /\ GrayStack' /\ HeapPure' /\ PhaseColors' /\ Quiet' /\ FinalBlocks'
  BY <1>1, AllocFacts
<1>3. /\ Good' = Good \cup {b} /\ b \notin Good
      /\ StrongRoots' = StrongRoots \cup {b} /\ FinalVals' = FinalVals
  BY <1>1, AllocFacts
<1>4. /\ \A c \in Block : c # b =>
           tag'[c] = tag[c] /\ field'[c] = field[c] /\ Succ(c)' = Succ(c)
      /\ tag'[b] = "scan" /\ field'[b] = init /\ Succ(b)' \subseteq roots
  BY <1>1, AllocFacts
<1>5. gc_phase = "mark" =>
        /\ Colored("black")' = Colored("black") \cup {b}
        /\ \A S \in SUBSET Block : Covers(S)' => Covers(S)
  BY <1>1, AllocFacts
<1>6. TypeOK'
  BY <1>1, <1>2 DEF IInv, TypeOK, phaseVars, stackVars, weakVars, finalVars
<1>7. roots \subseteq Good /\ roots \subseteq StrongRoots /\ Listed \subseteq Good
      /\ Good \subseteq Block
  BY RootsGood DEF IInv, GoodInv, Good
<1>8. /\ Listed' = Listed /\ Cleaned' = Cleaned /\ Cleaned \subseteq Listed
  <2>1. weak_prev \in 0 .. Len(weak_list) /\ Len(weak_list) \in Nat
    BY DEF IInv, TypeOK
  <2> QED
    BY SMTT(60), <1>1, <2>1 DEF Listed, Cleaned, Visited, weakVars, phaseVars
<1>9. GoodInv'
  <2>1. \A c \in Good' : Succ(c)' \subseteq Good'
    BY <1>3, <1>4, <1>7 DEF IInv, GoodInv
  <2>2. \A a \in Listed, f \in Field : field'[a][f] \in Good' \cup {Nil}
    BY <1>3, <1>4, <1>7 DEF IInv, GoodInv
  <2> QED
    BY <1>1, <1>3, <1>8, <2>1, <2>2 DEF IInv, GoodInv
<1>10. WeakHeld'
  <2>1. \A f \in Field : init[f] # Nil => tag[init[f]] # "weak" /\ init[f] # b
    BY <1>1, <1>3, <1>7 DEF Storable, SafeProgram
  <2>2. \A a \in Block : tag'[a] = "weak" => tag[a] = "weak" /\ a # b
    BY <1>4
  <2>3. \A a \in Block : tag'[a] = "weak" => a \notin Succ(b)'
    BY <1>4, <2>1, <2>2 DEF Succ
  <2>4. \A a \in Block : tag'[a] = "weak" => \A c \in Good' : a \notin Succ(c)'
    BY <1>3, <1>4, <1>7, <2>2, <2>3 DEF IInv, WeakHeld
  <2>5. \A a \in Block : tag'[a] = "weak" =>
           \A c \in Listed, f \in Field : field'[c][f] # a
    BY <1>3, <1>4, <1>7, <2>2 DEF IInv, WeakHeld
  <2>6. \A a \in roots' : tag'[a] = "weak" => a \in Listed
    BY <1>1, <1>4, <1>7, <2>2 DEF IInv, WeakHeld, alloc_shr
  <2>7. \A a \in Listed : tag'[a] = "weak"
    BY <1>3, <1>4, <1>7 DEF IInv, WeakHeld
  <2> QED
    BY <1>1, <1>8, <2>2, <2>4, <2>5, <2>6, <2>7 DEF IInv, WeakHeld, finalVars
<1>11. MarkInv'
  <2> SUFFICES ASSUME gc_phase = "mark", NEW S \in SUBSET Block, Covers(S)'
               PROVE  Spares(S \cup Colored("black"))'
    BY <1>1 DEF MarkInv, phaseVars
  <2> DEFINE T == S \cup Colored("black")
  <2>1. Spares(T)
    BY <1>5 DEF IInv, MarkInv
  <2>2. (S \cup Colored("black"))' = T \cup {b}
    BY <1>5
  <2>3. \A c \in Colored("black")' : Succ(c)' \subseteq T \cup {b}
    BY <1>4, <1>5, <1>7, <2>1 DEF Spares, Colored
  <2>4. \A a \in Cleaned, f \in Field : field'[a][f] \in T \cup {b, Nil}
    BY <1>3, <1>4, <1>7, <1>8, <2>1 DEF Spares
  <2> QED
    BY <1>1, <1>3, <1>8, <2>1, <2>2, <2>3, <2>4 DEF Spares, phaseVars
<1> QED
  BY <1>2, <1>6, <1>9, <1>10, <1>11 DEF IInv

\* A new weak array is empty, and is put at the head of weak_list.
LEMMA WeakCreate ==
  ASSUME IInv, pending = {}, NEW b \in Block, weak_create(b)
  PROVE  IInv'
<1> DEFINE init == [f \in Field |-> Nil]
<1>0. init \in [Field -> roots \cup {Nil}] /\ \A f \in Field : init[f] = Nil
  OBVIOUS
<1>1. /\ alloc_shr(b, "weak", init)
      /\ weak_list' = <<b>> \o weak_list
      /\ weak_prev' = IF weak_prev = 0 THEN 0 ELSE weak_prev + 1
      /\ UNCHANGED <<phaseVars, stackVars, finalVars, pending>>
  BY DEF weak_create
<1> HIDE DEF init
<1>2. /\ color' \in [Block -> {"white", "gray", "black", "blue"}]
      /\ tag' \in [Block -> {"scan", "forward", "weak"}]
      /\ field' \in [Block -> [Field -> Val]] /\ roots' \subseteq Block
      /\ GrayStack' /\ HeapPure' /\ PhaseColors' /\ Quiet' /\ FinalBlocks'
  BY <1>0, <1>1, AllocFacts
<1>3. /\ Good' = Good \cup {b} /\ b \notin Good
      /\ StrongRoots' = StrongRoots \cup {b} /\ FinalVals' = FinalVals
  BY <1>0, <1>1, AllocFacts
<1>4. /\ \A c \in Block : c # b =>
           tag'[c] = tag[c] /\ field'[c] = field[c] /\ Succ(c)' = Succ(c)
      /\ tag'[b] = "weak" /\ field'[b] = init
  BY <1>0, <1>1, AllocFacts
<1>5. gc_phase = "mark" =>
        /\ Colored("black")' = Colored("black") \cup {b}
        /\ \A S \in SUBSET Block : Covers(S)' => Covers(S)
  BY <1>0, <1>1, AllocFacts
<1>6. Succ(b)' = {}
  BY <1>4 DEF Succ
<1>7. /\ weak_list \in Seq(Block) /\ Len(weak_list) \in Nat
      /\ weak_prev \in 0 .. Len(weak_list)
  BY DEF IInv, TypeOK
<1>8. /\ weak_list' \in Seq(Block) /\ Len(weak_list') = Len(weak_list) + 1
      /\ weak_list'[1] = b
      /\ \A i \in 1 .. Len(weak_list) : weak_list'[i + 1] = weak_list[i]
      /\ \A i \in 2 .. Len(weak_list) + 1 : weak_list'[i] = weak_list[i - 1]
  BY <1>1, <1>7
<1>9. TypeOK'
  <2>1. weak_prev' \in 0 .. Len(weak_list')
    BY <1>1, <1>7, <1>8
  <2> QED
    BY <1>1, <1>2, <1>8, <2>1 DEF IInv, TypeOK, phaseVars, stackVars, finalVars
<1>10. Listed' = Listed \cup {b}
  <2>1. ASSUME NEW i \in 1 .. Len(weak_list) + 1 PROVE weak_list'[i] \in Listed \cup {b}
    <3>1. CASE i = 1
      BY <1>8, <3>1
    <3>2. CASE i # 1
      <4>1. i \in 2 .. Len(weak_list) + 1 /\ i - 1 \in 1 .. Len(weak_list)
        BY <1>7, <3>2
      <4> QED
        BY <1>8, <4>1 DEF Listed
    <3> QED
      BY <3>1, <3>2
  <2>2. ASSUME NEW i \in 1 .. Len(weak_list) PROVE weak_list[i] \in Listed'
    <3>1. i + 1 \in 1 .. Len(weak_list')
      BY <1>7, <1>8
    <3> QED
      BY SMTT(60), <1>8, <3>1 DEF Listed
  <2>3. b \in Listed'
    <3>1. 1 \in 1 .. Len(weak_list')
      BY <1>7, <1>8
    <3> QED
      BY <1>8, <3>1 DEF Listed
  <2>4. Listed' \subseteq Listed \cup {b}
    BY <1>8, <2>1 DEF Listed
  <2>5. Listed \subseteq Listed'
    BY <2>2 DEF Listed
  <2> QED
    BY <2>3, <2>4, <2>5
<1>11. Visited' \subseteq Visited \cup {b}
  <2> SUFFICES ASSUME NEW i \in 1 .. weak_prev' PROVE weak_list'[i] \in Visited \cup {b}
    BY DEF Visited
  <2>1. weak_prev' = weak_prev + 1
    BY <1>1, <1>7
  <2>2. CASE i = 1
    BY <1>8, <2>2
  <2>3. CASE i # 1
    <3>1. i \in 2 .. Len(weak_list) + 1 /\ i - 1 \in 1 .. weak_prev
      BY <1>7, <2>1, <2>3
    <3> QED
      BY <1>8, <3>1 DEF Visited
  <2> QED
    BY <2>2, <2>3
<1>12. Cleaned' \subseteq Cleaned \cup {b} /\ Cleaned \subseteq Listed
  <2>1. gc_subphase' = gc_subphase /\ gc_phase' = gc_phase
    BY <1>1 DEF phaseVars
  <2>2. Visited \subseteq Listed
    <3>1. 1 .. weak_prev \subseteq 1 .. Len(weak_list)
      BY <1>7
    <3> QED
      BY <3>1 DEF Visited, Listed
  <2>3. CASE Cleaned' = {}
    BY <2>2, <2>3 DEF Cleaned
  <2>4. CASE Cleaned' # {}
    BY <1>10, <1>11, <2>1, <2>2, <2>4 DEF Cleaned
  <2> QED
    BY <2>3, <2>4
<1>13. roots \subseteq Good /\ Listed \subseteq Good /\ Good \subseteq Block
  BY ZenonT(60), RootsGood DEF IInv, GoodInv, Good
<1>14. GoodInv'
  <2>1. \A c \in Good' : Succ(c)' \subseteq Good'
    BY <1>3, <1>4, <1>6, <1>13 DEF IInv, GoodInv
  <2>2. \A a \in Listed', f \in Field : field'[a][f] \in Good' \cup {Nil}
    BY <1>0, <1>3, <1>4, <1>10, <1>13 DEF IInv, GoodInv
  <2> QED
    BY <1>1, <1>3, <1>10, <2>1, <2>2 DEF IInv, GoodInv
<1>15. WeakHeld'
  <2>1. /\ \A c \in Good : b \notin Succ(c)
        /\ \A c \in Listed, f \in Field : field[c][f] # b
    BY <1>3, Consts DEF IInv, GoodInv
  <2>2. \A e \in finalisable \cup finalising : e.fun # b /\ e.val # b
    <3>1. b \notin StrongRoots /\ b \notin FinalVals /\ b # Nil
      BY <1>3, Consts DEF IInv, GoodInv
    <3> QED
      BY <3>1 DEF StrongRoots, FinalVals
  <2>3. \A a \in Block : tag'[a] = "weak" => \A c \in Good' : a \notin Succ(c)'
    BY SMTT(60), <1>3, <1>4, <1>6, <1>13, <2>1 DEF IInv, WeakHeld
  <2>4. \A a \in Block : tag'[a] = "weak" =>
           \A c \in Listed', f \in Field : field'[c][f] # a
    <3> SUFFICES ASSUME NEW a \in Block, tag'[a] = "weak",
                        NEW c \in Listed', NEW f \in Field
                 PROVE  field'[c][f] # a
      OBVIOUS
    <3>1. CASE c = b
      BY <1>0, <1>4, <3>1, Consts
    <3>2. CASE c # b
      <4>1. c \in Listed /\ c \in Block /\ field'[c] = field[c]
        BY <1>4, <1>10, <1>13, <3>2
      <4>2. a = b \/ tag[a] = "weak"
        BY <1>4
      <4> QED
        BY <2>1, <4>1, <4>2 DEF IInv, WeakHeld
    <3> QED
      BY <3>1, <3>2
  <2>5. \A a \in roots' : tag'[a] = "weak" => a \in Listed'
    BY <1>1, <1>4, <1>10, <1>13 DEF IInv, WeakHeld, alloc_shr
  <2>6. \A a \in Listed' : tag'[a] = "weak"
    BY <1>3, <1>4, <1>10, <1>13 DEF IInv, WeakHeld
  <2>7. \A a \in Block : tag'[a] = "weak" =>
          \A e \in finalisable \cup finalising : e.fun # a /\ e.val # a
    BY <1>4, <2>2 DEF IInv, WeakHeld
  <2> QED
    BY <1>1, <2>3, <2>4, <2>5, <2>6, <2>7 DEF WeakHeld, finalVars
<1>16. MarkInv'
  <2> SUFFICES ASSUME gc_phase = "mark", NEW S \in SUBSET Block, Covers(S)'
               PROVE  Spares(S \cup Colored("black"))'
    BY <1>1 DEF MarkInv, phaseVars
  <2> DEFINE T == S \cup Colored("black")
  <2>1. Spares(T)
    BY <1>5 DEF IInv, MarkInv
  <2>2. (S \cup Colored("black"))' = T \cup {b}
    BY <1>5
  <2>3. \A c \in Colored("black")' : Succ(c)' \subseteq T \cup {b}
    BY SMTT(60), <1>4, <1>5, <1>6, <2>1 DEF Spares, Colored
  <2>4. \A a \in Cleaned', f \in Field : field'[a][f] \in T \cup {b, Nil}
    BY ZenonT(60), <1>0, <1>4, <1>12, <1>13, <2>1 DEF Spares
  <2> QED
    BY ZenonT(60), <1>1, <1>3, <1>12, <2>1, <2>2, <2>3, <2>4 DEF Spares, phaseVars
<1> QED
  BY <1>2, <1>9, <1>14, <1>15, <1>16 DEF IInv

\* What the barriers of Modify and weak_get do: a good block is darkened while
\* marking.
LEMMA BarrierFacts ==
  ASSUME IInv, pending = {}, NEW x \in Good \cup {Nil},
         IF gc_phase = "mark" THEN darken(x) ELSE UNCHANGED <<color, stackVars>>,
         UNCHANGED <<phaseVars, pending>>
  PROVE  /\ color' \in [Block -> {"white", "gray", "black", "blue"}]
         /\ gray_vals' \in Seq(Block) /\ gray_vals_size' \in Nat \ {0, 1}
         /\ heap_is_pure' \in BOOLEAN
         /\ GrayStack' /\ HeapPure' /\ PhaseColors' /\ Quiet'
         /\ Good' = Good
         /\ Colored("black")' = Colored("black")
         /\ Colored("gray") \subseteq Colored("gray")'
         /\ \A c \in Block : color'[c] = "blue" <=> color[c] = "blue"
         /\ gc_phase = "mark" /\ x # Nil => x \in Colored("gray")' \cup Colored("black")
<1> USE DEF phaseVars, stackVars
<1>1. TypeOK /\ GrayStack /\ HeapPure /\ PhaseColors /\ Quiet /\ x \in Val
      /\ Good \subseteq Block
  BY Consts DEF IInv, Good
<1>2. CASE gc_phase # "mark"
  <2>1. UNCHANGED <<color, gray_vals, gray_vals_size, heap_is_pure, markhp, gc_phase,
                    gc_subphase, gc_sweep_hp, pending>>
    BY <1>2
  <2>2. Good' = Good /\ Colored("black")' = Colored("black")
        /\ Colored("gray")' = Colored("gray")
    BY <2>1 DEF Good, Colored
  <2>3. GrayStack' /\ HeapPure' /\ PhaseColors' /\ Quiet'
    BY <1>1, <2>1, MarkerFrame DEF Quiet
  <2> QED
    BY <1>1, <1>2, <2>1, <2>2, <2>3 DEF TypeOK
<1>3. CASE gc_phase = "mark"
  <2>1. /\ color' = IF x # Nil /\ color[x] = "white"
                    THEN [color EXCEPT ![x] = "gray"] ELSE color
        /\ gray_vals' \in Seq(Block) /\ gray_vals_size' \in Nat \ {0, 1}
        /\ heap_is_pure' \in BOOLEAN
        /\ GrayStack' /\ HeapPure'
    BY <1>1, <1>3, DarkenFacts
  <2>2. color' \in [Block -> {"white", "gray", "black", "blue"}]
    BY <1>1, <2>1 DEF TypeOK
  <2>3. \A c \in Block : /\ color'[c] = color[c] \/ (c = x /\ color[c] = "white" /\ color'[c] = "gray")
                         /\ c = x => color'[c] # "white"
    BY <1>1, <2>1, Consts DEF TypeOK
  <2>4. \A c \in Block : /\ color'[c] = "blue" <=> color[c] = "blue"
                         /\ color'[c] = "black" <=> color[c] = "black"
                         /\ color[c] = "gray" => color'[c] = "gray"
    BY <2>3
  <2>5. Good' = Good
    BY <1>3, <2>4 DEF Good
  <2>6. Colored("black")' = Colored("black") /\ Colored("gray") \subseteq Colored("gray")'
    BY <2>4 DEF Colored
  <2>7. x # Nil => x \in Colored("gray")' \cup Colored("black")
    BY <1>1, <2>2, <2>3, <2>4 DEF Colored, Good
  <2>8. PhaseColors' /\ Quiet'
    BY <1>1, <1>3 DEF PhaseColors, Quiet
  <2> QED
    BY <2>1, <2>2, <2>4, <2>5, <2>6, <2>7, <2>8
<1> QED
  BY <1>2, <1>3

\* An assignment keeps the snapshot: the value it overwrites is gray or black
\* afterwards.
LEMMA ModifyStep ==
  ASSUME IInv, SafeProgram, pending = {}, NEW b \in Plain, NEW f \in Field,
         NEW v \in roots \cup {Nil}, modify(b, f, v)
  PROVE  IInv'
<1>1. TypeOK /\ b \in roots /\ b \in Good /\ b \in Block /\ roots \subseteq Good
      /\ roots \subseteq StrongRoots /\ tag[b] = "scan"
  BY RootsGood DEF IInv, Plain, Good
<1>0. PICK old \in Val : old = field[b][f]
  BY <1>1 DEF TypeOK
<1>2. old \in Good \cup {Nil}
  <2>1. old # Nil => old \in Succ(b)
    BY <1>0, <1>1 DEF Succ, Good
  <2> QED
    BY <1>1, <2>1 DEF IInv, GoodInv
<1>3. /\ field' = [field EXCEPT ![b][f] = v]
      /\ IF gc_phase = "mark" THEN darken(old) ELSE UNCHANGED <<color, stackVars>>
      /\ UNCHANGED <<tag, roots, phaseVars, weakVars, finalVars, pending>>
      /\ Storable(v)
  BY <1>0 DEF modify, Modify
<1>4. /\ color' \in [Block -> {"white", "gray", "black", "blue"}]
      /\ gray_vals' \in Seq(Block) /\ gray_vals_size' \in Nat \ {0, 1}
      /\ heap_is_pure' \in BOOLEAN
      /\ GrayStack' /\ HeapPure' /\ PhaseColors' /\ Quiet'
  BY <1>2, <1>3, BarrierFacts
<1>5. /\ Good' = Good
      /\ Colored("black")' = Colored("black")
      /\ Colored("gray") \subseteq Colored("gray")'
      /\ \A c \in Block : color'[c] = "blue" <=> color[c] = "blue"
      /\ gc_phase = "mark" /\ old # Nil => old \in Colored("gray")' \cup Colored("black")
  BY <1>2, <1>3, BarrierFacts
<1>6. v \in Val
  BY <1>1, Consts DEF TypeOK
<1>7. /\ field' \in [Block -> [Field -> Val]]
      /\ \A c \in Block : c # b => field'[c] = field[c]
      /\ field'[b][f] = v
      /\ \A g \in Field : g # f => field'[b][g] = field[b][g]
  BY <1>1, <1>3, <1>6 DEF TypeOK
<1>8. TypeOK'
  BY ZenonT(60), <1>3, <1>4, <1>7 DEF IInv, TypeOK, phaseVars, weakVars, finalVars
<1>9. \A c \in Block : c # b => Succ(c)' = Succ(c)
  <2> SUFFICES ASSUME NEW c \in Block, c # b PROVE Succ(c)' = Succ(c)
    BY SMTT(60)
  <2>1. tag'[c] = tag[c] /\ field'[c] = field[c] /\ (color'[c] = "blue" <=> color[c] = "blue")
    BY ZenonT(60), <1>3, <1>5, <1>7
  <2> QED
    BY <2>1 DEF Succ
<1>10. /\ Succ(b)' \subseteq Succ(b) \cup ({v} \ {Nil})
       /\ Succ(b) \subseteq Succ(b)' \cup {old}
  <2>1. color[b] # "blue" /\ color'[b] # "blue" /\ tag[b] = "scan" /\ tag'[b] = "scan"
    BY ZenonT(60), <1>1, <1>3, <1>5 DEF Good
  <2>2. /\ Succ(b) = {field[b][g] : g \in Field} \ {Nil}
        /\ Succ(b)' = {field'[b][g] : g \in Field} \ {Nil}
    BY ZenonT(60), <2>1 DEF Succ
  <2> QED
    BY <1>0, <1>7, <2>2
<1>11. /\ StrongRoots' = StrongRoots /\ FinalVals' = FinalVals
       /\ Listed' = Listed /\ Cleaned' = Cleaned /\ Cleaned \subseteq Listed
  <2>1. weak_prev \in 0 .. Len(weak_list) /\ Len(weak_list) \in Nat
    BY SMTT(60), <1>1 DEF TypeOK
  <2> QED
    BY <1>3, <2>1 DEF StrongRoots, FinalVals, Listed, Cleaned, Visited, phaseVars, weakVars, finalVars
<1>12. Listed \subseteq Block /\ b \notin Listed
  BY <1>1 DEF IInv, GoodInv, Good, WeakHeld
<1>13. GoodInv'
  <2>1. \A c \in Good : Succ(c)' \subseteq Good
    BY SMTT(60), <1>1, <1>9, <1>10 DEF IInv, GoodInv, Good
  <2>2. \A a \in Listed, g \in Field : field'[a][g] \in Good \cup {Nil}
    BY <1>7, <1>12 DEF IInv, GoodInv
  <2> QED
    BY SMTT(60), <1>3, <1>5, <1>11, <2>1, <2>2 DEF IInv, GoodInv
<1>14. WeakHeld'
  <2>1. \A a \in Block : tag[a] = "weak" => v # a
    BY <1>3, Consts DEF Storable, SafeProgram
  <2>2. \A a \in Block : tag[a] = "weak" => \A c \in Good : a \notin Succ(c)'
    <3> SUFFICES ASSUME NEW a \in Block, tag[a] = "weak", NEW c \in Good
                 PROVE  a \notin Succ(c)'
      OBVIOUS
    <3>1. a \notin Succ(c) /\ c \in Block /\ v # a
      BY <2>1 DEF IInv, WeakHeld, Good
    <3>2. CASE c = b
      BY <1>10, <3>1, <3>2
    <3>3. CASE c # b
      BY <1>9, <3>1, <3>3
    <3> QED
      BY <3>2, <3>3
  <2>3. \A a \in Block : tag[a] = "weak" => \A c \in Listed, g \in Field : field'[c][g] # a
    BY <1>7, <1>12 DEF IInv, WeakHeld
  <2> QED
    BY <1>3, <1>5, <1>11, <2>2, <2>3 DEF IInv, WeakHeld, finalVars
<1>15. FinalBlocks'
  BY <1>3 DEF IInv, FinalBlocks, finalVars
<1>16. MarkInv'
  <2> SUFFICES ASSUME gc_phase = "mark", NEW S \in SUBSET Block, Covers(S)'
               PROVE  Spares(S \cup Colored("black"))'
    BY <1>3 DEF MarkInv, phaseVars
  <2> DEFINE T == S \cup Colored("black")
             R == S \cup ({old} \ {Nil})
  <2>1. old # Nil => old \in T
    BY <1>5 DEF Covers
  <2>2. Covers(R)
    <3>1. Colored("gray") \cup pending \subseteq R
      BY <1>3, <1>5 DEF Covers
    <3>2. ASSUME NEW c \in R, color[c] # "black" PROVE Succ(c) \subseteq R
      <4>1. c \in S /\ c \in Block /\ c \notin Colored("black")
        BY <2>1, <3>2 DEF Colored
      <4>2. color'[c] # "black"
        BY <1>5, <4>1 DEF Colored
      <4>3. Succ(c)' \subseteq S
        BY <4>1, <4>2 DEF Covers
      <4>4. Succ(c) \subseteq Succ(c)' \cup {old} /\ Nil \notin Succ(c)
        <5>1. Nil \notin Succ(c)
          BY DEF Succ
        <5> QED
          BY <1>9, <1>10, <4>1, <5>1
      <4> QED
        BY <4>3, <4>4
    <3> QED
      BY <3>1, <3>2 DEF Covers
  <2>3. Spares(T)
    <3>1. R \in SUBSET Block /\ R \cup Colored("black") = T
      BY <1>2, <2>1 DEF Good
    <3> HIDE DEF R, T
    <3> QED
      BY <2>2, <3>1 DEF IInv, MarkInv
  <2>4. roots \subseteq T
    BY <1>1, <2>3 DEF Spares
  <2>5. \A c \in Colored("black") : Succ(c)' \subseteq T
    BY SMTT(60), <1>9, <1>10, <2>3, <2>4 DEF Spares, Colored
  <2>6. \A a \in Cleaned, g \in Field : field'[a][g] \in T \cup {Nil}
    BY <1>7, <1>11, <1>12, <2>3 DEF Spares
  <2>7. T' = T
    BY <1>5
  <2> QED
    BY <1>3, <1>5, <1>11, <2>3, <2>5, <2>6 DEF Spares, phaseVars
<1> QED
  BY <1>4, <1>8, <1>13, <1>14, <1>15, <1>16 DEF IInv
=============================================================================
