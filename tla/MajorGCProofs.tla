--------------------------- MODULE MajorGCProofs ----------------------------
(***************************************************************************)
(* The other steps of the program preserve IInv: weak arrays, lazy values, *)
(* finalised values and the steps that change the roots only.  So IInv is  *)
(* invariant, and the theorems on the major collector follow.              *)
(***************************************************************************)
EXTENDS MajorGCSweepProofs, MajorGCAllocProofs

\* Reading a weak pointer while marking makes its target a root and gray.
LEMMA WeakGet ==
  ASSUME IInv, pending = {}, NEW a \in roots, NEW f \in Field, tag[a] = "weak",
         weak_get(a, f)
  PROVE  IInv'
<1>1. TypeOK /\ a \in Listed /\ roots \subseteq Good
  BY SMTT(60), RootsGood DEF IInv, WeakHeld
<1>2. PICK x \in Good : x = field[a][f]
  BY SMTT(60), <1>1 DEF IInv, GoodInv, weak_get
<1>3. /\ roots' = roots \cup {x}
      /\ IF gc_phase = "mark" THEN darken(x) ELSE UNCHANGED <<color, stackVars>>
      /\ UNCHANGED <<tag, field, phaseVars, weakVars, finalVars, pending>>
  BY <1>2 DEF weak_get
<1>4. /\ color' \in [Block -> {"white", "gray", "black", "blue"}]
      /\ gray_vals' \in Seq(Block) /\ gray_vals_size' \in Nat \ {0, 1}
      /\ heap_is_pure' \in BOOLEAN
      /\ GrayStack' /\ HeapPure' /\ PhaseColors' /\ Quiet'
  BY <1>3, BarrierFacts
<1>5. /\ Good' = Good
      /\ Colored("black")' = Colored("black")
      /\ Colored("gray") \subseteq Colored("gray")'
      /\ \A c \in Block : color'[c] = "blue" <=> color[c] = "blue"
      /\ gc_phase = "mark" /\ x # Nil => x \in Colored("gray")' \cup Colored("black")
  BY SMTT(60), <1>3, BarrierFacts
<1>6. x \in Block /\ x # Nil /\ tag[x] # "weak"
  BY ZenonT(60), <1>1, <1>2, Consts DEF IInv, WeakHeld, Good
<1>7. TypeOK'
  BY <1>1, <1>3, <1>4, <1>6 DEF TypeOK, phaseVars, weakVars, finalVars
<1>8. \A c \in Block : Succ(c)' = Succ(c)
  <2> SUFFICES ASSUME NEW c \in Block PROVE Succ(c)' = Succ(c)
    OBVIOUS
  <2>1. tag'[c] = tag[c] /\ field'[c] = field[c] /\ (color'[c] = "blue" <=> color[c] = "blue")
    BY <1>3, <1>5
  <2> QED
    BY ZenonT(60), <2>1 DEF Succ
<1>9. /\ StrongRoots' = StrongRoots \cup {x} /\ FinalVals' = FinalVals
      /\ Listed' = Listed /\ Cleaned' = Cleaned
  BY <1>3, <1>6 DEF StrongRoots, FinalVals, Listed, Cleaned, Visited, phaseVars, weakVars, finalVars
<1>10. GoodInv'
  <2>1. x \in Good /\ Good' = Good
    BY <1>3, <1>5
  <2>2. \A c \in Good : c \in Block
    BY DEF Good
  <2>3. field' = field /\ pending' = pending
    BY <1>3
  <2> QED
    BY <1>8, <1>9, <2>1, <2>2, <2>3 DEF IInv, GoodInv
<1>11. WeakHeld'
  <2>1. Good' = Good /\ \A c \in Good : Succ(c)' = Succ(c)
    BY <1>5, <1>8 DEF Good
  <2>2. /\ tag' = tag /\ field' = field /\ roots' = roots \cup {x}
        /\ finalisable' = finalisable /\ finalising' = finalising
    BY <1>3, <1>6 DEF finalVars
  <2>3. /\ \A d \in roots' : tag'[d] = "weak" => d \in Listed'
        /\ \A d \in Listed' : tag'[d] = "weak"
    BY <1>3, <1>6, <1>9, <2>2 DEF IInv, WeakHeld
  <2>4. \A d \in Block : tag'[d] = "weak" =>
          /\ \A c \in Good' : d \notin Succ(c)'
          /\ \A c \in Listed', g \in Field : field'[c][g] # d
          /\ \A e \in finalisable' \cup finalising' : e.fun # d /\ e.val # d
    BY <1>9, <2>1, <2>2 DEF IInv, WeakHeld
  <2> QED
    BY <2>3, <2>4 DEF WeakHeld
<1>12. FinalBlocks'
  BY <1>3 DEF IInv, FinalBlocks, finalVars
<1>13. MarkInv'
  <2> SUFFICES ASSUME gc_phase = "mark", NEW S \in SUBSET Block, Covers(S)'
               PROVE  Spares(S \cup Colored("black"))'
    BY <1>3 DEF MarkInv, phaseVars
  <2>1. Covers(S)
    BY ZenonT(60), <1>3, <1>5, <1>8 DEF Covers, Colored
  <2>2. Spares(S \cup Colored("black"))
    BY <2>1 DEF IInv, MarkInv
  <2>3. x \in S \cup Colored("black")
    BY <1>5, <1>6 DEF Covers
  <2>4. \A c \in Colored("black") : Succ(c)' = Succ(c)
    BY <1>8 DEF Colored
  <2> QED
    <3>1. /\ field' = field /\ gc_subphase' = gc_subphase
          /\ Colored("black")' = Colored("black")
      BY <1>3, <1>5 DEF phaseVars
    <3> DEFINE T == S \cup Colored("black")
    <3>2. Spares(T) /\ T' = T
      BY <2>2, <3>1
    <3> HIDE DEF T
    <3>3. StrongRoots' \cup Cleaned' \subseteq T
      BY <1>9, <2>3, <3>2 DEF Spares, T
    <3>4. \A c \in Colored("black")' : Succ(c)' \subseteq T
      BY <2>4, <3>1, <3>2 DEF Spares
    <3>5. \A c \in Cleaned', g \in Field : field'[c][g] \in T \cup {Nil}
      BY <1>9, <3>1, <3>2 DEF Spares
    <3>6. gc_subphase' = "final" => FinalVals' \subseteq T
      BY <1>9, <3>1, <3>2 DEF Spares
    <3>7. Spares(T)'
      BY <3>2, <3>3, <3>4, <3>5, <3>6 DEF Spares
    <3> QED
      BY <3>7 DEF T
<1> QED
  BY <1>4, <1>7, <1>10, <1>11, <1>12, <1>13 DEF IInv

\* Storing into a weak array changes no strong pointer.
LEMMA WeakSet ==
  ASSUME IInv, SafeProgram, pending = {}, NEW a \in roots, NEW f \in Field,
         NEW v \in roots \cup {Nil}, tag[a] = "weak", weak_set(a, f, v)
  PROVE  IInv'
<1> USE DEF phaseVars, stackVars, weakVars, finalVars
<1>1. TypeOK /\ a \in Listed /\ a \in Block /\ roots \subseteq Good
      /\ roots \subseteq StrongRoots /\ Listed \subseteq Block
  BY ZenonT(60), RootsGood DEF IInv, WeakHeld, GoodInv, Good
<1>2. /\ field' = [field EXCEPT ![a][f] = v]
      /\ UNCHANGED <<color, tag, roots, phaseVars, stackVars, weakVars, finalVars, pending>>
      /\ Storable(v)
  BY DEF weak_set
<1>3. v \in Val
  BY <1>1, Consts DEF TypeOK
<1>4. /\ field' \in [Block -> [Field -> Val]]
      /\ \A c \in Block : c # a => field'[c] = field[c]
      /\ field'[a][f] = v
      /\ \A g \in Field : g # f => field'[a][g] = field[a][g]
  BY SMTT(60), <1>1, <1>2, <1>3 DEF TypeOK
<1>5. \A c \in Block, g \in Field : field'[c][g] = field[c][g] \/ field'[c][g] = v
  BY <1>4
<1>6. \A c \in Block : Succ(c)' = Succ(c)
  <2> SUFFICES ASSUME NEW c \in Block PROVE Succ(c)' = Succ(c)
    OBVIOUS
  <2>1. CASE c = a
    BY <1>2, <2>1 DEF Succ
  <2>2. CASE c # a
    <3>1. color' = color /\ tag' = tag /\ field'[c] = field[c]
      BY <1>2, <1>4, <2>2
    <3> QED
      BY <3>1 DEF Succ
  <2> QED
    BY <2>1, <2>2
<1>7. TypeOK'
  BY <1>1, <1>2, <1>4 DEF TypeOK
<1>8. /\ StrongRoots' = StrongRoots /\ FinalVals' = FinalVals
      /\ Listed' = Listed /\ Cleaned' = Cleaned /\ Good' = Good
      /\ Colored("black")' = Colored("black") /\ Colored("gray")' = Colored("gray")
  BY <1>2 DEF StrongRoots, FinalVals, Listed, Cleaned, Visited, Good, Colored
<1>9. GrayStack' /\ HeapPure' /\ PhaseColors' /\ Quiet' /\ FinalBlocks'
  <2>1. GrayStack' /\ HeapPure' /\ PhaseColors'
    BY <1>2, MarkerFrame DEF IInv
  <2>2. Quiet' /\ FinalBlocks'
    BY SMTT(60), <1>2 DEF IInv, Quiet, FinalBlocks
  <2> QED
    BY <2>1, <2>2
<1>10. GoodInv'
  <2>1. \A c \in Listed, g \in Field : field'[c][g] \in Good \cup {Nil}
    BY <1>1, <1>5 DEF IInv, GoodInv
  <2> QED
    BY <1>2, <1>6, <1>8, <2>1 DEF IInv, GoodInv, Good
<1>11. WeakHeld'
  <2>1. \A c \in Block : tag[c] = "weak" => v # c
    BY SMTT(60), <1>2, Consts DEF Storable, SafeProgram
  <2>2. \A d \in Block : tag[d] = "weak" => \A c \in Listed, g \in Field : field'[c][g] # d
    BY SMTT(60), <1>1, <1>5, <2>1 DEF IInv, WeakHeld
  <2>3. \A d \in Block : tag[d] = "weak" => \A c \in Good : d \notin Succ(c)'
    BY <1>6 DEF IInv, WeakHeld, Good
  <2> QED
    BY <1>2, <1>8, <2>2, <2>3 DEF IInv, WeakHeld
<1>12. MarkInv'
  <2> SUFFICES ASSUME gc_phase = "mark", NEW S \in SUBSET Block, Covers(S)'
               PROVE  Spares(S \cup Colored("black"))'
    BY <1>2 DEF MarkInv
  <2>1. Covers(S)
    BY <1>2, <1>6, <1>8 DEF Covers
  <2>2. Spares(S \cup Colored("black"))
    BY <2>1 DEF IInv, MarkInv
  <2>3. \A c \in Colored("black") : Succ(c)' = Succ(c)
    BY SMTT(60), <1>6 DEF Colored
  <2>4. roots \subseteq S \cup Colored("black")
    BY <1>1, <2>2 DEF Spares
  <2>5. Cleaned \subseteq Block
    <3>1. Cleaned \subseteq Listed
      <4>1. weak_prev \in 0 .. Len(weak_list) /\ Len(weak_list) \in Nat
        BY SMTT(60), <1>1 DEF TypeOK
      <4> QED
        BY <4>1 DEF Cleaned, Listed, Visited
    <3> QED
      BY <1>1, <3>1
  <2>6. \A c \in Cleaned, g \in Field : field'[c][g] \in S \cup Colored("black") \cup {Nil}
    BY <1>5, <2>2, <2>4, <2>5 DEF Spares
  <2> QED
    BY SMTT(60), <1>2, <1>8, <2>2, <2>3, <2>6 DEF Spares
<1> QED
  BY <1>7, <1>9, <1>10, <1>11, <1>12 DEF IInv

\* Turning an evaluated suspension into a Forward block changes no pointer.
LEMMA ObjSetTag ==
  ASSUME IInv, SafeProgram, pending = {}, NEW b \in Plain, obj_set_tag(b)
  PROVE  IInv'
<1> USE DEF phaseVars, stackVars, weakVars, finalVars
<1>1. TypeOK /\ b \in roots /\ b \in Block /\ tag[b] = "scan"
  BY SMTT(60) DEF IInv, TypeOK, Plain
<1>2. /\ tag' = [tag EXCEPT ![b] = "forward"]
      /\ \A e \in finalisable : e.val # b
      /\ UNCHANGED <<color, field, roots, phaseVars, stackVars, weakVars, finalVars, pending>>
  BY ZenonT(60) DEF obj_set_tag, SafeProgram
<1>3. /\ tag' \in [Block -> {"scan", "forward", "weak"}]
      /\ \A c \in Block : tag'[c] = "weak" <=> tag[c] = "weak"
      /\ \A c \in Block : c # b => tag'[c] = tag[c]
  BY <1>1, <1>2 DEF TypeOK
<1>4. \A c \in Block : Succ(c)' = Succ(c)
  <2> SUFFICES ASSUME NEW c \in Block PROVE Succ(c)' = Succ(c)
    OBVIOUS
  <2>1. color' = color /\ field' = field /\ (tag'[c] = "weak" <=> tag[c] = "weak")
    BY <1>2, <1>3
  <2> QED
    BY <2>1 DEF Succ
<1>5. TypeOK'
  BY SMTT(60), <1>1, <1>2, <1>3 DEF TypeOK
<1>6. /\ StrongRoots' = StrongRoots /\ FinalVals' = FinalVals
      /\ Listed' = Listed /\ Cleaned' = Cleaned /\ Good' = Good
      /\ Colored("black")' = Colored("black") /\ Colored("gray")' = Colored("gray")
  BY <1>2 DEF StrongRoots, FinalVals, Listed, Cleaned, Visited, Good, Colored
<1>7. GrayStack' /\ HeapPure' /\ PhaseColors' /\ Quiet'
  <2>1. GrayStack' /\ HeapPure' /\ PhaseColors'
    BY <1>2, MarkerFrame DEF IInv
  <2> QED
    BY <1>2, <2>1 DEF IInv, Quiet
<1>8. FinalBlocks'
  <2>1. \A e \in finalisable : e.val # Nil => e.val \in Block
    BY SMTT(60) DEF IInv, GoodInv, FinalVals, Good
  <2> QED
    BY SMTT(60), <1>2, <1>3, <2>1 DEF IInv, FinalBlocks
<1>9. GoodInv'
  BY ZenonT(60), <1>2, <1>4, <1>6 DEF IInv, GoodInv, Good
<1>10. WeakHeld'
  <2>1. Listed \subseteq Block /\ roots \subseteq Block
    BY SMTT(60), <1>1 DEF IInv, GoodInv, Good, TypeOK
  <2>2. \A d \in Block : tag[d] = "weak" => \A c \in Good : d \notin Succ(c)'
    BY SMTT(60), <1>4 DEF IInv, WeakHeld, Good
  <2>3. /\ \A a \in roots : tag'[a] = "weak" => a \in Listed
        /\ \A a \in Listed : tag'[a] = "weak"
    BY ZenonT(60), <1>3, <2>1 DEF IInv, WeakHeld
  <2>4. \A a \in Block : tag'[a] = "weak" =>
          /\ \A c \in Listed, f \in Field : field[c][f] # a
          /\ \A e \in finalisable \cup finalising : e.fun # a /\ e.val # a
          /\ \A c \in Good : a \notin Succ(c)'
    BY ZenonT(60), <1>3, <2>2 DEF IInv, WeakHeld
  <2> QED
    BY SMTT(60), <1>2, <1>6, <2>3, <2>4 DEF WeakHeld
<1>11. MarkInv'
  <2> SUFFICES ASSUME gc_phase = "mark", NEW S \in SUBSET Block, Covers(S)'
               PROVE  Spares(S \cup Colored("black"))'
    BY <1>2 DEF MarkInv
  <2>1. Covers(S)
    BY <1>2, <1>4, <1>6 DEF Covers
  <2>2. Spares(S \cup Colored("black"))
    BY <2>1 DEF IInv, MarkInv
  <2>3. \A c \in Colored("black") : Succ(c)' = Succ(c)
    BY <1>4 DEF Colored
  <2> QED
    BY ZenonT(60), <1>2, <1>6, <2>2, <2>3 DEF Spares
<1> QED
  BY SMTT(60), <1>5, <1>7, <1>8, <1>9, <1>10, <1>11 DEF IInv

\* A step that only changes what the program holds, and gives it nothing that
\* was not good and spared already.
LEMMA RootStep ==
  ASSUME IInv, pending = {}, NEW X \in SUBSET Good,
         roots' \subseteq roots \cup X, finalising' \subseteq finalising,
         UNCHANGED <<heapVars, phaseVars, stackVars, weakVars, finalisable, pending>>,
         \A x \in X : tag[x] # "weak",
         gc_phase = "mark" =>
           \A S \in SUBSET Block : Covers(S) => X \subseteq S \cup Colored("black")
  PROVE  IInv'
<1> USE DEF heapVars, phaseVars, stackVars, weakVars
<1>1. TypeOK /\ X \subseteq Block
  BY DEF IInv, Good
<1>2. TypeOK'
  BY <1>1 DEF TypeOK
<1>3. GrayStack' /\ HeapPure' /\ PhaseColors' /\ Quiet' /\ FinalBlocks'
  BY SMTT(60) DEF IInv, GrayStack, HeapPure, PhaseColors, Quiet, FinalBlocks, Colored
<1>4. /\ Good' = Good /\ FinalVals' = FinalVals /\ Listed' = Listed
      /\ Cleaned' = Cleaned /\ Colored("black")' = Colored("black")
      /\ Colored("gray")' = Colored("gray")
  BY SMTT(60) DEF Good, FinalVals, Listed, Cleaned, Visited, Colored
<1>5. StrongRoots' \subseteq StrongRoots \cup X
  BY SMTT(60) DEF StrongRoots
<1>6. \A b : Succ(b)' = Succ(b)
  BY SMTT(60) DEF Succ
<1>7. GoodInv'
  BY ZenonT(60), <1>4, <1>5, <1>6 DEF IInv, GoodInv
<1>8. WeakHeld'
  BY ZenonT(60), <1>4, <1>6 DEF IInv, WeakHeld
<1>9. MarkInv'
  <2> SUFFICES ASSUME gc_phase = "mark", NEW S \in SUBSET Block, Covers(S)'
               PROVE  Spares(S \cup Colored("black"))'
    BY DEF MarkInv
  <2>1. Covers(S)
    BY <1>4, <1>6 DEF Covers
  <2>2. Spares(S \cup Colored("black")) /\ X \subseteq S \cup Colored("black")
    BY <2>1 DEF IInv, MarkInv
  <2> QED
    BY ZenonT(60), <1>4, <1>5, <1>6, <2>2 DEF Spares
<1> QED
  BY <1>2, <1>3, <1>7, <1>8, <1>9 DEF IInv

\* Forgetting a root keeps IInv.
LEMMA Drop ==
  ASSUME IInv, pending = {}, NEW b \in roots, drop(b) PROVE IInv'
<1>1. /\ roots' \subseteq roots \cup {} /\ finalising' \subseteq finalising
      /\ UNCHANGED <<heapVars, phaseVars, stackVars, weakVars, finalisable, pending>>
  BY DEF drop, finalVars
<1>2. {} \in SUBSET Good
  OBVIOUS
<1> QED
  BY <1>1, <1>2, RootStep

\* A field of a block the program holds leads to a block to be spared.
LEMMA Load ==
  ASSUME IInv, pending = {}, NEW b \in roots, NEW f \in Field, tag[b] # "weak", load(b, f)
  PROVE  IInv'
<1> DEFINE X == {field[b][f]}
<1>1. /\ roots' \subseteq roots \cup X /\ finalising' \subseteq finalising
      /\ UNCHANGED <<heapVars, phaseVars, stackVars, weakVars, finalisable, pending>>
  BY DEF load, finalVars
<1>2. b \in Good /\ b \in StrongRoots /\ b \in Block
  BY RootsGood
<1>3. field[b][f] \in Succ(b)
  BY <1>2 DEF load, Succ, Good
<1>4. X \in SUBSET Good /\ \A x \in X : tag[x] # "weak"
  BY <1>2, <1>3 DEF IInv, GoodInv, WeakHeld, Good
<1>5. ASSUME gc_phase = "mark", NEW S \in SUBSET Block, Covers(S)
      PROVE  X \subseteq S \cup Colored("black")
  <2>1. Spares(S \cup Colored("black"))
    BY SMTT(60), <1>5 DEF IInv, MarkInv
  <2>2. CASE b \in Colored("black")
    BY <1>3, <2>1, <2>2 DEF Spares
  <2>3. CASE b \notin Colored("black")
    <3>1. b \in S /\ color[b] # "black"
      BY <1>2, <2>1, <2>3 DEF Spares, Colored
    <3> QED
      BY <1>3, <1>5, <3>1 DEF Covers
  <2> QED
    BY <2>2, <2>3
<1> QED
  BY ZenonT(60), <1>1, <1>4, <1>5, RootStep

\* Outside marking the fields of the copied block are good.
LEMMA WeakGetCopy ==
  ASSUME IInv, SafeProgram, pending = {}, NEW a \in roots, NEW f \in Field,
         tag[a] = "weak", weak_get_copy(a, f)
  PROVE  IInv'
<1> DEFINE X == Succ(field[a][f])
<1>1. /\ roots' \subseteq roots \cup X /\ finalising' \subseteq finalising
      /\ UNCHANGED <<heapVars, phaseVars, stackVars, weakVars, finalisable, pending>>
  BY DEF weak_get_copy, finalVars
<1>2. gc_phase # "mark"
  BY DEF weak_get_copy, SafeProgram
<1>3. field[a][f] \in Good
  BY SMTT(60) DEF IInv, GoodInv, WeakHeld, weak_get_copy
<1>4. X \in SUBSET Good /\ \A x \in X : tag[x] # "weak"
  BY <1>3 DEF IInv, GoodInv, WeakHeld, Good
<1> QED
  BY SMTT(60), <1>1, <1>2, <1>4, RootStep

\* The finalisation function to call and its value are strong roots already.
LEMMA FinalDoCalls ==
  ASSUME IInv, pending = {}, final_do_calls PROVE IInv'
<1>1. PICK e \in finalising : /\ finalising' = finalising \ {e}
                              /\ roots' = roots \cup ({e.fun, e.val} \ {Nil})
  BY DEF final_do_calls
<1> DEFINE X == {e.fun, e.val} \ {Nil}
<1>2. /\ roots' \subseteq roots \cup X /\ finalising' \subseteq finalising
      /\ UNCHANGED <<heapVars, phaseVars, stackVars, weakVars, finalisable, pending>>
  BY <1>1 DEF final_do_calls
<1>3. X \subseteq StrongRoots
  BY DEF StrongRoots
<1>4. X \in SUBSET Good
  BY <1>3 DEF IInv, GoodInv
<1>5. \A x \in X : tag[x] # "weak"
  BY <1>4 DEF IInv, WeakHeld, Good
<1>6. ASSUME gc_phase = "mark", NEW S \in SUBSET Block, Covers(S)
      PROVE  X \subseteq S \cup Colored("black")
  BY <1>3, <1>6 DEF IInv, MarkInv, Spares
<1> HIDE DEF X
<1> QED
  BY <1>2, <1>4, <1>5, <1>6, RootStep

\* Registering a finalisation function adds values the program holds.
LEMMA FinalRegister ==
  ASSUME IInv, SafeProgram, pending = {}, NEW f \in roots \cup {Nil}, NEW v \in roots,
         final_register(f, v)
  PROVE  IInv'
<1> USE DEF heapVars, phaseVars, stackVars, weakVars
<1> DEFINE e == [fun |-> f, val |-> v]
<1>1. /\ finalisable' = finalisable \cup {e}
      /\ UNCHANGED <<heapVars, roots, phaseVars, stackVars, weakVars, finalising, pending>>
      /\ Storable(f) /\ Storable(v) /\ tag[v] # "forward"
  BY DEF final_register, SafeProgram
<1>2. TypeOK /\ roots \subseteq StrongRoots /\ roots \subseteq Good /\ roots \subseteq Block
  BY RootsGood DEF IInv
<1>3. e \in Entry /\ e.fun = f /\ e.val = v /\ v # Nil
  BY SMTT(60), <1>2, Consts DEF Entry
<1> HIDE DEF e
<1>4. TypeOK'
  BY <1>1, <1>2, <1>3 DEF TypeOK
<1>5. GrayStack' /\ HeapPure' /\ PhaseColors' /\ Quiet'
  <2>1. GrayStack' /\ HeapPure' /\ PhaseColors'
    BY <1>1, MarkerFrame DEF IInv
  <2> QED
    BY <1>1, <2>1 DEF IInv, Quiet
<1>6. FinalBlocks'
  BY SMTT(60), <1>1, <1>3 DEF IInv, FinalBlocks
<1>7. /\ Good' = Good /\ Listed' = Listed /\ Cleaned' = Cleaned
      /\ Colored("black")' = Colored("black") /\ Colored("gray")' = Colored("gray")
  BY <1>1 DEF Good, Listed, Cleaned, Visited, Colored
<1>8. StrongRoots' \subseteq StrongRoots \cup roots /\ FinalVals' \subseteq FinalVals \cup roots
  <2>1. \A d \in finalisable' : d \in finalisable \/ (d.fun \in roots \cup {Nil} /\ d.val \in roots)
    BY <1>1, <1>3
  <2>2. FinalVals' \subseteq FinalVals \cup roots
    BY <2>1 DEF FinalVals
  <2>3. StrongRoots' \subseteq StrongRoots \cup roots
    BY SMTT(60), <1>1, <2>1 DEF StrongRoots
  <2> QED
    BY SMTT(60), <2>2, <2>3
<1>9. \A b : Succ(b)' = Succ(b)
  BY SMTT(60), <1>1 DEF Succ
<1>10. GoodInv'
  BY SMTT(60), <1>1, <1>2, <1>7, <1>8, <1>9 DEF IInv, GoodInv
<1>11. WeakHeld'
  <2>1. \A a \in Block : tag[a] = "weak" => f # a /\ v # a
    BY SMTT(60), <1>1, Consts DEF Storable, SafeProgram
  <2> QED
    BY <1>1, <1>3, <1>7, <1>9, <2>1 DEF IInv, WeakHeld
<1>12. MarkInv'
  <2> SUFFICES ASSUME gc_phase = "mark", NEW S \in SUBSET Block, Covers(S)'
               PROVE  Spares(S \cup Colored("black"))'
    BY <1>1 DEF MarkInv
  <2>1. Covers(S)
    BY <1>1, <1>7, <1>9 DEF Covers
  <2>2. Spares(S \cup Colored("black"))
    BY <2>1 DEF IInv, MarkInv
  <2> QED
    BY <1>1, <1>2, <1>7, <1>8, <1>9, <2>2 DEF Spares
<1> QED
  BY <1>4, <1>5, <1>6, <1>10, <1>11, <1>12 DEF IInv

-----------------------------------------------------------------------------
(* The invariance of IInv, and the theorems.                                 *)

\* Every step of the collector and of the program preserves IInv.
LEMMA NextIInv == ASSUME SafeProgram, IInv, [Next]_vars PROVE IInv'
<1>1. CASE GC
  BY SMTT(60), <1>1, StartCycle, DarkenPending, MarkPop, MarkHeap, MarkRescan, MarkMainDone,
     MarkWeakArray, MarkWeakDone, MarkFinalDone, SweepBlock, SweepDone DEF GC
<1>2. CASE Mutator
  <2>0. pending = {}
    BY <1>2 DEF Mutator
  <2>1. CASE \E b \in roots : drop(b)
    BY <2>0, <2>1, Drop
  <2>2. CASE \E b \in roots, f \in Field : tag[b] # "weak" /\ load(b, f)
    BY <2>0, <2>2, Load
  <2>3. CASE \E b \in Block, init \in [Field -> roots \cup {Nil}] : alloc(b, init)
    BY <2>0, <2>3, Alloc
  <2>4. CASE \E b \in Plain, f \in Field, v \in roots \cup {Nil} : modify(b, f, v)
    BY <2>0, <2>4, ModifyStep
  <2>5. CASE \E b \in Plain : obj_set_tag(b)
    BY <2>0, <2>5, ObjSetTag
  <2>6. CASE \E b \in Block : weak_create(b)
    BY <2>0, <2>6, WeakCreate
  <2>7. CASE \E a \in roots, f \in Field, v \in roots \cup {Nil} :
               tag[a] = "weak" /\ weak_set(a, f, v)
    BY <2>0, <2>7, WeakSet
  <2>8. CASE \E a \in roots, f \in Field : tag[a] = "weak" /\ weak_get(a, f)
    BY <2>0, <2>8, WeakGet
  <2>9. CASE \E a \in roots, f \in Field : tag[a] = "weak" /\ weak_get_copy(a, f)
    BY <2>0, <2>9, WeakGetCopy
  <2>10. CASE \E f \in roots \cup {Nil}, v \in roots : final_register(f, v)
    BY <2>0, <2>10, FinalRegister
  <2>11. CASE final_do_calls
    BY <2>0, <2>11, FinalDoCalls
  <2> QED
    BY SMTT(60), <1>2, <2>1, <2>2, <2>3, <2>4, <2>5, <2>6, <2>7, <2>8, <2>9, <2>10, <2>11
    DEF Mutator
<1>3. CASE UNCHANGED vars
  <2>1. UNCHANGED <<heapVars, roots, gc_phase, gc_subphase, gc_sweep_hp,
                    weakVars, finalVars, pending>>
    BY <1>3 DEF vars, heapVars, phaseVars, stackVars, weakVars, finalVars
  <2>2. GoodInv' /\ MarkInv' /\ WeakHeld' /\ FinalBlocks'
    BY <2>1, Frame
  <2>3. GrayStack' /\ HeapPure' /\ PhaseColors'
    BY SMTT(60), <1>3, MarkerFrame DEF IInv, vars, heapVars, phaseVars, stackVars
  <2>4. TypeOK' /\ Quiet'
    BY <1>3 DEF IInv, TypeOK, Quiet, vars, heapVars, phaseVars, stackVars, weakVars, finalVars
  <2> QED
    BY <2>2, <2>3, <2>4 DEF IInv
<1> QED
  BY <1>1, <1>2, <1>3 DEF Next

\* What the program reaches is good, and black when there is nothing left to
\* mark.
LEMMA ReachFacts ==
  ASSUME IInv
  PROVE  /\ Reach \subseteq Good
         /\ MarkDone => Reach \subseteq Colored("black")
         /\ \A a \in Reach : tag[a] = "weak" => a \in Listed
<1>1. Reach \subseteq Good
  <2>1. Good \in SUBSET Block /\ StrongRoots \subseteq Good /\ Closed(Good)
    BY DEF IInv, GoodInv, Good, Closed
  <2> QED
    BY SMTT(60), <2>1 DEF Reach, ReachFrom
<1>2. ASSUME MarkDone PROVE Reach \subseteq Colored("black")
  <2>1. Spares(Colored("black"))
    BY SMTT(60), <1>2, MarkDoneFacts
  <2>2. Colored("black") \in SUBSET Block /\ Closed(Colored("black"))
    BY <2>1 DEF Spares, Closed, Colored
  <2>3. StrongRoots \subseteq Colored("black")
    BY <2>1 DEF Spares
  <2> QED
    BY <2>2, <2>3 DEF Reach, ReachFrom
<1>3. \A a \in Reach : tag[a] = "weak" => a \in Listed
  <2> DEFINE S == {b \in Good : tag[b] = "weak" => b \in Listed}
  <2>1. S \in SUBSET Block
    BY DEF Good
  <2>2. StrongRoots \subseteq S
    <3>1. ASSUME NEW r \in StrongRoots, tag[r] = "weak" PROVE r \in Listed
      <4>1. r \in Block
        BY DEF IInv, GoodInv, Good
      <4>2. r \in roots
        BY <3>1, <4>1 DEF StrongRoots, IInv, WeakHeld
      <4> QED
        BY <3>1, <4>2 DEF IInv, WeakHeld
    <3> QED
      BY <3>1 DEF IInv, GoodInv
  <2>3. Closed(S)
    <3> SUFFICES ASSUME NEW b \in S, NEW c \in Succ(b) PROVE c \in S
      BY DEF Closed
    <3>1. b \in Good /\ c \in Good /\ c \in Block
      BY DEF IInv, GoodInv, Good
    <3>2. tag[c] # "weak"
      BY <3>1 DEF IInv, WeakHeld
    <3> QED
      BY <3>1, <3>2
  <2>4. Reach \subseteq S
    BY <2>1, <2>2, <2>3 DEF Reach, ReachFrom
  <2> QED
    BY <2>4
<1> QED
  BY <1>1, <1>2, <1>3

\* The invariant of the collector holds for a heap of any size, any mark stack
\* and any number of roots.
THEOREM Invariance == ASSUME SafeProgram PROVE Spec => []IInv
<1>1. IInv /\ [Next]_vars => IInv'
  BY NextIInv
<1> QED
  BY <1>1, InitIInv, PTL DEF Spec

\* Every variable of the collector keeps its type.
THEOREM TypeCorrect == ASSUME SafeProgram PROVE Spec => []TypeOK
<1>1. IInv => TypeOK
  BY DEF IInv
<1> QED
  BY <1>1, Invariance, PTL

\* The mark stack holds each block once, and only gray blocks: mark_slice pops
\* a gray block and never marks the fields of one twice.
THEOREM StackDiscipline == ASSUME SafeProgram PROVE Spec => []GrayStack
<1>1. IInv => GrayStack
  BY DEF IInv
<1> QED
  BY <1>1, Invariance, PTL

\* heap_is_pure is set only while no gray block is missing from the mark stack,
\* so that mark_slice may end the marking when the stack is empty.
THEOREM PurityHonest == ASSUME SafeProgram PROVE Spec => []HeapPure
<1>1. IInv => HeapPure
  BY DEF IInv
<1> QED
  BY <1>1, Invariance, PTL

\* No gray or stale black block is left between phases: what mark_slice and
\* sweep_slice assert of the colours they meet.
THEOREM ColourDiscipline == ASSUME SafeProgram PROVE Spec => []PhaseColors
<1>1. IInv => PhaseColors
  BY DEF IInv
<1> QED
  BY <1>1, Invariance, PTL

\* The collector never frees a block the program can reach: snapshot marking
\* with a deletion barrier is sound, with a mark stack that overflows, weak
\* pointers, Forward blocks and finalised values.
THEOREM Safety == ASSUME SafeProgram PROVE Spec => []NoLiveFreed
<1>1. IInv => NoLiveFreed
  BY ReachFacts DEF NoLiveFreed, Good, Colored
<1> QED
  BY <1>1, Invariance, PTL

\* A weak array the program can reach never points to a freed block.
THEOREM WeakSafety == ASSUME SafeProgram PROVE Spec => []WeakNotDangling
<1>1. IInv => WeakNotDangling
  <2> SUFFICES ASSUME IInv, NEW a \in Block, tag[a] = "weak", a \in Reach, NEW f \in Field
               PROVE  field[a][f] \notin Colored("blue")
    BY DEF WeakNotDangling
  <2>1. a \in Listed
    BY ReachFacts
  <2>2. field[a][f] \in Good \cup {Nil}
    BY <2>1 DEF IInv, GoodInv
  <2> QED
    BY <2>2, Consts DEF Good, Colored
<1> QED
  BY <1>1, Invariance, PTL

\* An array is in weak_list once.
WeakOnce ==
  \A i, j \in 1 .. Len(weak_list) : weak_list[i] = weak_list[j] => i = j

\* It stays so: weak_create links a block that was free, and no array in the
\* list is, and the weak subphase only takes arrays out.
LEMMA NextWeakOnce == ASSUME IInv, WeakOnce, [Next]_vars PROVE WeakOnce'
<1>0. weak_list \in Seq(Block)
  BY DEF IInv, TypeOK
<1>1. ASSUME UNCHANGED weak_list PROVE WeakOnce'
  BY <1>1 DEF WeakOnce
<1>2. ASSUME NEW b \in Block, weak_create(b) PROVE WeakOnce'
  <2>1. color[b] = "blue" /\ weak_list' = <<b>> \o weak_list
    BY <1>2 DEF weak_create, alloc_shr
  <2>2. \A i \in 1 .. Len(weak_list) : weak_list[i] # b
    BY <2>1 DEF IInv, GoodInv, Good, Listed
  <2>3. /\ Len(weak_list') = Len(weak_list) + 1 /\ weak_list'[1] = b
        /\ \A i \in 2 .. Len(weak_list) + 1 : weak_list'[i] = weak_list[i - 1]
    BY <1>0, <2>1
  <2>4. Len(weak_list) \in Nat
    BY <1>0
  <2> SUFFICES ASSUME NEW i \in 1 .. Len(weak_list) + 1, NEW j \in 1 .. Len(weak_list) + 1,
                      weak_list'[i] = weak_list'[j]
               PROVE  i = j
    BY <2>3 DEF WeakOnce
  <2> QED
    BY <2>2, <2>3, <2>4 DEF WeakOnce
<1>3. ASSUME mark_weak_array PROVE WeakOnce'
  <2>1. CASE weak_list' = Unlink(weak_list, weak_prev)
    <3>1. weak_prev \in 0 .. Len(weak_list) - 1 /\ Len(weak_list) \in Nat
      BY <1>0, <1>3 DEF mark_weak_array, IInv, TypeOK
    <3>2. /\ Len(weak_list') = Len(weak_list) - 1
          /\ \A i \in 1 .. weak_prev : weak_list'[i] = weak_list[i]
          /\ \A i \in weak_prev + 1 .. Len(weak_list) - 1 : weak_list'[i] = weak_list[i + 1]
      BY <1>0, <2>1, <3>1, UnlinkFacts
    <3> SUFFICES ASSUME NEW i \in 1 .. Len(weak_list) - 1, NEW j \in 1 .. Len(weak_list) - 1,
                        weak_list'[i] = weak_list'[j]
                 PROVE  i = j
      BY <3>2 DEF WeakOnce
    <3> QED
      BY <3>1, <3>2 DEF WeakOnce
  <2> QED
    BY <1>1, <1>3, <2>1 DEF mark_weak_array
<1>4. CASE GC
  <2>1. mark_weak_array \/ UNCHANGED weak_list
    BY ZenonT(60), <1>4 DEF GC, start_cycle, darken_pending, mark_pop, mark_heap, mark_rescan,
       mark_main_done, mark_weak_done, mark_final_done, sweep_block, sweep_done, weakVars
  <2> QED
    BY <1>1, <1>3, <2>1
<1>5. CASE Mutator
  <2>1. (\E b \in Block : weak_create(b)) \/ UNCHANGED weak_list
    BY ZenonT(60), <1>5 DEF Mutator, drop, load, alloc, modify, obj_set_tag, weak_set,
       weak_get, weak_get_copy, final_register, final_do_calls, weakVars
  <2> QED
    BY <1>1, <1>2, <2>1
<1> QED
  BY <1>1, <1>4, <1>5 DEF Next, vars, weakVars

\* No array of weak_list, which is threaded through the arrays themselves, is
\* freed, and none is linked twice.
THEOREM WeakListStays == ASSUME SafeProgram PROVE Spec => []WeakListIntact
<1>1. Init => WeakOnce
  BY DEF Init, WeakOnce
<1>2. IInv /\ WeakOnce /\ [Next]_vars => WeakOnce'
  BY NextWeakOnce
<1>3. IInv /\ WeakOnce => WeakListIntact
  BY DEF IInv, GoodInv, Good, WeakHeld, Listed, WeakOnce, WeakListIntact
<1> QED
  BY <1>1, <1>2, <1>3, Invariance, PTL DEF Spec

\* No value is freed while a finalisation function is registered for it or
\* about to be called with it.
THEOREM FinalSafety == ASSUME SafeProgram PROVE Spec => []FinalValuesKept
<1>1. IInv => FinalValuesKept
  <2> SUFFICES ASSUME IInv, NEW e \in finalisable \cup finalising
               PROVE  e.val \notin Colored("blue")
    BY DEF FinalValuesKept
  <2>1. e.val = Nil \/ e.val \in StrongRoots \cup FinalVals
    BY DEF StrongRoots, FinalVals
  <2>2. e.val \in Good \cup {Nil}
    BY <2>1 DEF IInv, GoodInv
  <2> QED
    BY <2>2, Consts DEF Good, Colored
<1> QED
  BY <1>1, Invariance, PTL

\* A value is finalised only when the program can no longer reach it: at the
\* end of marking what is reachable is black, and final_update takes the white
\* values.
THEOREM FinaliseUnreachable ==
  ASSUME SafeProgram PROVE Spec => FinalisesOnlyUnreachable
<1>1. ASSUME IInv, Next, NEW e \in finalising' \ finalising PROVE e.val \notin Reach
  <2>1. mark_weak_done
    BY ZenonT(60), <1>1 DEF Next, GC, Mutator, start_cycle, darken_pending, mark_pop, mark_heap,
       mark_rescan, mark_main_done, mark_weak_array, mark_final_done, sweep_block,
       sweep_done, drop, load, alloc, modify, obj_set_tag, weak_create, weak_set,
       weak_get, weak_get_copy, final_register, final_do_calls, finalVars
  <2>2. e \in finalisable /\ color[e.val] = "white"
    BY <1>1, <2>1, FinalUpdateFacts
  <2>3. MarkDone
    BY <2>1 DEF mark_weak_done
  <2> QED
    BY SMTT(60), <1>1, <2>2, <2>3, ReachFacts DEF Colored
<1>2. IInv /\ [Next]_vars =>
        [\A e \in finalising' \ finalising : e.val \notin Reach]_vars
  BY <1>1
<1> QED
  BY <1>2, Invariance, PTL DEF Spec, FinalisesOnlyUnreachable

\* Following Forward blocks ends in one place.
LEMMA ForwardEndUnique ==
  ASSUME TypeOK, NEW L, L \subseteq Block, NEW v \in Val,
         NEW x \in ForwardEnd(v, L), NEW y \in ForwardEnd(v, L)
  PROVE  x = y
<1> DEFINE S == {w \in Val : x \in Chain(w, L)}
<1>1. v \in S /\ S \in SUBSET Val /\ x \in Val /\ y \in Val /\ x \notin L /\ y \notin L
  BY DEF ForwardEnd, Chain
<1>2. ASSUME NEW b \in S \cap L PROVE field[b][1] \in S
  <2>1. field[b][1] \in Val
    BY Consts DEF TypeOK
  <2>2. ASSUME NEW K \in SUBSET Val, field[b][1] \in K,
               \A c \in K \cap L : field[c][1] \in K
        PROVE  x \in K
    <3>1. K \cup {b} \in SUBSET Val /\ b \in K \cup {b}
      OBVIOUS
    <3>2. \A c \in (K \cup {b}) \cap L : field[c][1] \in K \cup {b}
      BY <2>2
    <3>3. x \in Chain(b, L)
      OBVIOUS
    <3>4. x \in K \cup {b}
      BY ZenonT(60), <3>1, <3>2, <3>3 DEF Chain
    <3> QED
      BY <1>1, <3>4
  <2> QED
    BY <1>1, <2>1, <2>2 DEF Chain
<1>3. y \in S
  <2>1. y \in Chain(v, L)
    BY DEF ForwardEnd
  <2> HIDE DEF S
  <2> QED
    BY <1>1, <1>2, <2>1 DEF Chain
<1>4. x \in Chain(y, L)
  BY <1>3
<1>5. {y} \in SUBSET Val /\ {y} \cap L = {}
  BY <1>1
<1> QED
  BY ZenonT(60), <1>4, <1>5 DEF Chain

\* A weak pointer is emptied only when what it led to is out of reach.
THEOREM WeakErasure == ASSUME SafeProgram PROVE Spec => ErasesOnlyDead
<1>1. ASSUME IInv, GC, NEW a \in Block, color[a] # "blue", color'[a] # "blue",
             tag[a] = "weak", NEW f \in Field, field[a][f] # Nil, field'[a][f] = Nil
      PROVE  ForwardEnd(field[a][f], Forwards) \cap Reach = {}
  <2>1. TypeOK
    BY <1>1 DEF IInv
  <2>2. ~ mark_pop
    <3> SUFFICES ASSUME mark_pop PROVE FALSE
      OBVIOUS
    <3>1. PICK v \in Block : v = gray_vals[Len(gray_vals)]
      BY <2>1 DEF mark_pop, TypeOK
    <3>2. field'[a] = field[a]
      BY <1>1, <2>1, <3>1 DEF mark_pop, TypeOK
    <3> QED
      BY <1>1, <3>2
  <2>3. ~ sweep_block
    <3> SUFFICES ASSUME sweep_block PROVE FALSE
      OBVIOUS
    <3>1. PICK b \in Block : b = gc_sweep_hp
      BY <2>1, NAssumption DEF sweep_block, TypeOK, Block, Limit
    <3>2. CASE field' = field
      BY <1>1, <3>2
    <3>3. CASE color' = [color EXCEPT ![b] = "blue"] /\
               field' = [field EXCEPT ![b] = [g \in Field |-> Nil]]
      <4>1. a # b
        BY SMTT(60), <1>1, <2>1, <3>3 DEF TypeOK
      <4> QED
        BY <1>1, <2>1, <3>3, <4>1 DEF TypeOK
    <3> QED
      BY <3>1, <3>2, <3>3 DEF sweep_block, heapVars
  <2>4. mark_weak_array
    <3>1. mark_weak_array \/ mark_pop \/ sweep_block \/ field' = field
      BY ZenonT(60), <1>1 DEF GC, start_cycle, darken_pending, mark_heap, mark_rescan,
         mark_main_done, mark_weak_done, mark_final_done, sweep_done, heapVars
    <3>2. field' # field
      BY <1>1
    <3> QED
      BY <2>2, <2>3, <3>1, <3>2
  <2>5. MarkDone /\ weak_prev < Len(weak_list)
    BY ZenonT(60), <2>4 DEF mark_weak_array
  <2>6. PICK cur \in Block : cur = weak_list[weak_prev + 1]
    BY SMTT(60), <2>1, <2>5 DEF TypeOK
  <2>7. PICK end \in [Field -> Val] :
          /\ \A g \in Field : end[g] \in ForwardEnd(field[cur][g], Forwards)
          /\ field' = [field EXCEPT ![cur] =
                [g \in Field |-> IF end[g] # Nil /\ color[end[g]] = "white"
                                 THEN Nil ELSE end[g]]]
    BY ZenonT(60), <1>1, <2>4, <2>6 DEF mark_weak_array
  <2>8. a = cur
    BY ZenonT(60), <1>1, <2>1, <2>7 DEF TypeOK
  <2>9. end[f] = Nil \/ color[end[f]] = "white"
    <3>1. field'[cur][f] = IF end[f] # Nil /\ color[end[f]] = "white" THEN Nil ELSE end[f]
      <4>1. cur \in DOMAIN field
        BY <2>1 DEF TypeOK
      <4>2. field'[cur] = [g \in Field |-> IF end[g] # Nil /\ color[end[g]] = "white"
                                           THEN Nil ELSE end[g]]
        BY ZenonT(60), <2>7, <4>1
      <4> QED
        BY ZenonT(60), <1>1, <4>2
    <3> QED
      BY ZenonT(60), <1>1, <2>8, <3>1
  <2>10. end[f] \notin Reach
    <3>1. Reach \subseteq Colored("black")
      BY <1>1, <2>5, ReachFacts
    <3> QED
      BY ZenonT(60), <2>9, <3>1, Consts DEF Colored
  <2>11. \A x \in ForwardEnd(field[a][f], Forwards) : x = end[f]
    <3>1. field[a][f] \in Val /\ Forwards \subseteq Block
      BY SMTT(60), <2>1 DEF TypeOK, Forwards
    <3> QED
      BY <2>1, <2>7, <2>8, <3>1, ForwardEndUnique
  <2> QED
    BY <2>10, <2>11
<1>2. IInv /\ [Next]_vars =>
        [\A a \in Block : color[a] # "blue" /\ color'[a] # "blue" /\ tag[a] = "weak" =>
           \A f \in Field : field[a][f] # Nil /\ field'[a][f] = Nil /\ GC
              => ForwardEnd(field[a][f], Forwards) \cap Reach = {}]_vars
  BY <1>1
<1> QED
  BY <1>2, Invariance, PTL DEF Spec, ErasesOnlyDead
=============================================================================
