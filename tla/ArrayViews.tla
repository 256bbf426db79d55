----------------------------- MODULE ArrayViews -----------------------------
(***************************************************************************)
(* What Bigarray promises (bigarray.mli): an array is a view, a function   *)
(* from index vectors to cells of a store; a sub-array, a slice and a      *)
(* reshaped array are views of the same cells; a store through one view is *)
(* seen through every other.  Each step is one call, recorded in call with *)
(* its arguments, its result r or exception err.  Where the code refuses    *)
(* other arguments than bigarray.mli says, Departures says whose side is   *)
(* taken: the ones it names are the code's.                                *)
(***************************************************************************)
EXTENDS Integers, Sequences, FiniteSets

CONSTANTS
  MAX_NUM_DIMS,
  Departures  \* a subset of {"empty_slice", "sub_right"}

VARIABLES
  views,  \* [kind, layout, dim, at] of each array; at: index vectors -> cells
  store,  \* the value of each cell of some view
  call

Invalid == "invalid_argument"

\* The index vectors of an array, of indices up to MaxIndex.
MaxIndex == 4
First(layout) == IF layout = "c" THEN 0 ELSE 1
Index(layout, dim) ==
  {i \in [DOMAIN dim -> 0..MaxIndex] : \A k \in DOMAIN dim : i[k] - First(layout) \in 0..(dim[k] - 1)}

\* Their order in memory: the last index varies first, or the first one.
Before(layout, i, j) ==
  \E k \in DOMAIN i :
    /\ i[k] < j[k]
    /\ \A l \in DOMAIN i : (IF layout = "c" THEN l < k ELSE l > k) => i[l] = j[l]
Rank(layout, dim, i) == Cardinality({j \in Index(layout, dim) : Before(layout, j, i)})

\* What a cell of the kind holds after v was stored in it.
Signed(v, w) == ((v + 2 ^ (w - 1)) % 2 ^ w) - 2 ^ (w - 1)
Held(kind, v) == CASE kind = "sint8" -> Signed(v, 8)
                   [] kind = "uint8" -> v % 2 ^ 8
                   [] kind = "sint16" -> Signed(v, 16)
                   [] kind = "uint16" -> v % 2 ^ 16
                   [] OTHER -> v

Cells(v) == {v.at[i] : i \in DOMAIN v.at}
Alive == UNION {Cells(views'[a]) : a \in DOMAIN views'}
Unchanged == UNCHANGED <<views, store>>
Fails(c) == c.err = Invalid /\ Unchanged
Succeeds(c) == c.err = ""
NegativeDim(dim) == \E k \in DOMAIN dim : dim[k] < 0
BadNumber(dim) == Len(dim) \notin 1..MAX_NUM_DIMS

\* A new array, its cells its own.
Create(c) ==
  \/ Fails(c) /\ (BadNumber(c.dim) \/ NegativeDim(c.dim))
  \/ /\ Succeeds(c) /\ ~BadNumber(c.dim) /\ ~NegativeDim(c.dim) /\ c.r \in DOMAIN views' \ DOMAIN views
     /\ LET v == views'[c.r]
        IN  /\ v.kind = c.kind /\ v.layout = c.layout /\ v.dim = c.dim
            /\ DOMAIN v.at = Index(c.layout, c.dim)
            /\ \A i, j \in DOMAIN v.at : v.at[i] = v.at[j] => i = j
            /\ Cells(v) \cap DOMAIN store = {}
     /\ \A a \in DOMAIN views : views'[a] = views[a]
     /\ \A x \in DOMAIN store : store'[x] = store[x]

\* A file mapped: cells of the file, which other mappings may share, with its
\* contents, zeros beyond its end.  The major dimension, left out (-1), is the
\* one that takes the whole file, which must be made of whole sub-arrays.  The
\* system maps no empty file.
Size(kind) == IF kind \in {"sint8", "uint8"} THEN 1 ELSE 2
InFile(c, n) ==
  LET byte(i) == IF i <= Len(c.file) THEN c.file[i] ELSE 0
  IN  Held(c.kind, IF Size(c.kind) = 1 THEN byte(n + 1) ELSE byte(2 * n + 1) + 256 * byte(2 * n + 2))
Map(c) ==
  LET major == IF c.layout = "c" THEN 1 ELSE Len(c.dim)
      rest == [k \in DOMAIN c.dim |-> IF k = major THEN 1 ELSE c.dim[k]]
      unit == Cardinality(Index("c", rest)) * Size(c.kind)
      whole == [c.dim EXCEPT ![major] = Len(c.file) \div unit]
      dim == IF c.dim[major] = -1 THEN whole ELSE c.dim
  IN  IF BadNumber(c.dim) \/ NegativeDim(rest) \/ c.dim[major] < -1 THEN Fails(c)
      ELSE IF c.dim[major] = -1 /\ Len(c.file) % unit # 0 THEN c.err = "failure" /\ Unchanged
      ELSE IF Index(c.layout, dim) = {} THEN c.err = "sys_error" /\ Unchanged
      ELSE /\ Succeeds(c) /\ c.r \in DOMAIN views' \ DOMAIN views
           /\ LET v == views'[c.r]
              IN  /\ v.kind = c.kind /\ v.layout = c.layout /\ v.dim = dim
                  /\ DOMAIN v.at = Index(c.layout, dim)
                  /\ \A i, j \in DOMAIN v.at : v.at[i] = v.at[j] => i = j
                  /\ \A i \in DOMAIN v.at : store'[v.at[i]] = InFile(c, Rank(c.layout, dim, i))
           /\ \A a \in DOMAIN views : views'[a] = views[a]
           /\ \A x \in DOMAIN store : store'[x] = store[x]

\* A view of cells of an array, given by a function to its index vectors.
View(c, layout, dim, from(_)) ==
  /\ Succeeds(c) /\ c.r \notin DOMAIN views
  /\ DOMAIN views' = DOMAIN views \cup {c.r}
  /\ \A a \in DOMAIN views : views'[a] = views[a]
  /\ views'[c.r] = [kind |-> views[c.a].kind, layout |-> layout, dim |-> dim,
                    at |-> [i \in Index(layout, dim) |-> views[c.a].at[from(i)]]]
  /\ store' = store

\* Elements ofs to ofs + len - 1 of the first dimension, or of the last one.
Sub(c) ==
  LET v == views[c.a]
      k == IF v.layout = "c" THEN 1 ELSE Len(v.dim)
      lo == c.ofs - First(v.layout)
      end == IF "sub_right" \in Departures THEN lo + c.len ELSE c.ofs + c.len
  IN  IF lo < 0 \/ c.len < 0 \/ end > v.dim[k] THEN Fails(c)
      ELSE View(c, v.layout, [v.dim EXCEPT ![k] = c.len], LAMBDA i : [i EXCEPT ![k] = @ + lo])

\* The indices given fix the first dimensions, or the last ones.
Slice(c) ==
  LET v == views[c.a]
      n == Len(c.ind)
      all(i) == IF v.layout = "c" THEN c.ind \o i ELSE i \o c.ind
      fixed == IF v.layout = "c" THEN SubSeq(v.dim, 1, n) ELSE SubSeq(v.dim, Len(v.dim) - n + 1, Len(v.dim))
      dim == IF v.layout = "c" THEN SubSeq(v.dim, n + 1, Len(v.dim)) ELSE SubSeq(v.dim, 1, Len(v.dim) - n)
      empty == Index(v.layout, dim) = {}
  IN  IF n >= Len(v.dim) \/ c.ind \notin Index(v.layout, fixed) \/ ("empty_slice" \in Departures /\ empty)
      THEN Fails(c)
      ELSE View(c, v.layout, dim, all)

\* The same elements in the same order.
Reshape(c) ==
  LET v == views[c.a]
      ok == ~BadNumber(c.dim) /\ ~NegativeDim(c.dim)
  IN  IF ~ok \/ Cardinality(Index(v.layout, c.dim)) # Cardinality(DOMAIN v.at) THEN Fails(c)
      ELSE View(c, v.layout, c.dim,
                LAMBDA i : CHOOSE j \in DOMAIN v.at : Rank(v.layout, v.dim, j) = Rank(v.layout, c.dim, i))

Get(c) ==
  /\ Unchanged
  /\ IF c.ind \in DOMAIN views[c.a].at THEN Succeeds(c) /\ c.r = store[views[c.a].at[c.ind]] ELSE Fails(c)

Set(c) ==
  LET v == views[c.a]
  IN  IF c.ind \notin DOMAIN v.at THEN Fails(c)
      ELSE Succeeds(c) /\ views' = views /\ store' = [store EXCEPT ![v.at[c.ind]] = Held(v.kind, c.v)]

Fill(c) ==
  /\ views' = views
  /\ store' = [x \in DOMAIN store |-> IF x \in Cells(views[c.a]) THEN Held(views[c.a].kind, c.v) ELSE store[x]]

\* The destination takes what the source held before, overlapping or not.
Blit(c) ==
  LET s == views[c.a]
      d == views[c.b]
  IN  IF s.dim # d.dim THEN Fails(c)
      ELSE /\ Succeeds(c) /\ views' = views
           /\ \A i \in DOMAIN d.at : store'[d.at[i]] = store[s.at[i]]
           /\ \A x \in DOMAIN store \ Cells(d) : store'[x] = store[x]

\* Output and input of the array: a new one, with the same elements.
Copy(c) ==
  /\ Create([c EXCEPT !.dim = views[c.a].dim, !.kind = views[c.a].kind, !.layout = views[c.a].layout])
  /\ \A i \in DOMAIN views[c.a].at : store'[views'[c.r].at[i]] = store[views[c.a].at[i]]

\* Equal means same dimensions and elements; equal arrays hash alike.
Compare(c) ==
  /\ Unchanged
  /\ LET s == views[c.a]
         d == views[c.b]
     IN  (c.r = 0) <=> (s.dim = d.dim /\ \A i \in DOMAIN s.at : store[s.at[i]] = store[d.at[i]])
  /\ c.r = 0 => c.hash
  /\ c.r = -c.back

\* An array no one refers to any more.
Drop(c) ==
  /\ views' = [a \in DOMAIN views \ {c.a} |-> views[a]]
  /\ store' = [c2 \in Alive |-> store[c2]]

Init == views = <<>> /\ store = <<>>
Next ==
  LET c == call'
  IN  CASE c.op = "create" -> Create(c)   [] c.op = "map" -> Map(c)
        [] c.op = "sub" -> Sub(c)         [] c.op = "slice" -> Slice(c)
        [] c.op = "reshape" -> Reshape(c) [] c.op = "get" -> Get(c)
        [] c.op = "set" -> Set(c)         [] c.op = "fill" -> Fill(c)
        [] c.op = "blit" -> Blit(c)       [] c.op = "copy" -> Copy(c)
        [] c.op = "compare" -> Compare(c) [] c.op = "drop" -> Drop(c)
        [] OTHER -> FALSE

Spec == Init /\ [][Next]_<<views, store, call>>
=============================================================================
