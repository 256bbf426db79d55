------------------------------ MODULE Bigarray ------------------------------
(***************************************************************************)
(* Big arrays: otherlibs/bigarray/bigarray_stubs.c and mmap_unix.c, on a   *)
(* 32-bit little-endian machine whose malloc(0) is not NULL.  Memory is    *)
(* segments of bytes: blocks of malloc, mappings of a file, memory of      *)
(* other libraries.  A float is a small natural, in the first byte of its  *)
(* representation.  The garbage collector finalises, at any time, an array *)
(* nothing refers to any more; inside alloc_bigarray it may also free or   *)
(* move the array a view is made of, which is not one of its roots there.  *)
(***************************************************************************)
EXTENDS Integers, Sequences, FiniteSets, TLC

CONSTANTS
  MAX_NUM_DIMS,
  MaxArrays,     \* bound on the arrays alive
  MaxCalls,      \* bound on the calls
  NewArrays,     \* [kind, layout, dim] of the arrays created
  External,      \* the same, of arrays on memory of other libraries
  NewMappings,   \* the same, of files mapped; -1 stands for a dimension left out
  FileSize,      \* the bytes of the file at first
  Garbage,       \* what a byte of new memory may hold
  Dims, Inds, Ranges, StoredValues  \* arguments of reshape, slice, get, sub and set

VARIABLES
  arrays,    \* [kind, layout, managed, data, dim, proxy] of each array; data = [seg, ofs]
  segs,      \* [k, len, bytes] of each segment; a shared mapping's bytes are the file's
  proxies,   \* [refcount, data, size]
  file,      \* [bytes, pos]
  bad,       \* whether memory was freed, or written, that is not in use
  stale,     \* whether a view was made of an array freed or moved meanwhile
  call, calls,
  views, store  \* ghost: the arrays as views of cells, and what the cells hold

vars == <<arrays, segs, proxies, file, bad, stale, call, calls, views, store>>

Invalid == "invalid_argument"
Max2(a, b) == IF a > b THEN a ELSE b
New(f) == CHOOSE n \in 1..(Cardinality(DOMAIN f) + 1) : n \notin DOMAIN f
Without(f, i) == [j \in DOMAIN f \ {i} |-> f[j]]
RECURSIVE Product(_)
Product(dim) == IF dim = <<>> THEN 1 ELSE Head(dim) * Product(Tail(dim))
RECURSIVE Concat(_)
Concat(ss) == IF ss = <<>> THEN <<>> ELSE Head(ss) \o Concat(Tail(ss))

-----------------------------------------------------------------------------
(* Elements.                                                               *)

bigarray_element_size(kind) ==
  CASE kind \in {"sint8", "uint8"} -> 1
    [] kind \in {"sint16", "uint16"} -> 2
    [] kind \in {"float32", "int32", "caml_int", "native_int"} -> 4
    [] kind \in {"float64", "int64", "complex32"} -> 8
    [] kind = "complex64" -> 16

bigarray_num_elts(b) == Product(b.dim)
bigarray_byte_size(b) == bigarray_num_elts(b) * bigarray_element_size(b.kind)

Float(n, w) == [i \in 1..w |-> IF i = 1 THEN n ELSE IF i = w THEN 64 ELSE 0]
IntBytes(v, w) == [i \in 1..w |-> IF i <= 4 THEN (v \div 256 ^ (i - 1)) % 256 ELSE IF v < 0 THEN 255 ELSE 0]
RECURSIVE UInt(_)
UInt(p) == IF p = <<>> THEN 0 ELSE Head(p) + 256 * UInt(Tail(p))
SInt(p) == UInt(SubSeq(p, 1, Len(p) - 1))
           + 256 ^ (Len(p) - 1) * (IF p[Len(p)] >= 128 THEN p[Len(p)] - 256 ELSE p[Len(p)])

\* The bytes an element is stored as, and the value read from them.
Stores(kind, v) ==
  CASE kind \in {"sint8", "uint8"} -> IntBytes(v, 1)
    [] kind \in {"sint16", "uint16"} -> IntBytes(v, 2)
    [] kind \in {"int32", "caml_int", "native_int"} -> IntBytes(v, 4)
    [] kind = "int64" -> IntBytes(v, 8)
    [] kind = "float32" -> Float(v, 4)
    [] kind = "float64" -> Float(v, 8)
    [] kind = "complex32" -> Float(v[1], 4) \o Float(v[2], 4)
    [] kind = "complex64" -> Float(v[1], 8) \o Float(v[2], 8)
Reads(kind, p) ==
  CASE kind \in {"sint8", "sint16"} -> SInt(p)
    [] kind \in {"uint8", "uint16"} -> UInt(p)
    [] kind \in {"int32", "caml_int", "native_int", "int64"} -> SInt(SubSeq(p, 1, 4))
    [] kind \in {"float32", "float64"} -> p[1]
    [] kind = "complex32" -> <<p[1], p[5]>>
    [] kind = "complex64" -> <<p[1], p[9]>>

-----------------------------------------------------------------------------
(* Memory.                                                                 *)

BytesOf(sg, f) == IF sg.k = "shared" THEN SubSeq(f.bytes, 1, sg.len) ELSE sg.bytes
Load(p, n) == SubSeq(BytesOf(segs[p.seg], file), p.ofs + 1, p.ofs + n)
Overlay(bytes, ofs, new) ==
  SubSeq(bytes, 1, ofs) \o new \o SubSeq(bytes, ofs + Len(new) + 1, Len(bytes))
Store(p, new) ==
  IF segs[p.seg].k = "shared"
  THEN /\ file' = [file EXCEPT !.bytes = Overlay(@, p.ofs, new)]
       /\ segs' = segs
  ELSE /\ segs' = [segs EXCEPT ![p.seg].bytes = Overlay(@, p.ofs, new)]
       /\ file' = file
Element(b, n) == Load([b.data EXCEPT !.ofs = @ + n * bigarray_element_size(b.kind)], bigarray_element_size(b.kind))

\* A call that changes nothing ends the run, the others go on from the state
\* before it: a bound.  Nothing is said of what follows undefined behaviour.
GoesOn == call.op \notin {"get", "compare"} /\ call.err = "" /\ ~stale
Calls(c) == calls' = calls + 1 /\ call' = c
Returns(c, r) == Calls([err |-> "", r |-> r] @@ c)
Fails(c) == Calls([err |-> Invalid] @@ c) /\ UNCHANGED <<arrays, segs, proxies, file, bad, stale>>

\* A new array on data, or on new memory (data = NULL).
Array(kind, layout, managed, data, dim, proxy) ==
  [kind |-> kind, layout |-> layout, managed |-> managed, data |-> data, dim |-> dim, proxy |-> proxy]
Malloc(size, g) == [k |-> "malloc", len |-> size, bytes |-> [i \in 1..size |-> g]]
Base(s) == [seg |-> s, ofs |-> 0]

-----------------------------------------------------------------------------
(* Creation.                                                               *)

BadDims(dim) == Len(dim) \notin 1..MAX_NUM_DIMS \/ \E k \in DOMAIN dim : dim[k] < 0

bigarray_create(n) ==
  LET c == [op |-> "create", kind |-> n.kind, layout |-> n.layout, dim |-> n.dim]
      s == New(segs)
      r == New(arrays)
  IN  IF BadDims(n.dim) THEN Fails(c)
      ELSE \E g \in Garbage :
             /\ r <= MaxArrays
             /\ segs' = segs @@ (s :> Malloc(Product(n.dim) * bigarray_element_size(n.kind), g))
             /\ arrays' = arrays @@ (r :> Array(n.kind, n.layout, "managed", Base(s), n.dim, 0))
             /\ Returns(c, r)
             /\ UNCHANGED <<proxies, file, bad, stale>>

\* An array on memory of another library, by alloc_bigarray.
alloc_bigarray(n) ==
  LET s == New(segs)
      r == New(arrays)
  IN  /\ r <= MaxArrays /\ ~BadDims(n.dim)
      /\ segs' = segs @@ (s :> [Malloc(Product(n.dim) * bigarray_element_size(n.kind), 0) EXCEPT !.k = "external"])
      /\ arrays' = arrays @@ (r :> Array(n.kind, n.layout, "external", Base(s), n.dim, 0))
      /\ Returns([op |-> "create", kind |-> n.kind, layout |-> n.layout, dim |-> n.dim], r)
      /\ UNCHANGED <<proxies, file, bad, stale>>

\* One dimension may be left out, the one that varies last; the file grows if
\* it is too small; its position is put back.  An empty mapping is refused by
\* the system.
bigarray_map_file(n, shared) ==
  LET major == IF n.layout = "c" THEN 1 ELSE Len(n.dim)
      unknown == n.dim[major] = -1
      given == Product([k \in DOMAIN n.dim |-> IF n.dim[k] = -1 THEN 1 ELSE n.dim[k]]) * bigarray_element_size(n.kind)
      file_size == Len(file.bytes)
      size == IF unknown THEN file_size ELSE given
      dim == IF unknown THEN [n.dim EXCEPT ![major] = file_size \div given] ELSE n.dim
      f == [file EXCEPT !.bytes = @ \o [i \in 1..Max2(0, size - file_size) |-> 0]]
      c == [op |-> "map", kind |-> n.kind, layout |-> n.layout, dim |-> n.dim, file |-> file.bytes]
      s == New(segs)
      r == New(arrays)
  IN  IF Len(n.dim) \notin 1..MAX_NUM_DIMS \/ \E k \in DOMAIN n.dim : n.dim[k] < 0 /\ ~(n.dim[k] = -1 /\ k = major)
      THEN Fails(c)
      ELSE IF (unknown /\ file_size % given # 0) \/ size = 0
      THEN Calls([err |-> IF size = 0 THEN "sys_error" ELSE "failure"] @@ c) /\ UNCHANGED <<arrays, segs, proxies, file, bad, stale>>
      ELSE /\ r <= MaxArrays
           /\ file' = f
           /\ segs' = segs @@ (s :> [k |-> IF shared THEN "shared" ELSE "private", len |-> size,
                                     bytes |-> IF shared THEN <<>> ELSE SubSeq(f.bytes, 1, size)])
           /\ arrays' = arrays @@ (r :> Array(n.kind, n.layout, "mapped", Base(s), dim, 0))
           /\ Returns(c, r)
           /\ UNCHANGED <<proxies, bad, stale>>

-----------------------------------------------------------------------------
(* Access.                                                                 *)

\* The number of the element, or -1 for an index out of its bounds; unsigned
\* comparison refuses the negative ones.
RECURSIVE RowMajor(_, _, _, _)
RowMajor(dim, index, i, offset) ==
  IF i > Len(dim) THEN offset
  ELSE IF index[i] < 0 \/ index[i] >= dim[i] THEN -1
  ELSE RowMajor(dim, index, i + 1, offset * dim[i] + index[i])
RECURSIVE ColumnMajor(_, _, _, _)
ColumnMajor(dim, index, i, offset) ==
  IF i < 1 THEN offset
  ELSE IF index[i] - 1 < 0 \/ index[i] - 1 >= dim[i] THEN -1
  ELSE ColumnMajor(dim, index, i - 1, offset * dim[i] + (index[i] - 1))
bigarray_offset(b, index) ==
  IF b.layout = "c" THEN RowMajor(b.dim, index, 1, 0) ELSE ColumnMajor(b.dim, index, Len(b.dim), 0)

Offset(b, index) == IF Len(index) # Len(b.dim) THEN -1 ELSE bigarray_offset(b, index)

bigarray_get_N(a, index) ==
  LET b == arrays[a]
      o == Offset(b, index)
      c == [op |-> "get", a |-> a, ind |-> index]
  IN  IF o = -1 THEN Fails(c)
      ELSE /\ Returns(c, Reads(b.kind, Element(b, o)))
           /\ UNCHANGED <<arrays, segs, proxies, file, bad, stale>>

bigarray_set_aux(a, index, v) ==
  LET b == arrays[a]
      o == Offset(b, index)
      c == [op |-> "set", a |-> a, ind |-> index, v |-> v]
  IN  IF o = -1 THEN Fails(c)
      ELSE /\ Store([b.data EXCEPT !.ofs = @ + o * bigarray_element_size(b.kind)], Stores(b.kind, v))
           /\ Returns(c, 0)
           /\ UNCHANGED <<arrays, proxies, bad, stale>>

bigarray_fill(a, v) ==
  LET b == arrays[a]
  IN  /\ Store(b.data, Concat([i \in 1..bigarray_num_elts(b) |-> Stores(b.kind, v)]))
      /\ Returns([op |-> "fill", a |-> a, v |-> v], 0)
      /\ UNCHANGED <<arrays, proxies, bad, stale>>

bigarray_blit(a1, a2) ==
  LET src == arrays[a1]
      dst == arrays[a2]
      c == [op |-> "blit", a |-> a1, b |-> a2]
  IN  IF src.dim # dst.dim THEN Fails(c)
      ELSE /\ Store(dst.data, Load(src.data, bigarray_byte_size(src)))
           /\ Returns(c, 0)
           /\ UNCHANGED <<arrays, proxies, bad, stale>>

-----------------------------------------------------------------------------
(* Finalisation.                                                           *)

\* free and munmap: of whole segments in use.
Freed(m, p, len) ==
  IF p.seg \in DOMAIN m.segs /\ p.ofs = 0 /\ (m.segs[p.seg].k \in {"private", "shared"} => len = m.segs[p.seg].len)
  THEN [m EXCEPT !.segs = Without(@, p.seg)]
  ELSE [m EXCEPT !.bad = TRUE]

\* Mutated form: the last array frees its own data, not the proxy's.
bigarray_finalize_own(b, m) ==
  CASE b.managed = "external" -> m
    [] b.managed # "external" /\ b.proxy = 0 -> Freed(m, b.data, bigarray_byte_size(b))
    [] b.managed # "external" /\ b.proxy # 0 /\ m.proxies[b.proxy].refcount > 1 ->
         [m EXCEPT !.proxies[b.proxy].refcount = @ - 1]
    [] OTHER -> LET p == m.proxies[b.proxy]
                IN  Freed([m EXCEPT !.proxies = Without(@, b.proxy)], b.data, p.size)

\* What the finalisation of b makes of the memory m = [segs, proxies, bad].
bigarray_finalize(b, m) ==
  CASE b.managed = "external" -> m
    [] b.managed # "external" /\ b.proxy = 0 -> Freed(m, b.data, bigarray_byte_size(b))
    [] b.managed # "external" /\ b.proxy # 0 /\ m.proxies[b.proxy].refcount > 1 ->
         [m EXCEPT !.proxies[b.proxy].refcount = @ - 1]
    [] OTHER -> LET p == m.proxies[b.proxy]
                IN  Freed([m EXCEPT !.proxies = Without(@, b.proxy)], p.data, p.size)

Memory == [segs |-> segs, proxies |-> proxies, bad |-> bad]
Becomes(m) == segs' = m.segs /\ proxies' = m.proxies /\ bad' = m.bad

\* The collector finds that nothing refers to a.
Collected(a) ==
  /\ arrays' = Without(arrays, a)
  /\ Becomes(bigarray_finalize(arrays[a], Memory))
  /\ Returns([op |-> "drop", a |-> a], 0)
  /\ UNCHANGED <<file, stale>>

-----------------------------------------------------------------------------
(* Views.                                                                  *)

\* Mutated form: a view of a view is not counted.
bigarray_update_proxy_uncounted(b1, b2, m) ==
  LET p == New(m.proxies)
      size == IF b1.managed = "mapped" THEN bigarray_byte_size(b1) ELSE 0
  IN  CASE b1.managed = "external" -> [b1 |-> b1, b2 |-> b2, m |-> m]
        [] b1.managed # "external" /\ b1.proxy # 0 -> [b1 |-> b1, b2 |-> [b2 EXCEPT !.proxy = b1.proxy], m |-> m]
        [] OTHER -> [b1 |-> [b1 EXCEPT !.proxy = p], b2 |-> [b2 EXCEPT !.proxy = p],
                     m |-> [m EXCEPT !.proxies = @ @@ (p :> [refcount |-> 2, data |-> b1.data, size |-> size])]]

\* b2, a view of b1: both come to share a proxy, unless the memory is not
\* Caml's.  A proxy freed before is written all the same.
bigarray_update_proxy(b1, b2, m) ==
  LET p == New(m.proxies)
      size == IF b1.managed = "mapped" THEN bigarray_byte_size(b1) ELSE 0
  IN  CASE b1.managed = "external" -> [b1 |-> b1, b2 |-> b2, m |-> m]
        [] b1.managed # "external" /\ b1.proxy # 0 ->
             [b1 |-> b1, b2 |-> [b2 EXCEPT !.proxy = b1.proxy],
              m |-> IF b1.proxy \in DOMAIN m.proxies
                    THEN [m EXCEPT !.proxies[b1.proxy].refcount = @ + 1]
                    ELSE [m EXCEPT !.bad = TRUE]]
        [] OTHER -> [b1 |-> [b1 EXCEPT !.proxy = p], b2 |-> [b2 EXCEPT !.proxy = p],
                     m |-> [m EXCEPT !.proxies = @ @@ (p :> [refcount |-> 2, data |-> b1.data, size |-> size])]]

\* alloc_custom may call the collector, for which vb is no root: a compaction
\* or a finalisation function frees the array if nothing else refers to it,
\* or moves it.  b then points to its old place, where the fields of the
\* array still are, or others.
Meanwhile(c, r, b1, b2) ==
  \E freed \in BOOLEAN, overwritten \in BOOLEAN :
    LET u == bigarray_update_proxy(b1, b2, IF freed THEN bigarray_finalize(b1, Memory) ELSE Memory)
    IN  /\ calls' = calls + 1
        /\ arrays' = (IF freed THEN Without(arrays, c.a) ELSE arrays) @@ (r :> u.b2)
        /\ Becomes([u.m EXCEPT !.bad = @ \/ overwritten])
        /\ stale' = TRUE
        /\ UNCHANGED <<file, call>>

\* A view of dimensions dim, from element ofs of b: alloc_bigarray, then
\* bigarray_update_proxy.
Views(c, b, ofs, dim) ==
  LET r == New(arrays)
      b2 == Array(b.kind, b.layout, b.managed,
                  [b.data EXCEPT !.ofs = @ + ofs * bigarray_element_size(b.kind)], dim, 0)
      u == bigarray_update_proxy(b, b2, Memory)
  IN  /\ r <= MaxArrays
      /\ \/ /\ arrays' = [arrays EXCEPT ![c.a] = u.b1] @@ (r :> u.b2)
            /\ Becomes(u.m)
            /\ Returns(c, r)
            /\ UNCHANGED <<file, stale>>
         \/ Meanwhile(c, r, b, b2)

bigarray_slice(a, ind) ==
  LET b == arrays[a]
      n == Len(ind)
      index == IF b.layout = "c" THEN [i \in DOMAIN b.dim |-> IF i <= n THEN ind[i] ELSE 0]
               ELSE [i \in DOMAIN b.dim |-> IF i > Len(b.dim) - n THEN ind[i - (Len(b.dim) - n)] ELSE 1]
      sub_dims == IF b.layout = "c" THEN SubSeq(b.dim, n + 1, Len(b.dim)) ELSE SubSeq(b.dim, 1, Len(b.dim) - n)
      c == [op |-> "slice", a |-> a, ind |-> ind]
  IN  IF n >= Len(b.dim) \/ bigarray_offset(b, index) = -1 THEN Fails(c)
      ELSE Views(c, b, bigarray_offset(b, index), sub_dims)

\* Mutated form: the size of a row is taken for both layouts alike.
bigarray_sub_rows(a, ofs, len) ==
  LET b == arrays[a]
      changed_dim == IF b.layout = "c" THEN 1 ELSE Len(b.dim)
      mul == Product(Tail(b.dim))
      o == IF b.layout = "c" THEN ofs ELSE ofs - 1
      c == [op |-> "sub", a |-> a, ofs |-> ofs, len |-> len]
  IN  IF o < 0 \/ len < 0 \/ o + len > b.dim[changed_dim] THEN Fails(c)
      ELSE Views(c, b, o * mul, [b.dim EXCEPT ![changed_dim] = len])

bigarray_sub(a, ofs, len) ==
  LET b == arrays[a]
      changed_dim == IF b.layout = "c" THEN 1 ELSE Len(b.dim)
      mul == Product([i \in DOMAIN b.dim |-> IF i = changed_dim THEN 1 ELSE b.dim[i]])
      o == IF b.layout = "c" THEN ofs ELSE ofs - 1
      c == [op |-> "sub", a |-> a, ofs |-> ofs, len |-> len]
  IN  IF o < 0 \/ len < 0 \/ o + len > b.dim[changed_dim] THEN Fails(c)
      ELSE Views(c, b, o * mul, [b.dim EXCEPT ![changed_dim] = len])

bigarray_reshape(a, dim) ==
  LET b == arrays[a]
      c == [op |-> "reshape", a |-> a, dim |-> dim]
  IN  IF BadDims(dim) \/ Product(dim) # bigarray_num_elts(b) THEN Fails(c) ELSE Views(c, b, 0, dim)

-----------------------------------------------------------------------------
(* Comparison, hashing, marshalling.                                       *)

Scalars(b) ==
  LET e == [i \in 1..bigarray_num_elts(b) |-> Reads(b.kind, Element(b, i - 1))]
  IN  IF b.kind \in {"complex32", "complex64"} THEN Concat(e) ELSE e
RECURSIVE Lexicographic(_, _)
Lexicographic(s, t) ==
  IF s = <<>> THEN 0
  ELSE IF Head(s) < Head(t) THEN -1 ELSE IF Head(s) > Head(t) THEN 1 ELSE Lexicographic(Tail(s), Tail(t))
Compare(b1, b2) ==
  IF Len(b1.dim) # Len(b2.dim) THEN Len(b2.dim) - Len(b1.dim)
  ELSE IF b1.dim # b2.dim THEN Lexicographic(b1.dim, b2.dim)
  ELSE Lexicographic(Scalars(b1), Scalars(b2))

\* The hash modulo 2^HashBits: at most 50 elements, by words of their size,
\* half of the words of a complex.
HashBits == 16
COMBINE(h, v) == (17 * h + v) % 2 ^ HashBits
bigarray_hash(b) ==
  LET w == CASE b.kind \in {"sint8", "uint8"} -> 1
             [] b.kind \in {"sint16", "uint16"} -> 2
             [] OTHER -> 4
      n == (IF bigarray_num_elts(b) >= 50 THEN 50 ELSE bigarray_num_elts(b))
           * (IF b.kind \in {"float64", "complex64", "int64"} THEN 2 ELSE 1)
      p(i) == Load([b.data EXCEPT !.ofs = @ + i * w], w)
      RECURSIVE Combined(_, _)
      Combined(i, h) == IF i = n THEN h ELSE Combined(i + 1, COMBINE(h, UInt(SubSeq(p(i), 1, IF w = 1 THEN 1 ELSE 2))))
  IN  Combined(0, 0)

bigarray_compare(a1, a2) ==
  LET b1 == arrays[a1]
      b2 == arrays[a2]
  IN  /\ b1.kind = b2.kind /\ b1.layout = b2.layout
      /\ Returns([op |-> "compare", a |-> a1, b |-> a2, back |-> Compare(b2, b1),
                  hash |-> bigarray_hash(b1) = bigarray_hash(b2)], Compare(b1, b2))
      /\ UNCHANGED <<arrays, segs, proxies, file, bad, stale>>

\* Words of one, two, four or eight bytes are output most significant first;
\* Caml integers come after a byte that says they fit in 32 bits.
Unit(kind) == CASE kind \in {"sint8", "uint8"} -> 1
                [] kind \in {"sint16", "uint16"} -> 2
                [] kind \in {"float32", "int32", "caml_int", "native_int", "complex32"} -> 4
                [] OTHER -> 8
Swapped(p, w) == [i \in DOMAIN p |-> p[((i - 1) \div w) * w + w - ((i - 1) % w)]]
Long(kind) == kind \in {"caml_int", "native_int"}
bigarray_serialize(b) ==
  [num_dims |-> Len(b.dim), flags |-> <<b.kind, b.layout>>, dim |-> b.dim,
   data |-> (IF Long(b.kind) THEN <<0>> ELSE <<>>)
            \o Swapped(Load(b.data, bigarray_byte_size(b)), Unit(b.kind))]
bigarray_deserialize(m, s) ==
  LET kind == m.flags[1]
      size == Product(m.dim) * bigarray_element_size(kind)
      data == IF Long(kind) THEN Tail(m.data) ELSE m.data
  IN  [b |-> Array(kind, m.flags[2], "managed", Base(s), SubSeq(m.dim, 1, m.num_dims), 0),
       seg |-> [k |-> "malloc", len |-> size, bytes |-> Swapped(SubSeq(data, 1, size), Unit(kind))]]

Marshalled(a) ==
  LET s == New(segs)
      r == New(arrays)
      d == bigarray_deserialize(bigarray_serialize(arrays[a]), s)
  IN  /\ r <= MaxArrays
      /\ segs' = segs @@ (s :> d.seg)
      /\ arrays' = arrays @@ (r :> d.b)
      /\ Returns([op |-> "copy", a |-> a, kind |-> "", layout |-> "", dim |-> <<>>], r)
      /\ UNCHANGED <<proxies, file, bad, stale>>

-----------------------------------------------------------------------------

\* The arrays alive, as views of cells (bytes of a segment, or of the file),
\* and what the cells hold.
Cell(b, n, sg) ==
  LET o == b.data.ofs + n * bigarray_element_size(b.kind)
  IN  IF sg[b.data.seg].k = "shared" THEN <<0, o, b.kind>> ELSE <<b.data.seg, o, b.kind>>
IndexOf(b) == {i \in [DOMAIN b.dim -> 0..4] : bigarray_offset(b, i) # -1}
ViewsOf(arr, sg) ==
  [a \in DOMAIN arr |->
     [kind |-> arr[a].kind, layout |-> arr[a].layout, dim |-> arr[a].dim,
      at |-> [i \in IndexOf(arr[a]) |-> Cell(arr[a], bigarray_offset(arr[a], i), sg)] @@ <<>>]] @@ <<>>
StoreOf(vs, sg, f) ==
  [c \in UNION {{vs[a].at[i] : i \in DOMAIN vs[a].at} : a \in DOMAIN vs} |->
     Reads(c[3], SubSeq(IF c[1] = 0 THEN f.bytes ELSE sg[c[1]].bytes, c[2] + 1, c[2] + bigarray_element_size(c[3])))]

Init ==
  /\ views = <<>> /\ store = <<>>
  /\ arrays = <<>> /\ segs = <<>> /\ proxies = <<>>
  /\ file = [bytes |-> [i \in 1..FileSize |-> i], pos |-> 0]
  /\ bad = FALSE /\ stale = FALSE /\ call = [op |-> "none", err |-> ""] /\ calls = 0

\* Arrays alive together have one kind and layout, or no call relates them: a
\* bound.
Related(n) == \A a \in DOMAIN arrays : arrays[a].kind = n.kind /\ arrays[a].layout = n.layout
Operation ==
  \/ \E n \in NewArrays : Related(n) /\ bigarray_create(n)
  \/ \E n \in External : Related(n) /\ alloc_bigarray(n)
  \/ \E n \in NewMappings, shared \in BOOLEAN : Related(n) /\ bigarray_map_file(n, shared)
  \/ \E a \in DOMAIN arrays :
       \/ \E i \in Inds : \/ bigarray_get_N(a, i)
                          \/ \E v \in StoredValues[arrays[a].kind] : bigarray_set_aux(a, i, v)
                          \/ bigarray_slice(a, i)
       \/ \E v \in StoredValues[arrays[a].kind] : bigarray_fill(a, v)
       \/ \E r \in Ranges : bigarray_sub(a, r[1], r[2])
       \/ \E d \in Dims : bigarray_reshape(a, d)
       \/ Collected(a)
       \/ Marshalled(a)
       \/ \E b \in DOMAIN arrays :
            \/ arrays[a].kind = arrays[b].kind /\ arrays[a].layout = arrays[b].layout /\ bigarray_blit(a, b)
            \/ bigarray_compare(a, b)

Next ==
  /\ calls < MaxCalls /\ GoesOn
  /\ Operation
  /\ IF stale' THEN UNCHANGED <<views, store>>
     ELSE /\ views' = ViewsOf(arrays', segs')
          /\ store' = StoreOf(views', segs', file')

Spec == Init /\ [][Next]_vars

-----------------------------------------------------------------------------
(* Properties.                                                             *)

\* The arrays in memory behave as views of a store: every call returns what
\* the views say, refuses exactly the arguments that name no element or part,
\* and changes exactly the elements it should, through aliases and
\* overlapping copies, for both layouts and all kinds.  Two refusals are the
\* code's (bigarray_stubs.c:780, 826), not those of bigarray.mli.
Abstract == INSTANCE ArrayViews WITH Departures <- {"empty_slice", "sub_right"}
ImplementsViews == Abstract!Spec

\* The same with the refusals bigarray.mli states: sub_right raises Invalid_arg
\* "if [ofs + len > Genarray.nth_dim a (Genarray.num_dims a - 1)]", and a slice
\* only for too many indices or indices out of bounds.
Documented == INSTANCE ArrayViews WITH Departures <- {}
DocumentedViews == Documented!Spec

\* Memory is freed once, whole, when the last array on it goes: what is in
\* use is there, inside its bounds, and what Caml manages is in use.
MemorySafe ==
  /\ ~bad
  /\ \A a \in DOMAIN arrays :
       LET b == arrays[a]
       IN  /\ b.data.seg \in DOMAIN segs
           /\ bigarray_num_elts(b) > 0 => b.data.ofs + bigarray_byte_size(b) <= segs[b.data.seg].len
  /\ \A s \in DOMAIN segs : segs[s].k # "external" => \E a \in DOMAIN arrays : arrays[a].data.seg = s

\* The count of a proxy is the number of the arrays that hold it; all of them
\* are on its memory, and an array without one is alone on its own.
RefcountExact ==
  /\ \A p \in DOMAIN proxies :
       /\ proxies[p].refcount = Cardinality({a \in DOMAIN arrays : arrays[a].proxy = p})
       /\ proxies[p].refcount > 0
       /\ \A a \in DOMAIN arrays : arrays[a].proxy = p => arrays[a].data.seg = proxies[p].data.seg
  /\ \A a \in DOMAIN arrays : arrays[a].managed # "external" /\ arrays[a].proxy = 0 =>
       \A b \in DOMAIN arrays \ {a} : arrays[b].data.seg # arrays[a].data.seg

\* Data is freed once, when the last array that shares it is collected, and
\* nothing is read or written outside it: as long as no view was made of an
\* array the collector had freed or moved inside alloc_bigarray.
MemorySound == ~stale => MemorySafe /\ RefcountExact

=============================================================================
