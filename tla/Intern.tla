------------------------------- MODULE Intern -------------------------------
(***************************************************************************)
(* Input of structured values: byterun/intern.c (a 32-bit build).  The     *)
(* result is built in one piece of memory of the size the header gives:    *)
(* mem maps the word offset of each new object, counting its header, to    *)
(* the object, as in module Extern; a pointer to it is <<"ptr", word, o>>. *)
(***************************************************************************)
EXTENDS Extern, TLC

CONSTANTS
  Max_wosize,        \* the largest block, in words
  Page_words,        \* the size of a page, in words
  KnownCustom        \* identifiers with registered operations: [id, size]

-----------------------------------------------------------------------------
(* Reading bytes; s: the state of the reading: src, pos, dest, objs, mem,  *)
(* table (whether there is one), err, v (the value read last).             *)

At8(s, i) == s.src[s.pos + i]
Sign_extend(b) == IF b >= 128 THEN b - 256 ELSE b
read8u(s) == At8(s, 0)
read8s(s) == Sign_extend(At8(s, 0))
read16u(s) == At8(s, 0) * 256 + At8(s, 1)
read16s(s) == Sign_extend(At8(s, 0)) * 256 + At8(s, 1)
read32u(s) == ((At8(s, 0) * 256 + At8(s, 1)) * 256 + At8(s, 2)) * 256 + At8(s, 3)
read32s(s) == ((Sign_extend(At8(s, 0)) * 256 + At8(s, 1)) * 256 + At8(s, 2)) * 256 + At8(s, 3)
Skip(s, n) == [s EXCEPT !.pos = @ + n]
readblock(s, len) == SubSeq(s.src, s.pos, s.pos + len - 1)

Value(s, v) == [s EXCEPT !.v = v]
Stop(s, err) == [s EXCEPT !.err = err]

\* A new object of size words at intern_dest, counted if there is a table.
New(s, o, size) ==
  [s EXCEPT !.mem = @ @@ (s.dest :> o),
            !.objs = IF s.table THEN Append(@, s.dest) ELSE @,
            !.dest = @ + 1 + size,
            !.v = <<"ptr", s.dest, 0>>]

Tag_hd(h) == h % 256
Wosize_hd(h) == h \div 1024

-----------------------------------------------------------------------------

read_string(s, len) ==
  LET c == readblock(s, len) IN Skip(New(s, [k |-> "string", c |-> c], (len + 4) \div 4), len)
\* The bytes of floats, as a machine that is little-endian has them.
read_floats(s, n, little) == IF little THEN readblock(s, n * 8) ELSE Reverse_64(readblock(s, n * 8))
read_double(s, little) == Skip(New(s, [k |-> "double", c |-> read_floats(s, 1, little)], 2), 8)
read_double_array(s, n, little) ==
  Skip(New(s, [k |-> "doubles", c |-> read_floats(s, n, little)], n * 2), n * 8)
\* Mutated form: the offset counted from the object before the last.
read_shared_off(s, ofs) ==
  Value(s, <<"ptr", s.objs[IF Len(s.objs) > ofs THEN Len(s.objs) - ofs ELSE Len(s.objs)], 0>>)

read_shared(s, ofs) == Value(s, <<"ptr", s.objs[Len(s.objs) - ofs + 1], 0>>)

\* The identifier ends with a null byte; the operations read the data.
RECURSIVE Identifier(_)
Identifier(s) == IF At8(s, 0) = 0 THEN <<>> ELSE <<At8(s, 0)>> \o Identifier(Skip(s, 1))
ReadCustom(s, id, size) ==
  Skip(New(s, [k |-> "custom", id |-> id, c |-> readblock(s, size)], 1 + (size + 3) \div 4), size)
CustomOf(s, id, ops) ==
  IF ops = {} THEN Stop(s, "unknown custom block identifier")
  ELSE ReadCustom(Skip(s, Len(id) + 1), id, (CHOOSE c \in ops : TRUE).size)
Operations(s, id) == CustomOf(s, id, {c \in KnownCustom : c.id = id})
read_custom(s) == Operations(s, Identifier(s))

read_code(s) ==
  LET t == Skip(s, 4)
  IN  IF readblock(t, Len(Checksum)) # Checksum THEN Stop(s, "code mismatch")
      ELSE Value(Skip(t, Len(Checksum)), <<"code", read32u(s)>>)

RECURSIVE intern_rec(_)
RECURSIVE intern_fields(_, _, _, _)

\* The block is entered before its fields are read: they may refer to it.
read_block(s, tag, size) ==
  IF size = 0 THEN Value(s, <<"atom", tag>>)
  ELSE Value(intern_fields(New(s, [k |-> "block", tag |-> tag, f |-> <<>>], size), s.dest, size, 1),
             <<"ptr", s.dest, 0>>)

StoreField(s, v) == IF s.err # "" THEN s ELSE [s EXCEPT !.mem[v].f = Append(@, s.v)]
intern_fields(s, v, size, i) ==
  IF i > size \/ s.err # "" THEN s
  ELSE intern_fields(StoreField(intern_rec(s), v), v, size, i + 1)

ToInfix(s, ofs) == IF s.err # "" THEN s ELSE Value(s, <<"ptr", s.v[2], ofs>>)

\* s: the state after the code byte.
intern_item(s, code) ==
  CASE code >= PREFIX_SMALL_BLOCK -> read_block(s, code % 16, (code \div 16) % 8)
    [] code \in PREFIX_SMALL_INT..(PREFIX_SMALL_BLOCK - 1) -> Value(s, <<"int", code % 64>>)
    [] code \in PREFIX_SMALL_STRING..(PREFIX_SMALL_INT - 1) -> read_string(s, code % 32)
    [] code = CODE_INT8 -> Value(Skip(s, 1), <<"int", read8s(s)>>)
    [] code = CODE_INT16 -> Value(Skip(s, 2), <<"int", read16s(s)>>)
    [] code = CODE_INT32 -> Value(Skip(s, 4), <<"int", read32s(s)>>)
    [] code = CODE_INT64 -> Stop(s, "integer too large")
    [] code = CODE_SHARED8 -> read_shared(Skip(s, 1), read8u(s))
    [] code = CODE_SHARED16 -> read_shared(Skip(s, 2), read16u(s))
    [] code = CODE_SHARED32 -> read_shared(Skip(s, 4), read32u(s))
    [] code = CODE_BLOCK32 -> read_block(Skip(s, 4), Tag_hd(read32u(s)), Wosize_hd(read32u(s)))
    [] code = CODE_STRING8 -> read_string(Skip(s, 1), read8u(s))
    [] code = CODE_STRING32 -> read_string(Skip(s, 4), read32u(s))
    [] code \in {CODE_DOUBLE_LITTLE, CODE_DOUBLE_BIG} -> read_double(s, code = CODE_DOUBLE_LITTLE)
    [] code \in {CODE_DOUBLE_ARRAY8_LITTLE, CODE_DOUBLE_ARRAY8_BIG} ->
         read_double_array(Skip(s, 1), read8u(s), code = CODE_DOUBLE_ARRAY8_LITTLE)
    [] code \in {CODE_DOUBLE_ARRAY32_LITTLE, CODE_DOUBLE_ARRAY32_BIG} ->
         read_double_array(Skip(s, 4), read32u(s), code = CODE_DOUBLE_ARRAY32_LITTLE)
    [] code = CODE_CODEPOINTER -> read_code(s)
    [] code = CODE_INFIXPOINTER -> ToInfix(intern_rec(Skip(s, 4)), read32u(s))
    [] code = CODE_CUSTOM -> read_custom(s)
    [] OTHER -> Stop(s, "ill-formed message")
intern_rec(s) == intern_item(Skip(s, 1), read8u(s))

-----------------------------------------------------------------------------
(* Where the result goes: nothing, a block of the heap, or a new chunk of  *)
(* whole pages.  A failure frees the chunk, or gives the block its header  *)
(* back.                                                                   *)

Pages(whsize) == ((whsize + Page_words - 1) \div Page_words) * Page_words

intern_alloc(whsize) ==
  IF whsize = 0 THEN [kind |-> "none", words |-> 0]
  ELSE IF whsize - 1 > Max_wosize THEN [kind |-> "chunk", words |-> Pages(whsize)]
  ELSE [kind |-> "block", words |-> whsize]

\* The chunk is completed with a free block.
intern_add_to_heap(s, dst) ==
  IF dst.kind = "chunk" /\ s.dest < dst.words
  THEN [s EXCEPT !.mem = @ @@ (s.dest :> [k |-> "free", words |-> dst.words - s.dest - 1])] ELSE s

\* Mutated form: the block keeps the header of its first object.
intern_cleanup_header(s, dst) == IF dst.kind = "block" THEN s ELSE [s EXCEPT !.mem = <<>>]

intern_cleanup(s, dst) ==
  [s EXCEPT !.mem = IF dst.kind = "block" THEN 0 :> [k |-> "string", c |-> [i \in 1..((dst.words - 1) * 4 - 1) |-> 0]]
                    ELSE <<>>,
            !.table = FALSE]

\* Reading a message whose header has been read: [r, dst].
intern_end(s, dst, num_objects) ==
  [r |-> IF s.err # "" THEN intern_cleanup(s, dst) ELSE intern_add_to_heap(s, dst),
   dst |-> dst, used |-> s.dest, counted |-> Len(s.objs), num_objects |-> num_objects]
intern_into(src, dst, num_objects) ==
  intern_end(intern_rec([src |-> src, pos |-> 21, dest |-> 0, objs |-> <<>>, mem |-> <<>>,
                         table |-> dst.kind # "none" /\ num_objects > 0, err |-> "", v |-> <<"out">>]),
             dst, num_objects)
input_val(src) ==
  intern_into(src, intern_alloc(read32u([src |-> src, pos |-> 13])), read32u([src |-> src, pos |-> 9]))

\* The bytes of the data part, from the header.
marshal_data_size(src) == read32u([src |-> src, pos |-> 5])

=============================================================================
