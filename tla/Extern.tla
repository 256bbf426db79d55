------------------------------- MODULE Extern -------------------------------
(***************************************************************************)
(* Output of structured values: byterun/extern.c (a 32-bit build).  A heap *)
(* maps addresses to objects:                                              *)
(*   [k |-> "block", tag, f], [k |-> "string", c], [k |-> "double", c],    *)
(*   [k |-> "doubles", c], [k |-> "forward", v], [k |-> "custom", id, c],  *)
(*   [k |-> "abstract"], [k |-> "object"]                                  *)
(* (c: the bytes), and a value is <<"int", n>>, <<"atom", tag>>,           *)
(* <<"ptr", address, infix offset>>, <<"code", offset>> or <<"out">>, a    *)
(* pointer out of the heap; <<"long", bytes>> is an integer that only a    *)
(* 64-bit machine has.  The bytes of floats are given from the least       *)
(* significant.                                                            *)
(***************************************************************************)
EXTENDS Integers, Sequences, FiniteSets

CONSTANTS
  INITIAL_EXTERN_TABLE_SIZE_LOG2,
  INITIAL_EXTERN_BLOCK_SIZE,
  INITIAL_OFFSET_MAX,
  Shared8, Shared16,  \* the first distances that do not go in one byte, in two
                      \* (0x100 and 0x10000 in extern.c)
  Checksum            \* the digest of the program's code

LOCAL INSTANCE SequencesExt

Intext_magic_number == <<132, 149, 166, 190>>
PREFIX_SMALL_BLOCK == 128
PREFIX_SMALL_INT == 64
PREFIX_SMALL_STRING == 32
CODE_INT8 == 0
CODE_INT16 == 1
CODE_INT32 == 2
CODE_INT64 == 3
CODE_SHARED8 == 4
CODE_SHARED16 == 5
CODE_SHARED32 == 6
CODE_BLOCK32 == 8
CODE_STRING8 == 9
CODE_STRING32 == 10
CODE_DOUBLE_BIG == 11
CODE_DOUBLE_LITTLE == 12
CODE_DOUBLE_ARRAY8_BIG == 13
CODE_DOUBLE_ARRAY8_LITTLE == 14
CODE_DOUBLE_ARRAY32_BIG == 15
CODE_DOUBLE_ARRAY32_LITTLE == 7
CODE_CODEPOINTER == 16
CODE_INFIXPOINTER == 17
CODE_CUSTOM == 18

\* The machine that outputs: the endianness of its floats, and its program.
Native == [big |-> FALSE, checksum |-> Checksum]
CODE_DOUBLE_NATIVE(m) == IF m.big THEN CODE_DOUBLE_BIG ELSE CODE_DOUBLE_LITTLE
CODE_DOUBLE_ARRAY8_NATIVE(m) == IF m.big THEN CODE_DOUBLE_ARRAY8_BIG ELSE CODE_DOUBLE_ARRAY8_LITTLE
CODE_DOUBLE_ARRAY32_NATIVE(m) == IF m.big THEN CODE_DOUBLE_ARRAY32_BIG ELSE CODE_DOUBLE_ARRAY32_LITTLE

-----------------------------------------------------------------------------
(* The table of objects seen, an open-addressing hash table that outlives  *)
(* the call; the entries of earlier calls are those below initial_ofs.     *)

INITIAL_EXTERN_TABLE_SIZE == 2 ^ INITIAL_EXTERN_TABLE_SIZE_LOG2
WordBits == 6
\* Multiplicative hashing: the top log2(size) bits of a product.
HASH_FACTOR == 39
Hash(a, size) == (((4 * a) * HASH_FACTOR) % 2 ^ WordBits) \div ((2 ^ WordBits) \div size)

alloc_extern_table(size) == [i \in 0..(size - 1) |-> [ofs |-> 0, obj |-> 0]]

\* x: the state of an extern_value: machine, out, limit, malloced, table, size (of the
\* table), initial_ofs, obj_counter, size_32, size_64, err.
RECURSIVE Rehash(_, _, _, _, _)
Rehash(old, i, size, new, ofs0) ==
  IF i = size THEN new
  ELSE IF old[i].ofs < ofs0 THEN Rehash(old, i + 1, size, new, ofs0)
  ELSE LET RECURSIVE Slot(_)
           Slot(h) == IF new[h].ofs > 0 THEN Slot((h + 1) % (2 * size)) ELSE h
       IN  Rehash(old, i + 1, size, [new EXCEPT ![Slot(Hash(old[i].obj, 2 * size))] = old[i]], ofs0)

resize_extern_table(x) ==
  [x EXCEPT !.table = Rehash(@, 0, x.size, alloc_extern_table(2 * x.size), x.initial_ofs), !.size = 2 * @]

\* Kept for the next call if it did not grow; <<>> is NULL.
free_extern_table(x) ==
  IF x.size > INITIAL_EXTERN_TABLE_SIZE \/ x.initial_ofs >= INITIAL_OFFSET_MAX
  THEN [x EXCEPT !.table = <<>>] ELSE x

\* The entry of v, or the free slot where it goes.
RECURSIVE Lookup(_, _, _)
Lookup(x, h, v) ==
  IF x.table[h].ofs >= x.initial_ofs /\ x.table[h].obj # v THEN Lookup(x, (h + 1) % x.size, v) ELSE h

-----------------------------------------------------------------------------
(* The output buffer.  Failures leave err and stop the traversal.          *)

\* Mutated form: the offset is not advanced past the entries made.
Fail_stale(x, err) == free_extern_table([x EXCEPT !.err = err])

Fail(x, err) ==
  free_extern_table([x EXCEPT !.err = err, !.initial_ofs = @ + x.obj_counter])

RECURSIVE Doubled(_, _)
Doubled(size, reqd_size) == IF size <= reqd_size THEN Doubled(2 * size, reqd_size) ELSE size
resize_extern_block(x, required) ==
  IF ~x.malloced THEN Fail(x, "buffer overflow")
  ELSE [x EXCEPT !.limit = Doubled(@, Len(x.out) + required)]

Put(x, bytes) == IF x.err # "" THEN x ELSE [x EXCEPT !.out = @ \o bytes]

\* Mutated form: a byte of room too many is asked for.
writeblock_room(x, bytes) ==
  IF x.err # "" THEN x
  ELSE Put(IF Len(x.out) + Len(bytes) >= x.limit THEN resize_extern_block(x, Len(bytes)) ELSE x, bytes)

\* Write, writeblock and the writecodes: room for all the bytes, then them.
writeblock(x, bytes) ==
  IF x.err # "" THEN x
  ELSE Put(IF Len(x.out) + Len(bytes) > x.limit THEN resize_extern_block(x, Len(bytes)) ELSE x, bytes)

Byte(v, i) == (v \div 256 ^ i) % 256
writecode8(x, code, v) == writeblock(x, <<code, Byte(v, 0)>>)
writecode16(x, code, v) == writeblock(x, <<code, Byte(v, 1), Byte(v, 0)>>)
Bytes32(v) == <<Byte(v, 3), Byte(v, 2), Byte(v, 1), Byte(v, 0)>>
writecode32(x, code, v) == writeblock(x, <<code>> \o Bytes32(v))

extern_invalid_argument(x, msg) == Fail(x, msg)

Sized(x, words32, words64) ==
  IF x.err # "" THEN x ELSE [x EXCEPT !.size_32 = @ + words32, !.size_64 = @ + words64]

-----------------------------------------------------------------------------
(* Marshalling.                                                            *)

extern_int(x, n) ==
  IF n >= 0 /\ n < 64 THEN writeblock(x, <<PREFIX_SMALL_INT + n>>)
  ELSE IF n >= -128 /\ n < 128 THEN writecode8(x, CODE_INT8, n)
  ELSE IF n >= -32768 /\ n < 32768 THEN writecode16(x, CODE_INT16, n)
  ELSE writecode32(x, CODE_INT32, n)
extern_long(x, bytes) == writeblock(x, <<CODE_INT64>> \o bytes)

extern_shared(x, d) ==
  IF d < Shared8 THEN writecode8(x, CODE_SHARED8, d)
  ELSE IF d < Shared16 THEN writecode16(x, CODE_SHARED16, d)
  ELSE writecode32(x, CODE_SHARED32, d)

extern_string_header(x, len) ==
  IF len < 32 THEN writeblock(x, <<PREFIX_SMALL_STRING + len>>)
  ELSE IF len < 256 THEN writecode8(x, CODE_STRING8, len)
  ELSE writecode32(x, CODE_STRING32, len)
extern_string(x, c) ==
  Sized(writeblock(extern_string_header(x, Len(c)), c), 1 + (Len(c) + 4) \div 4, 1 + (Len(c) + 8) \div 8)

\* The bytes of each double the other way round.
Reverse_64(c) == [i \in DOMAIN c |-> c[((i - 1) \div 8) * 8 + 8 - ((i - 1) % 8)]]
\* A double as the machine has it in its memory.
writeblock_float8(x, c) == writeblock(x, IF x.machine.big THEN Reverse_64(c) ELSE c)

extern_double(x, c) ==
  Sized(writeblock_float8(writeblock(x, <<CODE_DOUBLE_NATIVE(x.machine)>>), c), 1 + 2, 1 + 1)
extern_doubles_header(x, nfloats) ==
  IF nfloats < 256 THEN writecode8(x, CODE_DOUBLE_ARRAY8_NATIVE(x.machine), nfloats)
  ELSE writecode32(x, CODE_DOUBLE_ARRAY32_NATIVE(x.machine), nfloats)
extern_doubles(x, c) ==
  Sized(writeblock_float8(extern_doubles_header(x, Len(c) \div 8), c), 1 + 2 * (Len(c) \div 8), 1 + Len(c) \div 8)

extern_code(x, ofs) == writeblock(writecode32(x, CODE_CODEPOINTER, ofs), x.machine.checksum)

CustomBytes(x, o) == writeblock(writeblock(x, <<CODE_CUSTOM>> \o o.id \o <<0>>), o.c)
\* Mutated form: the word of the operations is not counted.
extern_custom_short(x, o) ==
  IF o.id = <<>> THEN [x EXCEPT !.err = "no serialize"]
  ELSE Sized(CustomBytes(x, o), 1 + (Len(o.c) + 3) \div 4, 1 + (Len(o.c) + 7) \div 8)

\* Custom blocks whose operations have no serialize are those of identifier
\* <<>>: the failure leaves the table and the counters as they are.
extern_custom(x, o) ==
  IF o.id = <<>> THEN [x EXCEPT !.err = "no serialize"]
  ELSE Sized(CustomBytes(x, o), 2 + (Len(o.c) + 3) \div 4, 2 + (Len(o.c) + 7) \div 8)

SmallBlock(tag, sz) == tag < 16 /\ sz < 8
Header32(tag, sz) == sz * 1024 + tag
extern_header(x, tag, sz) ==
  IF SmallBlock(tag, sz) THEN writeblock(x, <<PREFIX_SMALL_BLOCK + tag + sz * 16>>)
  ELSE writecode32(x, CODE_BLOCK32, Header32(tag, sz))

\* Have the object recorded, unless sharing is ignored: d is its distance from
\* the last one, or -1 if it is new.
Recorded(x, a, h) ==
  IF x.table[h].ofs >= x.initial_ofs
  THEN [x |-> x, d |-> x.obj_counter - (x.table[h].ofs - x.initial_ofs)]
  ELSE [x |-> [x EXCEPT !.table[h] = [ofs |-> x.initial_ofs + x.obj_counter, obj |-> a], !.obj_counter = @ + 1],
        d |-> -1]
RecordIn(x, a) == Recorded(x, a, Lookup(x, Hash(a, x.size), a))
Seen(x, fl, a) ==
  IF fl.NO_SHARING THEN [x |-> x, d |-> -1]
  ELSE RecordIn(IF 2 * x.obj_counter >= x.size THEN resize_extern_table(x) ELSE x, a)

RECURSIVE extern_rec(_, _, _, _)
RECURSIVE extern_fields(_, _, _, _, _)
\* An object that is not forwarded; s is what Seen says of it.
extern_object(s, heap, fl, o) ==
  CASE s.d # -1 -> extern_shared(s.x, s.d)
    [] s.d = -1 /\ o.k = "string" -> extern_string(s.x, o.c)
    [] s.d = -1 /\ o.k = "double" -> extern_double(s.x, o.c)
    [] s.d = -1 /\ o.k = "doubles" -> extern_doubles(s.x, o.c)
    [] s.d = -1 /\ o.k = "abstract" -> extern_invalid_argument(s.x, "abstract value")
    [] s.d = -1 /\ o.k = "object" -> extern_invalid_argument(s.x, "object value")
    [] s.d = -1 /\ o.k = "custom" -> extern_custom(s.x, o)
    [] OTHER -> extern_fields(Sized(extern_header(s.x, o.tag, Len(o.f)), 1 + Len(o.f), 1 + Len(o.f)),
                              heap, fl, o.f, 1)
extern_rec(x, heap, fl, v) ==
  CASE x.err # "" -> x
    [] v[1] = "int" -> extern_int(x, v[2])
    [] v[1] = "long" -> extern_long(x, v[2])
    [] v[1] = "atom" -> extern_header(x, v[2], 0)
    [] v[1] = "code" -> IF ~fl.CLOSURES THEN extern_invalid_argument(x, "functional value")
                        ELSE extern_code(x, v[2])
    [] v[1] = "out" -> extern_invalid_argument(x, "abstract value")
    [] v[1] = "ptr" /\ v[3] # 0 ->
         extern_rec(writecode32(x, CODE_INFIXPOINTER, v[3]), heap, fl, <<"ptr", v[2], 0>>)
    [] v[1] = "ptr" /\ v[3] = 0 /\ heap[v[2]].k = "forward" -> extern_rec(x, heap, fl, heap[v[2]].v)
    [] OTHER -> extern_object(Seen(x, fl, v[2]), heap, fl, heap[v[2]])
extern_fields(x, heap, fl, f, i) ==
  IF i > Len(f) THEN x ELSE extern_fields(extern_rec(x, heap, fl, f[i]), heap, fl, f, i + 1)

\* The call on a buffer of limit bytes, with the table a previous call left.
\* The room of the sizes is set aside without looking at the limit.
extern_start(machine, table, ofs0, limit, malloced) ==
  [machine |-> machine, out |-> <<>>, limit |-> limit, malloced |-> malloced,
   table |-> IF table = <<>> THEN alloc_extern_table(INITIAL_EXTERN_TABLE_SIZE) ELSE table,
   size |-> INITIAL_EXTERN_TABLE_SIZE,
   initial_ofs |-> IF table = <<>> THEN 1 ELSE ofs0,
   obj_counter |-> 0, size_32 |-> 0, size_64 |-> 0, err |-> ""]
extern_sizes(x) ==
  [x EXCEPT !.out = SubSeq(@, 1, 4) \o Bytes32(Len(@) - 20) \o Bytes32(x.obj_counter)
                    \o Bytes32(x.size_32) \o Bytes32(x.size_64) \o SubSeq(@, 21, Len(@))]
extern_end(x) ==
  IF x.err # "" THEN x
  ELSE extern_sizes(free_extern_table([x EXCEPT !.initial_ofs = @ + x.obj_counter]))
extern_value(machine, table, ofs0, heap, v, fl, limit, malloced) ==
  extern_end(extern_rec(Put(writeblock(extern_start(machine, table, ofs0, limit, malloced), Intext_magic_number),
                            [i \in 1..16 |-> 0]),
                        heap, fl, v))

=============================================================================
