------------------------------- MODULE Marshal -------------------------------
(***************************************************************************)
(* The calls that output and input structured values, by the program and   *)
(* by code that runs during its calls: signal handlers and other threads   *)
(* while a channel is written or read, finalisation functions while the    *)
(* result is allocated. Each agent has a channel of its own, where         *)
(* messages of other machines arrive too; the globals of extern.c and      *)
(* intern.c are shared. Channels are binary (on Unix channel_binary_mode   *)
(* is always true). A program does not write to a channel again after a    *)
(* write that failed.                                                      *)
(***************************************************************************)
EXTENDS Intern, SequencesExt

CONSTANTS
  Agents,      \* the program, and code running during its calls
  Heaps,       \* the heaps a call may find, by number
  Sources,     \* the values each agent may output: [heap, v, fl, machine]
  Remote,      \* the values other machines may send
  Cuts,        \* how much of a message may get out before the channel raises
  Buffers,     \* sizes of the buffers of to_buffer
  Finalisers,  \* whether finalisation functions marshal
  MaxCalls,    \* bound on the calls that output
  MaxRaises    \* bound on the exceptions of the channels

VARIABLES
  table, initial_ofs,  \* what extern.c keeps between calls
  blocks,              \* blocks of malloc, by number
  extern_block,        \* the number of extern.c's block
  intern_src,          \* the message intern.c reads
  agent,               \* [pc, block, src] of each agent
  chan,                \* the bytes in each channel
  sent,                \* ghost: the sources of the messages in each channel
  lost,                \* ghost: the bytes of the last of them that were not written
  raised,              \* ghost: exceptions of the channels while a block was held
  str,                 \* the last string made: [bytes, src]
  buf,                 \* the last call of to_buffer: [len, err, bytes, src]
  res,                 \* the last value read: the result of input_val, and src
  calls

vars == <<table, initial_ofs, blocks, extern_block, intern_src, agent, chan, sent, lost, raised, str, buf, res, calls>>

None == [src |-> "none"]
Idle == [pc |-> "idle", block |-> 0, src |-> "none"]

Init ==
  /\ table = <<>> /\ initial_ofs = 1
  /\ blocks = <<>> /\ extern_block = 0 /\ intern_src = <<>>
  /\ agent = [a \in Agents |-> Idle]
  /\ chan = [a \in Agents |-> <<>>] /\ sent = [a \in Agents |-> <<>>]
  /\ lost = [a \in Agents |-> 0] /\ raised = 0
  /\ str = None /\ buf = None /\ res = None
  /\ calls = 0

\* An agent may start: no other is allocating, unless finalisers may run.
May(a) ==
  /\ agent[a].pc = "idle"
  /\ \A b \in Agents \ {a} : agent[b].pc \in {"copy", "intern"} => Finalisers
\* What is waiting for an allocation goes on once its finalisers are done.
Alone(a) == \A b \in Agents \ {a} : agent[b].pc \in {"idle", "put", "got", "held"}

Fresh == CHOOSE n \in 1..(Cardinality(DOMAIN blocks) + 1) : n \notin DOMAIN blocks
Extern(src, limit, malloced) ==
  extern_value(src.machine, table, initial_ofs, Heaps[src.heap], src.v, src.fl, limit, malloced)
\* What is output when there was no call before.
Reference(src) ==
  extern_value(src.machine, <<>>, 1, Heaps[src.heap], src.v, src.fl, INITIAL_EXTERN_BLOCK_SIZE, TRUE)
Message(src) == IF src.heap = 0 THEN <<1, 2, 3, 4>> ELSE Reference(src).out
Keeps(x) == table' = x.table /\ initial_ofs' = x.initial_ofs
Without(f, i) == [j \in DOMAIN f \ {i} |-> f[j]]

\* Mutated form: a failure does not free the block.
Started_leak(a, src, pc, x) ==
  /\ Keeps(x) /\ extern_block' = Fresh /\ blocks' = blocks @@ (Fresh :> x.out)
  /\ agent' = IF x.err = "" THEN [agent EXCEPT ![a] = [pc |-> pc, block |-> Fresh, src |-> src]] ELSE agent

\* alloc_extern_block and extern_value; a failure frees the block, save the
\* one that extern_rec raises itself.
Started(a, src, pc, x) ==
  /\ Keeps(x) /\ extern_block' = Fresh
  /\ blocks' = IF x.err \in {"", "no serialize"} THEN blocks @@ (Fresh :> x.out) ELSE blocks
  /\ agent' = IF x.err = "" THEN [agent EXCEPT ![a] = [pc |-> pc, block |-> Fresh, src |-> src]] ELSE agent
Starts(a, src, pc) ==
  /\ May(a) /\ calls < MaxCalls /\ calls' = calls + 1
  /\ Started(a, src, pc, Extern(src, INITIAL_EXTERN_BLOCK_SIZE, TRUE))
  /\ UNCHANGED <<intern_src, chan, sent, lost, raised, str, buf, res>>

output_val(a, src) == lost[a] = 0 /\ Starts(a, src, "put")
\* Mutated form: the global, not the pointer saved, is written and freed.
really_putblock_global(a) ==
  /\ agent[a].pc = "put" /\ Alone(a)
  /\ chan' = [chan EXCEPT ![a] = @ \o IF extern_block \in DOMAIN blocks THEN blocks[extern_block] ELSE <<>>]
  /\ sent' = [sent EXCEPT ![a] = Append(@, agent[a].src)]
  /\ blocks' = Without(blocks, extern_block)
  /\ agent' = [agent EXCEPT ![a] = Idle]
  /\ UNCHANGED <<table, initial_ofs, extern_block, intern_src, lost, raised, str, buf, res, calls>>

really_putblock(a) ==
  /\ agent[a].pc = "put" /\ Alone(a)
  /\ chan' = [chan EXCEPT ![a] = @ \o blocks[agent[a].block]]
  /\ sent' = [sent EXCEPT ![a] = Append(@, agent[a].src)]
  /\ blocks' = Without(blocks, agent[a].block)
  /\ agent' = [agent EXCEPT ![a] = Idle]
  /\ UNCHANGED <<table, initial_ofs, extern_block, intern_src, lost, raised, str, buf, res, calls>>

\* An I/O error, or an exception of a signal handler: part of the message
\* is out, and nobody has the block any more.
putblock_raises(a) ==
  /\ agent[a].pc = "put" /\ Alone(a)
  /\ raised < MaxRaises /\ raised' = raised + 1
  /\ LET msg == blocks[agent[a].block]
     IN  \E n \in Cuts : /\ n < Len(msg)
                         /\ chan' = [chan EXCEPT ![a] = @ \o SubSeq(msg, 1, n)]
                         /\ lost' = [lost EXCEPT ![a] = Len(msg) - n]
  /\ sent' = [sent EXCEPT ![a] = Append(@, agent[a].src)]
  /\ agent' = [agent EXCEPT ![a] = Idle]
  /\ UNCHANGED <<table, initial_ofs, blocks, extern_block, intern_src, str, buf, res, calls>>

\* The string is allocated before the global block is copied and freed; a
\* block freed meanwhile holds anything.
output_value_to_string(a, src) == Starts(a, src, "copy")
to_string_copy(a) ==
  /\ agent[a].pc = "copy" /\ Alone(a)
  /\ str' = [bytes |-> IF extern_block \in DOMAIN blocks THEN blocks[extern_block] ELSE <<>>, src |-> agent[a].src]
  /\ blocks' = Without(blocks, extern_block)
  /\ agent' = [agent EXCEPT ![a] = Idle]
  /\ UNCHANGED <<table, initial_ofs, extern_block, intern_src, chan, sent, lost, raised, buf, res, calls>>

ToBuffer(src, len, x) ==
  /\ Keeps(x)
  /\ buf' = [len |-> len, err |-> x.err, bytes |-> x.out, src |-> src]
output_value_to_buffer(a, src, len) ==
  /\ May(a) /\ calls < MaxCalls /\ calls' = calls + 1
  /\ ToBuffer(src, len, Extern(src, len, FALSE))
  /\ UNCHANGED <<blocks, extern_block, intern_src, agent, chan, sent, lost, raised, str, res>>

\* The caller keeps the block, until it has a value read from it.
output_value_to_malloc(a, src) == Starts(a, src, "held")
input_value_from_malloc(a) ==
  /\ agent[a].pc = "held" /\ Alone(a)
  /\ intern_src' = blocks[agent[a].block]
  /\ agent' = [agent EXCEPT ![a].pc = "intern"]
  /\ UNCHANGED <<table, initial_ofs, blocks, extern_block, chan, sent, lost, raised, str, buf, res, calls>>

\* A message of another machine, or a word that begins none, is in the channel.
NoMessage == [heap |-> 0]
arrives(a, src) ==
  /\ lost[a] = 0 /\ calls < MaxCalls /\ calls' = calls + 1
  /\ chan' = [chan EXCEPT ![a] = @ \o Message(src)]
  /\ sent' = [sent EXCEPT ![a] = Append(@, src)]
  /\ UNCHANGED <<table, initial_ofs, blocks, extern_block, intern_src, agent, lost, raised, str, buf, res>>

Magic(c) == SubSeq(c, 1, 4) = Intext_magic_number
BlockLen(c) == 20 + marshal_data_size(c)
Held(c) == Len(c) >= 20 /\ Magic(c)
Taken(a, n) == chan' = [chan EXCEPT ![a] = SubSeq(@, n + 1, Len(@))] /\ sent' = [sent EXCEPT ![a] = Tail(@)]

\* The data part is read into a block of the call; it is known to the globals
\* only once it is there, and is theirs while the result is allocated.
really_getblock(a) ==
  /\ May(a) /\ Held(chan[a]) /\ BlockLen(chan[a]) <= Len(chan[a])
  /\ blocks' = blocks @@ (Fresh :> SubSeq(chan[a], 1, BlockLen(chan[a])))
  /\ Taken(a, BlockLen(chan[a]))
  /\ agent' = [agent EXCEPT ![a] = [pc |-> "got", block |-> Fresh, src |-> Head(sent[a])]]
  /\ UNCHANGED <<table, initial_ofs, extern_block, intern_src, lost, raised, str, buf, res, calls>>

\* "bad object" after the first word; the end of the file in the header; or
\* in the data, where the block is freed: "truncated object".
input_val_fails(a) ==
  /\ May(a) /\ sent[a] # <<>>
  /\ IF Len(chan[a]) >= 4 /\ ~Magic(chan[a]) THEN Taken(a, 4) /\ UNCHANGED lost
     ELSE /\ Held(chan[a]) => BlockLen(chan[a]) > Len(chan[a])
          /\ Taken(a, Len(chan[a]))
          /\ lost' = [lost EXCEPT ![a] = 0]
  /\ UNCHANGED <<table, initial_ofs, blocks, extern_block, intern_src, agent, raised, str, buf, res, calls>>

\* The channel raises in the data: nobody has the block any more, and the
\* program does not read the rest.
getblock_raises(a) ==
  /\ May(a) /\ Held(chan[a])
  /\ raised < MaxRaises /\ raised' = raised + 1
  /\ blocks' = blocks @@ (Fresh :> SubSeq(chan[a], 1, 20))
  /\ chan' = [chan EXCEPT ![a] = <<>>] /\ sent' = [sent EXCEPT ![a] = <<>>] /\ lost' = [lost EXCEPT ![a] = 0]
  /\ UNCHANGED <<table, initial_ofs, extern_block, intern_src, agent, str, buf, res, calls>>
intern_start(a) ==
  /\ agent[a].pc = "got" /\ Alone(a)
  /\ intern_src' = blocks[agent[a].block]
  /\ agent' = [agent EXCEPT ![a].pc = "intern"]
  /\ UNCHANGED <<table, initial_ofs, blocks, extern_block, chan, sent, lost, raised, str, buf, res, calls>>
intern_finish(a) ==
  /\ agent[a].pc = "intern" /\ Alone(a)
  /\ res' = [val |-> input_val(intern_src), src |-> agent[a].src]
  /\ blocks' = Without(blocks, agent[a].block)
  /\ agent' = [agent EXCEPT ![a] = Idle]
  /\ UNCHANGED <<table, initial_ofs, extern_block, intern_src, chan, sent, lost, raised, str, buf, calls>>

\* The buffer is not the call's to free.
input_value_from_block(a) ==
  /\ May(a) /\ buf # None /\ buf.err = ""
  /\ 20 + marshal_data_size(buf.bytes) <= buf.len
  /\ intern_src' = buf.bytes
  /\ agent' = [agent EXCEPT ![a] = [pc |-> "intern", block |-> 0, src |-> buf.src]]
  /\ UNCHANGED <<table, initial_ofs, blocks, extern_block, chan, sent, lost, raised, str, buf, res, calls>>

\* The reading pointer is set again after the allocation.
input_value_from_string(a) ==
  /\ May(a) /\ str # None /\ str.bytes # <<>>
  /\ intern_src' = str.bytes
  /\ res' = [val |-> input_val(str.bytes), src |-> str.src]
  /\ UNCHANGED <<table, initial_ofs, blocks, extern_block, agent, chan, sent, lost, raised, str, buf, calls>>

Next ==
  \E a \in Agents :
    \/ \E src \in Sources[a] : \/ output_val(a, src)
                            \/ output_value_to_string(a, src)
                            \/ output_value_to_malloc(a, src)
                            \/ \E len \in Buffers : output_value_to_buffer(a, src, len)
    \/ really_putblock(a) \/ putblock_raises(a) \/ to_string_copy(a)
    \/ \E src \in Remote \cup {NoMessage} : arrives(a, src)
    \/ really_getblock(a) \/ getblock_raises(a) \/ input_val_fails(a) \/ intern_start(a) \/ intern_finish(a)
    \/ input_value_from_string(a) \/ input_value_from_malloc(a) \/ input_value_from_block(a)

Spec == Init /\ [][Next]_vars

-----------------------------------------------------------------------------
(* Properties.                                                             *)

\* What a value is, forwarding aside: a scalar, or a pointer to an object.
RECURSIVE Target(_, _)
Target(heap, v) ==
  IF v[1] = "ptr" /\ heap[v[2]].k = "forward" THEN Target(heap, heap[v[2]].v) ELSE v
Label(o) == IF o.k = "block" THEN <<o.k, o.tag, Len(o.f)>> ELSE <<o.k, o.c>>
\* Pairs of values of the two heaps that the pairs in p make correspond.
Deeper(p, h1, h2) ==
  UNION {IF q[1][1] = "ptr" /\ q[2][1] = "ptr" /\ h1[q[1][2]].k = "block" /\ h2[q[2][2]].k = "block"
            /\ Len(h1[q[1][2]].f) = Len(h2[q[2][2]].f)
         THEN {<<Target(h1, h1[q[1][2]].f[i]), h2[q[2][2]].f[i]>> : i \in DOMAIN h1[q[1][2]].f}
         ELSE {} : q \in p}
RECURSIVE Closed(_, _, _)
Closed(p, h1, h2) == IF Deeper(p, h1, h2) \subseteq p THEN p ELSE Closed(p \cup Deeper(p, h1, h2), h1, h2)
Same(q, h1, h2) ==
  IF q[1][1] = "ptr"
  THEN q[2][1] = "ptr" /\ q[1][3] = q[2][3] /\ Label(h1[q[1][2]]) = Label(h2[q[2][2]])
  ELSE q[1] = q[2]
Corresponding(h1, v1, h2, v2) == Closed({<<Target(h1, v1), v2>>}, h1, h2)

\* A value read back has the shape and the contents of the value output, read
\* by the agent it was meant for: the same scalars and bytes in the same
\* places, two pointers equal exactly when they were (cycles and sharing
\* preserved), or a tree of copies when sharing was ignored.
FaithfulTo(p, h1, h2, ptrs, fl) ==
  /\ \A q \in p : Same(q, h1, h2)
  /\ \A q, r \in ptrs : q[2] = r[2] => q[1] = r[1]
  /\ fl.NO_SHARING \/ \A q, r \in ptrs : q[1] = r[1] => q[2] = r[2]
Pointers(p) == {<<q[1][2], q[2][2]>> : q \in {r \in p : r[1][1] = "ptr"}}
Faithful(p, h1, h2, fl) == FaithfulTo(p, h1, h2, Pointers(p), fl)
Contents(heap, v) ==
  IF v[1] # "ptr" THEN {}
  ELSE CASE heap[v[2]].k = "block" -> ToSet(heap[v[2]].f)
         [] heap[v[2]].k = "forward" -> {heap[v[2]].v}
         [] OTHER -> {}
RECURSIVE Values(_, _)
Values(heap, s) ==
  LET t == s \cup UNION {Contents(heap, v) : v \in s} IN IF t = s THEN s ELSE Values(heap, t)
\* What this machine cannot have: a large integer, the code of another program
\* and a custom block it does not know.  Reading fails for nothing else.
Unreadable(src, v) ==
  \/ v[1] = "long"
  \/ v[1] = "code" /\ src.machine.checksum # Checksum
  \/ v[1] = "ptr" /\ Heaps[src.heap][v[2]].k = "custom" /\ \A c \in KnownCustom : c.id # Heaps[src.heap][v[2]].id
Readable(src) == \A v \in Values(Heaps[src.heap], {src.v}) : ~Unreadable(src, v)
ReadFaithful ==
  res # None =>
    IF ~Readable(res.src) THEN res.val.r.err # ""
    ELSE res.val.r.err = "" /\ Faithful(Corresponding(Heaps[res.src.heap], res.src.v, res.val.r.mem, res.val.r.v),
             Heaps[res.src.heap], res.val.r.mem, res.src.fl)

\* The sizes in the header are exact: the objects fill the memory allocated
\* for them, up to the end of its pages, and the table of objects.
Words(o) == CASE o.k = "block" -> Len(o.f)
              [] o.k = "string" -> (Len(o.c) + 4) \div 4
              [] o.k \in {"double", "doubles"} -> Len(o.c) \div 4
              [] o.k = "custom" -> 1 + (Len(o.c) + 3) \div 4
              [] OTHER -> o.words
RECURSIVE Tiled(_, _, _)
Tiled(mem, w, end) == w = end \/ (w \in DOMAIN mem /\ Tiled(mem, w + 1 + Words(mem[w]), end))
SizesExact ==
  res # None =>
    LET v == res.val
    IN  IF v.r.err = ""
        THEN /\ Tiled(v.r.mem, 0, v.dst.words)
             /\ v.r.table => v.counted = v.num_objects
        ELSE v.used <= v.dst.words /\ v.counted <= v.num_objects

\* A failed input leaves a heap that can be walked: the block that was being
\* filled is one string again, and a chunk is gone.
FailureRestores ==
  (res # None /\ res.val.r.err # "") =>
    IF res.val.dst.kind = "block" THEN Tiled(res.val.r.mem, 0, res.val.dst.words) ELSE res.val.r.mem = <<>>

\* The bytes do not depend on earlier calls: entries they left in the table
\* are never taken for objects of this one, whatever the addresses now hold,
\* also after calls that failed.
HistoryIndependent ==
  /\ str # None => str.bytes = Reference(str.src).out
  /\ \A a \in Agents : agent[a].pc = "put" => blocks[agent[a].block] = Reference(agent[a].src).out

\* to_buffer writes at most len bytes and fails exactly when they do not
\* suffice.
Suffices(x) == x.err = "" => ((buf.err # "") <=> (Len(x.out) > buf.len))
BufferRespected ==
  buf # None => (Len(buf.bytes) <= buf.len \/ buf.err # "") /\ Suffices(Reference(buf.src))

\* A channel holds the messages of its agent one after the other, whatever the
\* other agents output meanwhile, and ends within one only after a write that
\* failed.
ChannelExact ==
  \A a \in Agents :
    LET whole == FlattenSeq([i \in DOMAIN sent[a] |-> Message(sent[a][i])])
    IN  chan[a] = SubSeq(whole, 1, Len(whole) - lost[a])

\* Memory for output and input is freed once the call is over, save one block
\* for each exception of a channel while the call held it.
NoLeak == (\A a \in Agents : agent[a].pc = "idle") => Cardinality(DOMAIN blocks) = raised

\* What is written depends on the value alone, wherever it goes: earlier calls
\* and the calls of other agents leave no trace in it.
MessagesExact == ChannelExact /\ HistoryIndependent /\ BufferRespected

\* What is read is isomorphic to what was written and fills the memory that its
\* header asked for; reading fails for nothing but what this machine cannot
\* have, leaves the heap walkable, and leaks nothing unless a channel raises.
InputFaithful == ReadFaithful /\ SizesExact /\ FailureRestores /\ NoLeak

=============================================================================
