---------------------------- MODULE MCLibraries -----------------------------
(***************************************************************************)
(* Four libraries, one of them in a behaviour: big numbers (a behaviour is *)
(* one call, on a memory or on numbers of a set), structured output and    *)
(* input, big arrays, and system threads.  The variables of the others     *)
(* are unused.                                                             *)
(***************************************************************************)
EXTENDS NatStubs, BigZ, TLC

Intervals(n) == {<<a, l>> \in (1..n) \X (0..n) : a + l <= n + 1}
ShapeOf(free, rest, len, digits, ops, operands) ==
  [free |-> free, rest |-> rest, len |-> len, digits |-> digits, ops |-> ops, operands |-> operands]

MCShapes ==
  << \* every overlap of short operands
    ShapeOf(1..4, 9, 5, {0, 1, 15},
            {"set_to_zero", "blit", "num_digits", "incr", "decr", "complement", "compare", "shift_left", "shift_right",
             "add", "sub", "mult_digit", "div_digit", "leading_zero_bits", "normalized", "odd",
             "compare_digits", "land", "lor", "lxor"},
            Intervals(4)),
    \* two digits divided by one: all of them
    ShapeOf(3..5, 9, 5, 0..15, {"div_digit", "mult_digit"}, {<<3, 2>>, <<4, 1>>}),
    \* products of up to three digits by two
    ShapeOf(1..9, 9, 9, {0, 15}, {"mult"}, {<<1, 4>>, <<1, 5>>, <<5, 2>>, <<5, 3>>, <<8, 2>>, <<8, 1>>}),
    \* four digits by two, and by three
    ShapeOf(2..7, 9, 8, {0, 1, 8, 15}, {"div"}, {<<2, 4>>, <<6, 2>>}),
    ShapeOf(2..8, 9, 9, {0, 8, 15}, {"div"}, {<<2, 4>>, <<6, 3>>}),
    \* the square of seven digits
    ShapeOf(15..21, 0, 22, {0, 7, 15}, {"mult"}, {<<1, 14>>, <<15, 7>>}) >>

MCDigits == {0, 1, 7, 15}
MCBigZs ==
  {[sign |-> s, d |-> d] : s \in {-1, 1}, d \in {<<a>> : a \in {1, 5, 12}}
     \cup {<<a, b>> : a, b \in MCDigits} \cup {<<a, b, c>> : a \in {0, 15}, b \in {0, 8}, c \in {0, 8, 15}}}
MCCanonical ==
  {z \in MCBigZs : \E i \in DOMAIN z.d : z.d[i] # 0} \cup {[sign |-> 0, d |-> <<0>>], [sign |-> 0, d |-> <<0, 0>>]}
MCNumerals ==
  [base \in {3, 8, 10, 15} |->
     {p \o d : p \in {<<>>, <<"-">>, <<" ", "+">>},
               d \in IF base = 15
                     THEN UNION {[1..n -> {"0", "9", "a", "E"}] : n \in 1..3} \cup {<<"e", "d", "C", "b", "A">>}
                     ELSE UNION {[1..n -> {"0", "1", "2"}] : n \in 1..4} \cup {<<"1", "0", "2", "0", "1", "2">>}}]

NumInit ==
  \/ NatInit /\ bz = [p \in Names |-> BzCreate(1)] /\ bcall = [op |-> "unused"]
  \/ BzInit /\ shape = 1 /\ mem = <<>> /\ call = [op |-> "unused"]
NumNext ==
  \/ NatNext /\ UNCHANGED <<bz, bcall>>
  \/ BzNext /\ UNCHANGED <<mem, shape, call>>

-----------------------------------------------------------------------------
(* The other libraries.                                                    *)

CONSTANTS
  Libraries,   \* those that run
  INITIAL_EXTERN_TABLE_SIZE_LOG2, INITIAL_EXTERN_BLOCK_SIZE, INITIAL_OFFSET_MAX, Shared8, Shared16,
  Checksum, Max_wosize, Page_words, KnownCustom, Agents, Heaps, Sources, Remote, Cuts, Buffers, Finalisers,
  MaxMarshalCalls, MaxRaises,
  MAX_NUM_DIMS, MaxArrays, MaxArrayCalls, NewArrays, External, NewMappings, FileSize, Garbage, Dims, Inds,
  Ranges, StoredValues,
  Threads, Main, Chans, Budgets

VARIABLES
  library,  \* the one that runs
  table, initial_ofs, blocks, extern_block, intern_src, agent, chan, sent, lost, raised, str, buf, res, marshal_calls,
  arrays, segs, proxies, file, bad, stale, array_call, array_calls, views, store,
  master, rt, stk, thr, next, prev, status, joining, thread_chan, mut, cond, tick, budget, sig

numvars == <<mem, shape, call, bz, bcall>>
marshalvars == <<table, initial_ofs, blocks, extern_block, intern_src, agent, chan, sent, lost, raised, str, buf, res,
                 marshal_calls>>
arrayvars == <<arrays, segs, proxies, file, bad, stale, array_call, array_calls, views, store>>
threadvars == <<master, rt, stk, thr, next, prev, status, joining, thread_chan, mut, cond, tick, budget, sig>>
libvars == <<numvars, marshalvars, arrayvars, threadvars, library>>

Values == INSTANCE MCMarshal
MCHeaps == Values!MCHeaps
MCSources == Values!MCSources
MCRemote == Values!MCRemote
MCChecksum == Values!MCChecksum
MCKnown == Values!MCKnown
Marshalling == INSTANCE Marshal WITH MaxCalls <- MaxMarshalCalls, calls <- marshal_calls

Arguments == INSTANCE MCBigarray
MCNewArrays == Arguments!MCNewArrays
MCExternal == Arguments!MCExternal
MCNewMappings == Arguments!MCNewMappings
MCInds == Arguments!MCInds
MCRanges == Arguments!MCRanges
MCDims == Arguments!MCDims
MCStored == Arguments!MCStored
Arrays == INSTANCE Bigarray WITH MaxCalls <- MaxArrayCalls, call <- array_call, calls <- array_calls

\* Enough for a condition to be awaited and signalled, for a handler that
\* interrupts an output to do one itself, for a signal to meet a tick, and
\* for two signals.
MCBudgets ==
  {[ops |-> 3, signals |-> 0, ticks |-> 0], [ops |-> 2, signals |-> 1, ticks |-> 0],
   [ops |-> 1, signals |-> 1, ticks |-> 1], [ops |-> 1, signals |-> 2, ticks |-> 0]}
Symm == Permutations(Chans)
SystemThreads == INSTANCE SysThreads WITH chan <- thread_chan

unused == "unused"
NumUnused == mem = unused /\ shape = unused /\ call = unused /\ bz = unused /\ bcall = unused
MarshalUnused ==
  /\ table = unused /\ initial_ofs = unused /\ blocks = unused /\ extern_block = unused /\ intern_src = unused
  /\ agent = unused /\ chan = unused /\ sent = unused /\ lost = unused /\ raised = unused /\ str = unused
  /\ buf = unused /\ res = unused /\ marshal_calls = unused
ArraysUnused ==
  /\ arrays = unused /\ segs = unused /\ proxies = unused /\ file = unused /\ bad = unused /\ stale = unused
  /\ array_call = [op |-> unused] /\ array_calls = unused /\ views = <<>> /\ store = <<>>
ThreadsUnused ==
  /\ master = unused /\ rt = unused /\ stk = unused /\ thr = unused /\ next = unused /\ prev = unused
  /\ status = unused /\ joining = unused /\ thread_chan = unused /\ mut = unused /\ cond = unused
  /\ tick = unused /\ budget = unused /\ sig = unused
LibrariesInit ==
  /\ library \in Libraries
  /\ \/ library = "num" /\ NumInit /\ MarshalUnused /\ ArraysUnused /\ ThreadsUnused
     \/ library = "marshal" /\ Marshalling!Init /\ NumUnused /\ ArraysUnused /\ ThreadsUnused
     \/ library = "bigarray" /\ Arrays!Init /\ NumUnused /\ MarshalUnused /\ ThreadsUnused
     \/ library = "threads" /\ SystemThreads!Init /\ NumUnused /\ MarshalUnused /\ ArraysUnused
LibrariesNext ==
  \/ library = "num" /\ NumNext /\ UNCHANGED <<marshalvars, arrayvars, threadvars, library>>
  \/ library = "marshal" /\ Marshalling!Next /\ UNCHANGED <<numvars, arrayvars, threadvars, library>>
  \/ library = "bigarray" /\ Arrays!Next /\ UNCHANGED <<numvars, marshalvars, threadvars, library>>
  \/ library = "threads" /\ SystemThreads!Next /\ UNCHANGED <<numvars, marshalvars, arrayvars, library>>
LibrariesSpec == LibrariesInit /\ [][LibrariesNext]_libvars

-----------------------------------------------------------------------------
(* Properties.                                                             *)

\* Every primitive on nats computes the number its comment promises, from
\* operands that overlap as callers let them, and writes nothing but its result.
NatExact == library = "num" =>
  /\ TypeOK /\ Frame /\ AdditiveExact /\ MultiplyExact
  /\ DivideExact /\ ShiftExact /\ BlitExact /\ CompareExact

\* Every operation on signed numbers gives the number it names, normalized, and
\* leaves its operands alone; strings are numerals.
BzExact == library = "num" =>
  /\ BzCanonical /\ BzArithmetic /\ BzOperandsKept
  /\ BzDivision /\ BzStrings /\ BzConversions

\* What extern.c writes depends on the value alone, wherever it goes: earlier
\* calls and the calls of other agents leave no trace in it.
MessagesExact == library = "marshal" => Marshalling!MessagesExact

\* What intern.c reads is isomorphic to what was written and fills the memory
\* that its header asked for; reading fails for nothing but what this machine
\* cannot have, leaves the heap walkable, and leaks nothing unless a channel raises.
InputFaithful == library = "marshal" => Marshalling!InputFaithful

\* The data of big arrays is freed once, when the last array that shares it is
\* collected, and nothing is read or written outside it, as long as no view was
\* made of an array the collector had freed or moved inside alloc_bigarray.
ArrayMemorySound == library = "bigarray" => Arrays!MemorySound

\* The reference count of a proxy is the number of the arrays that hold it, the
\* "original array + sub array" of bigarray_update_proxy.
ArrayRefcountExact == library = "bigarray" => Arrays!RefcountExact

\* Big arrays behave as views of a store: every call returns what the views
\* say, refuses the arguments the code means to refuse, and changes exactly
\* the elements it should, through aliases and overlapping copies.
ImplementsViews == Arrays!ImplementsViews

\* The same with the refusals that bigarray.mli states.
DocumentedViews == Arrays!DocumentedViews

\* While a collection may happen, caml_thread_scan_roots reaches exactly the live
\* threads, the registers hold the stack of the runner, and the descriptor of
\* every other thread holds all of its stack.
RootsComplete == library = "threads" => SystemThreads!RootsComplete

\* The thread that runs Caml code holds the master lock, and waits for a lock
\* that it holds itself only where a signal fell in a window of the section.
MasterLock == library = "threads" => SystemThreads!MasterLock

\* No signal is handled twice or forgotten outside those windows, a pending one
\* is noticed, and a handler's end restores the mask.
SignalsHandled == library = "threads" => SystemThreads!SignalsHandled

\* A channel is locked by the thread that uses it and by no other, and a join
\* returns when its thread has ended.
LocksAndJoins == library = "threads" => SystemThreads!LocksAndJoins
=============================================================================
