----------------------------- MODULE SysThreads -----------------------------
(***************************************************************************)
(* System threads: otherlibs/systhreads/posix.c and the signals of         *)
(* byterun/signals.c.  One master lock (caml_mutex) is held by the thread  *)
(* that runs Caml code; the blocking sections around system calls release  *)
(* and take it, saving and restoring the interpreter's registers in the    *)
(* thread's descriptor.  Signals are run at once when they come in a       *)
(* blocking section (async_signal_mode) and are left pending otherwise; a  *)
(* tick thread leaves a fake SIGVTALRM pending, whose handler yields.      *)
(*                                                                         *)
(* The control stack of a thread is a sequence of frames [op, pc, x,       *)
(* temp]: Caml code (ml), a primitive in progress, execute_signal (exec)   *)
(* or handle_signal (async).  ebs_* and lbs_* are the steps of                *)
(* enter_blocking_section and leave_blocking_section.  Caml code is        *)
(* abstracted to the primitives it calls; a budget bounds them, the signals  *)
(* and the ticks of a behaviour.                                           *)
(*                                                                         *)
(* pthread_mutex_lock, pthread_cond_wait and the like are external: a lock *)
(* is free or has an owner, a condition has a set of waiters and may wake  *)
(* one spuriously.                                                         *)
(***************************************************************************)
EXTENDS Integers, Sequences, SequencesExt, FiniteSets, FiniteSetsExt

CONSTANTS Threads,     \* the Posix threads, numbers from 1 on; Main is the first
          Main,
          Chans,       \* the I/O channels
          Budgets      \* bounds: a set of [ops, signals, ticks]

none == 0

VTALRM == 1   \* the signal of the tick thread
USR == 2      \* a signal with a Caml handler

VARIABLES
  master,     \* owner of caml_mutex
  rt,         \* [curr_thread, regs, async_signal_mode, pending_signal, something_to_do]
  stk,        \* control stack of each thread
  thr,        \* [st, saved, last, mask] of each thread; st is its life
  next, prev, \* the list of caml_thread_structs
  status,     \* the caml_threadstatus of each thread
  joining,    \* threads waiting on it
  chan,       \* owner of the mutex of each channel
  mut,        \* owner of the one Mutex.t
  cond,       \* threads waiting on the one Condition.t
  tick,       \* the tick thread
  budget,     \* what is left of the chosen element of Budgets
  sig         \* ghost: [sent, run, lost, unread, hit, stuck, leaked, freed]
vars == << master, rt, stk, thr, next, prev, status, joining, chan, mut, cond, tick, budget, sig >>

F(op, pc, x) == [op |-> op, pc |-> pc, x |-> x, temp |-> 0]
Top(t) == Last(stk[t])
At(t, op, pc) == Top(t).pc = pc /\ Top(t).op = op
Goto(t, pc) == [stk EXCEPT ![t][Len(stk[t])].pc = pc]
Push(t, f) == [stk EXCEPT ![t] = Append(@, f)]
\* Suspend the frame at pc and call f.
Call(t, pc, f) == [stk EXCEPT ![t] = Append([@ EXCEPT ![Len(@)].pc = pc], f)]
Pop(t) == [stk EXCEPT ![t] = Front(@)]
\* Return to the calling frame, at pc.
Back(t, pc) == [stk EXCEPT ![t] = [Front(stk[t]) EXCEPT ![Len(stk[t]) - 1].pc = pc]]

\* What the registers hold while t runs: its stack, down to some depth.
Mls(s) == Cardinality({i \in DOMAIN s : s[i].op = "ml"})
Context(t) == << t, Mls(stk[t]) >>

Live(t) == thr[t].st \in {"forked", "running"}

Init ==
  /\ master = Main
  /\ rt = [curr_thread |-> Main, regs |-> << Main, 1 >>, async_signal_mode |-> 0,
           pending_signal |-> 0, something_to_do |-> 0]
  /\ stk = [t \in Threads |-> IF t = Main THEN << F("ml", "run", 0) >> ELSE << >>]
  /\ thr = [t \in Threads |-> [st |-> IF t = Main THEN "running" ELSE "unborn",
                               saved |-> << t, 0 >>, last |-> none, mask |-> {}]]
  /\ next = [t \in Threads |-> Main]
  /\ prev = [t \in Threads |-> Main]
  /\ status = [t \in Threads |-> "ALIVE"]
  /\ joining = [t \in Threads |-> {}]
  /\ chan = [c \in Chans |-> none]
  /\ mut = none
  /\ cond = {}
  /\ tick = "sleep"
  /\ budget \in Budgets
  /\ sig = [sent |-> 0, run |-> 0, lost |-> 0, unread |-> 0, hit |-> {}, stuck |-> {}, leaked |-> {}, freed |-> {}]

Others == UNCHANGED << next, prev, status, joining, mut, cond, tick, budget >>

-----------------------------------------------------------------------------
(* signals.c: enter_blocking_section and leave_blocking_section, with the  *)
(* hooks of posix.c, for the primitive on top of t's stack.                *)

Prims == {"yield", "iolock", "write", "lock", "unlock", "cwait", "csignal", "join", "start", "async"}

\* temp = pending_signal, and its clearing in a second instruction.
ebs_read(t) ==
  /\ Top(t).op \in Prims \cup {"event"} /\ Top(t).pc = "ebs_read"
  /\ stk' = [stk EXCEPT ![t][Len(stk[t])] = [@ EXCEPT !.pc = "ebs_clear", !.temp = rt.pending_signal]]
  /\ sig' = [sig EXCEPT !.unread = 0]
  /\ UNCHANGED << master, rt, thr, chan >> /\ Others

ebs_clear(t) ==
  /\ Top(t).pc = "ebs_clear"
  /\ rt' = [rt EXCEPT !.pending_signal = 0]
  /\ LET temp == Top(t).temp
         then == IF Top(t).op = "event" THEN "return" ELSE "ebs_async"
     IN  stk' = IF temp = 0 THEN Goto(t, then)
                ELSE Call(t, then, F("exec", "block", [s |-> temp, handler |-> FALSE, old |-> {}]))
  /\ sig' = [sig EXCEPT !.lost = @ + sig.unread, !.unread = 0]
  /\ UNCHANGED << master, thr, chan >> /\ Others

ebs_async(t) ==
  /\ Top(t).pc = "ebs_async"
  /\ rt' = [rt EXCEPT !.async_signal_mode = 1]
  /\ stk' = Goto(t, "ebs_test")
  /\ UNCHANGED << master, thr, chan, sig >> /\ Others

ebs_test(t) ==
  /\ Top(t).pc = "ebs_test"
  /\ IF rt.pending_signal = 0 THEN stk' = Goto(t, "ebs_hook") /\ UNCHANGED rt
     ELSE stk' = Goto(t, "ebs_read") /\ rt' = [rt EXCEPT !.async_signal_mode = 0]
  /\ UNCHANGED << master, thr, chan, sig >> /\ Others

caml_thread_enter_blocking_section(t) ==
  /\ Top(t).pc = "ebs_hook"
  /\ LET saved == [thr EXCEPT ![rt.curr_thread].saved = rt.regs]
     IN  IF Top(t).op = "async"
         THEN thr' = [saved EXCEPT ![t].mask = Top(t).x.old] /\ stk' = Pop(t)
         ELSE thr' = saved /\ stk' = Goto(t, "blocked")
  /\ master' = none
  /\ UNCHANGED << rt, chan, sig >> /\ Others

caml_thread_leave_blocking_section(t) ==
  /\ Top(t).pc = "lbs_hook"
  /\ master = none
  /\ master' = t
  /\ rt' = [rt EXCEPT !.curr_thread = t, !.regs = thr[t].saved]
  /\ stk' = Goto(t, "lbs_async")
  /\ UNCHANGED << thr, chan, sig >> /\ Others

\* Mutated form: async_signal_mode is not reset.
leave_blocking_section_async(t) ==
  /\ Top(t).pc = "lbs_async"
  /\ UNCHANGED rt
  /\ stk' = Goto(t, "return")
  /\ UNCHANGED << master, thr, chan, sig >> /\ Others

leave_blocking_section(t) ==
  /\ Top(t).pc = "lbs_async"
  /\ rt' = [rt EXCEPT !.async_signal_mode = 0]
  /\ stk' = Goto(t, "return")
  /\ UNCHANGED << master, thr, chan, sig >> /\ Others

-----------------------------------------------------------------------------
(* Callbacks and exceptions (callback.c, fail.c).  The registers follow    *)
(* the Caml frames: depth is how many of them are on the stack.            *)

Depth(d) == [rt EXCEPT !.regs = << @[1], d >>]

\* The frames s contain output on the channel c.
Using(s, c) == \E i \in DOMAIN s : s[i].op = "io" /\ s[i].x = c /\ s[i].pc # "lock"

\* The signals blocked by the handlers in s.
MaskOf(s) == {s[i].x : i \in {j \in DOMAIN s : s[j].op = "ml" /\ s[j].x # 0}}
             \cup {s[i].x.s : i \in {j \in DOMAIN s : s[j].op = "async"}}

\* Mutated form: Unlock_exn is not called.
mlraise_locked(t, thr1) ==
  LET c == thr1[t].last
      cut == SubSeq(stk[t], 1, Max({i \in DOMAIN stk[t] : stk[t][i].op = "ml"}))
      left == SubSeq(stk[t], Len(cut) + 1, Len(stk[t]))
      pended == Top(t).op = "exec" /\ ~Top(t).x.handler
  IN  /\ Mls(stk[t]) > 0
      /\ chan' = chan
      /\ thr' = thr1
      /\ stk' = [stk EXCEPT ![t] = [cut EXCEPT ![Len(cut)].pc = "exn"]]
      /\ rt' = Depth(Mls(cut))
      /\ sig' = [sig EXCEPT
           !.stuck = @ \cup {<< left[i].x.s, t >> : i \in {j \in DOMAIN left : left[j].op = "async" /\ pended}},
           !.leaked = @ \cup {<< t, d >> : d \in {e \in Chans : chan[e] = t /\ e # c /\ Using(left, e) /\ sig.run > 0}},
           !.freed = @ \cup {<< t, d >> : d \in {e \in {c} \cap Chans : Using(cut, e)}}]
      /\ cond' = cond \ {t}
      /\ joining' = [u \in Threads |-> joining[u] \ {t}]
      /\ UNCHANGED << master, next, prev, status, mut, tick, budget >>

\* mlraise, from the C code on top of t's stack: the channel last locked is
\* released, and every frame above the calling Caml code is left.  When
\* there is none (external_raise is NULL in a thread not yet started) the
\* process exits: t keeps the lock and nothing in Caml happens any more.
mlraise(t, thr1) ==
  LET c == thr1[t].last
      cut == SubSeq(stk[t], 1, Max({i \in DOMAIN stk[t] : stk[t][i].op = "ml"}))
      left == SubSeq(stk[t], Len(cut) + 1, Len(stk[t]))
      pended == Top(t).op = "exec" /\ ~Top(t).x.handler
  IN  /\ Mls(stk[t]) > 0
      /\ chan' = [d \in Chans |-> IF d = c THEN none ELSE chan[d]]
      /\ thr' = [thr1 EXCEPT ![t].last = none]
      /\ stk' = [stk EXCEPT ![t] = [cut EXCEPT ![Len(cut)].pc = "exn"]]
      /\ rt' = Depth(Mls(cut))
      /\ sig' = [sig EXCEPT
           !.stuck = @ \cup {<< left[i].x.s, t >> : i \in {j \in DOMAIN left : left[j].op = "async" /\ pended}},
           !.leaked = @ \cup {<< t, d >> : d \in {e \in Chans : chan[e] = t /\ e # c /\ Using(left, e) /\ sig.run > 0}},
           !.freed = @ \cup {<< t, d >> : d \in {e \in {c} \cap Chans : Using(cut, e)}}]
      /\ cond' = cond \ {t}
      /\ joining' = [u \in Threads |-> joining[u] \ {t}]
      /\ UNCHANGED << master, next, prev, status, mut, tick, budget >>

\* execute_signal: the signal is blocked and its handler called.
execute_signal(t) ==
  /\ At(t, "exec", "block")
  /\ LET x == Top(t).x
     IN  /\ stk' = [stk EXCEPT ![t] = Append([@ EXCEPT ![Len(@)].pc = "called", ![Len(@)].x.old = thr[t].mask],
                                             F("ml", "run", x.s))]
         /\ thr' = [thr EXCEPT ![t].mask = @ \cup {x.s}]
         /\ sig' = [sig EXCEPT !.run = @ + IF x.s = USR THEN 1 ELSE 0]
  /\ rt' = Depth(rt.regs[2] + 1)
  /\ UNCHANGED << master, chan >> /\ Others

\* Its end, when the handler has returned; in a signal handler the kernel
\* restores the mask.
execute_signal_end(t) ==
  /\ At(t, "exec", "return")
  /\ thr' = IF Top(t).x.handler THEN thr ELSE [thr EXCEPT ![t].mask = Top(t).x.old]
  /\ stk' = Pop(t)
  /\ UNCHANGED << master, rt, chan, sig >> /\ Others

\* Mutated form: the mask is not restored when the handler raises.
execute_signal_exn_masked(t) == At(t, "exec", "exn") /\ mlraise(t, thr)

\* Its end, when the handler has raised an exception.
execute_signal_exn(t) ==
  /\ At(t, "exec", "exn")
  /\ mlraise(t, [thr EXCEPT ![t].mask = IF Top(t).x.handler THEN Top(t).x.old \ {Top(t).x.s}
                                        ELSE Top(t).x.old])

\* Mutated form: the signal is also left pending.
handle_signal_both(t) ==
  /\ budget.signals > 0
  /\ budget' = [budget EXCEPT !.signals = @ - 1]
  /\ USR \notin thr[t].mask
  /\ IF rt.async_signal_mode = 1
     THEN /\ stk' = Push(t, F("async", "lbs_hook", [s |-> USR, handler |-> TRUE, old |-> thr[t].mask]))
          /\ thr' = [thr EXCEPT ![t].mask = @ \cup {USR}]
          /\ sig' = [sig EXCEPT !.sent = @ + 1,
                       !.hit = IF /\ master = t
                                  /\ Top(t).pc \in {"ebs_test", "ebs_hook", "lbs_async", "release"}
                               THEN @ \cup {t} ELSE @]
          /\ rt' = [rt EXCEPT !.pending_signal = USR, !.something_to_do = 1]
     ELSE /\ rt' = [rt EXCEPT !.pending_signal = USR, !.something_to_do = 1]
          /\ sig' = [sig EXCEPT !.sent = @ + 1,
                                !.lost = @ + sig.unread, !.unread = 1]
          /\ UNCHANGED << stk, thr >>
  /\ UNCHANGED << master, chan >> /\ UNCHANGED << next, prev, status, joining, mut, cond, tick >>

\* Mutated form: something_to_do is not set.
handle_signal_silent(t) ==
  /\ budget.signals > 0
  /\ budget' = [budget EXCEPT !.signals = @ - 1]
  /\ USR \notin thr[t].mask
  /\ IF rt.async_signal_mode = 1
     THEN /\ stk' = Push(t, F("async", "lbs_hook", [s |-> USR, handler |-> TRUE, old |-> thr[t].mask]))
          /\ thr' = [thr EXCEPT ![t].mask = @ \cup {USR}]
          /\ sig' = [sig EXCEPT !.sent = @ + 1,
                       !.hit = IF /\ master = t
                                  /\ Top(t).pc \in {"ebs_test", "ebs_hook", "lbs_async", "release"}
                               THEN @ \cup {t} ELSE @]
          /\ UNCHANGED rt
     ELSE /\ rt' = [rt EXCEPT !.pending_signal = USR]
          /\ sig' = [sig EXCEPT !.sent = @ + 1,
                                !.lost = @ + sig.unread, !.unread = 1]
          /\ UNCHANGED << stk, thr >>
  /\ UNCHANGED << master, chan >> /\ UNCHANGED << next, prev, status, joining, mut, cond, tick >>

\* handle_signal, run by the Posix thread t wherever it is.
handle_signal(t) ==
  /\ budget.signals > 0
  /\ budget' = [budget EXCEPT !.signals = @ - 1]
  /\ USR \notin thr[t].mask
  /\ IF rt.async_signal_mode = 1
     THEN /\ stk' = Push(t, F("async", "lbs_hook", [s |-> USR, handler |-> TRUE, old |-> thr[t].mask]))
          /\ thr' = [thr EXCEPT ![t].mask = @ \cup {USR}]
          /\ sig' = [sig EXCEPT !.sent = @ + 1,
                       !.hit = IF /\ master = t
                                  /\ Top(t).pc \in {"ebs_test", "ebs_hook", "lbs_async", "release"}
                               THEN @ \cup {t} ELSE @]
          /\ UNCHANGED rt
     ELSE /\ rt' = [rt EXCEPT !.pending_signal = USR, !.something_to_do = 1]
          /\ sig' = [sig EXCEPT !.sent = @ + 1,
                                !.lost = @ + sig.unread, !.unread = 1]
          /\ UNCHANGED << stk, thr >>
  /\ UNCHANGED << master, chan >> /\ UNCHANGED << next, prev, status, joining, mut, cond, tick >>

handle_signal_exec(t) ==
  /\ At(t, "async", "return")
  /\ stk' = Call(t, "ebs_read", F("exec", "block", Top(t).x))
  /\ UNCHANGED << master, rt, thr, chan, sig >> /\ Others

\* The tick thread: test and assignment of pending_signal are two steps.
caml_thread_tick ==
  /\ budget.ticks > 0
  /\ IF tick = "sleep"
     THEN /\ tick' = IF rt.pending_signal = 0 THEN "set" ELSE "todo"
          /\ UNCHANGED << rt, sig, budget >>
     ELSE /\ tick' = "sleep"
          /\ budget' = [budget EXCEPT !.ticks = @ - 1]
          /\ rt' = [rt EXCEPT !.pending_signal = IF tick = "set" THEN VTALRM ELSE @,
                              !.something_to_do = 1]
          /\ sig' = IF tick = "set" THEN [sig EXCEPT !.lost = @ + sig.unread, !.unread = 0] ELSE sig
  /\ UNCHANGED << master, stk, thr, chan, next, prev, status, joining, mut, cond >>

-----------------------------------------------------------------------------
(* Caml code: t runs it when the ml frame is on top.                       *)

Running(t) == At(t, "ml", "run")

\* process_signal in interp.c, and process_event.
process_event(t) ==
  /\ Running(t)
  /\ rt.something_to_do = 1
  /\ rt' = [rt EXCEPT !.something_to_do = 0]
  /\ stk' = Push(t, F("event", "ebs_read", 0))
  /\ UNCHANGED << master, thr, chan, sig >> /\ Others

\* The handler of SIGVTALRM yields and returns.
preempt(t) ==
  /\ Running(t) /\ Top(t).x = VTALRM
  /\ stk' = Call(t, "end", F("yield", "ebs_read", 0))
  /\ UNCHANGED << master, rt, thr, chan, sig >> /\ Others

Ml_return(t) ==
  /\ \/ At(t, "ml", "end")
     \/ Running(t) /\ Top(t).x = USR
  /\ stk' = Back(t, "return")
  /\ rt' = Depth(rt.regs[2] - 1)
  /\ UNCHANGED << master, thr, chan, sig >> /\ Others

\* An exception leaves a handler: callback_exn returns it to execute_signal.
Ml_raise(t) ==
  /\ \/ At(t, "ml", "exn") /\ Top(t).x # 0
     \/ Running(t) /\ Top(t).x = USR
  /\ stk' = Back(t, "exn")
  /\ rt' = Depth(rt.regs[2] - 1)
  /\ UNCHANGED << master, thr, chan, sig >> /\ Others

Ml_catch(t) ==
  /\ At(t, "ml", "exn") /\ Top(t).x # VTALRM
  /\ stk' = Goto(t, "run")
  /\ UNCHANGED << master, rt, thr, chan, sig >> /\ Others

\* A primitive called by a handler fails: its exception is raised from C.
Ml_fails(t) == Running(t) /\ Top(t).x = USR /\ mlraise(t, thr)

\* One of the primitives that begin with a blocking section, or an output.
Ml_call(t) ==
  /\ Running(t) /\ Top(t).x # VTALRM /\ budget.ops > 0
  /\ budget' = [budget EXCEPT !.ops = @ - 1]
  /\ \/ stk' = Push(t, F("yield", "ebs_read", 0))
     \/ \E c \in Chans : stk' = Push(t, F("io", "lock", c))
     \/ mut # t /\ stk' = Push(t, F("lock", "ebs_read", 0))
     \/ mut = t /\ stk' = Push(t, F("unlock", "ebs_read", 0))
     \/ mut = t /\ stk' = Push(t, F("cwait", "ebs_read", 0))
     \/ \E all \in BOOLEAN : stk' = Push(t, F("csignal", "ebs_read", all))
     \/ \E u \in Threads \ {t} : thr[u].st # "unborn" /\ stk' = Push(t, F("join", "ebs_read", u))
  /\ UNCHANGED << master, rt, thr, chan, sig, next, prev, status, joining, mut, cond, tick >>

\* The primitive on top of t's stack returns.
Return(t, ops) ==
  /\ Top(t).op \in ops /\ Top(t).pc = "return"
  /\ stk' = Pop(t)
  /\ UNCHANGED << master, rt, thr, chan, sig >> /\ Others

Returns(t) == Return(t, {"yield", "event", "iolock", "lock", "unlock", "cwait", "csignal", "join"})

caml_thread_yield(t) ==
  /\ At(t, "yield", "blocked")
  /\ stk' = Goto(t, "lbs_hook")
  /\ UNCHANGED << master, rt, thr, chan, sig >> /\ Others

\* caml_io_mutex_lock: the mutex, then the note of the channel to unlock.
caml_io_mutex_lock(t) ==
  LET c == Top(t).x IN
  /\ \/ At(t, "iolock", "blocked") /\ chan[c] = none
        /\ chan' = [chan EXCEPT ![c] = t] /\ stk' = Goto(t, "locked") /\ UNCHANGED thr
     \/ At(t, "iolock", "locked")
        /\ thr' = [thr EXCEPT ![t].last = c] /\ stk' = Goto(t, "lbs_hook") /\ UNCHANGED chan
  /\ UNCHANGED << master, rt, sig >> /\ Others

\* caml_output: Lock, into the buffer or with do_write, Unlock.
caml_output(t) ==
  LET c == Top(t).x IN
  /\ \/ At(t, "io", "lock") /\ stk' = Call(t, "body", F("iolock", "ebs_read", c)) /\ UNCHANGED << thr, chan >>
     \/ At(t, "io", "body") /\ stk' = Goto(t, "unlock") /\ UNCHANGED << thr, chan >>
     \/ At(t, "io", "body") /\ stk' = Call(t, "unlock", F("write", "ebs_read", 0)) /\ UNCHANGED << thr, chan >>
     \/ At(t, "io", "unlock") /\ stk' = Pop(t)
        /\ chan' = [chan EXCEPT ![c] = none] /\ thr' = [thr EXCEPT ![t].last = none]
  /\ UNCHANGED << master, rt, sig >> /\ Others

\* do_write: interrupted system calls are done again, errors are raised.
do_write(t) ==
  \/ /\ At(t, "write", "blocked")
     /\ \E r \in {"ok", "EINTR", "error"} :
          stk' = [stk EXCEPT ![t][Len(stk[t])] = [@ EXCEPT !.pc = "lbs_hook", !.x = r]]
     /\ UNCHANGED << master, rt, thr, chan, sig >> /\ Others
  \/ /\ At(t, "write", "return") /\ Top(t).x # "error"
     /\ stk' = IF Top(t).x = "EINTR" THEN Goto(t, "ebs_read") ELSE Pop(t)
     /\ UNCHANGED << master, rt, thr, chan, sig >> /\ Others
  \/ At(t, "write", "return") /\ Top(t).x = "error" /\ mlraise(t, thr)

\* Mutex.lock, unlock and try_lock.
caml_mutex(t) ==
  /\ \/ At(t, "lock", "blocked") /\ mut = none /\ mut' = t /\ stk' = Goto(t, "lbs_hook") /\ UNCHANGED budget
     \/ At(t, "unlock", "blocked") /\ mut' = none /\ stk' = Goto(t, "lbs_hook") /\ UNCHANGED budget
     \/ Running(t) /\ Top(t).x # VTALRM /\ budget.ops > 0 /\ mut = none /\ mut' = t
        /\ budget' = [budget EXCEPT !.ops = @ - 1] /\ UNCHANGED stk
  /\ UNCHANGED << master, rt, thr, chan, sig, next, prev, status, joining, cond, tick >>

\* Condition.wait: the mutex is released and, on waking up (when signalled
\* or spuriously), taken again.
caml_condition_wait(t) ==
  /\ \/ At(t, "cwait", "blocked") /\ mut' = none /\ cond' = cond \cup {t} /\ stk' = Goto(t, "waiting")
     \/ At(t, "cwait", "waiting") /\ mut = none /\ mut' = t /\ stk' = Goto(t, "lbs_hook")
        /\ t \notin cond /\ UNCHANGED cond
     \/ At(t, "cwait", "waiting") /\ t \in cond /\ cond' = cond \ {t} /\ UNCHANGED << mut, stk >>
  /\ UNCHANGED << master, rt, thr, chan, sig, next, prev, status, joining, tick, budget >>

\* Condition.signal and Condition.broadcast.
caml_condition_signal(t) ==
  /\ At(t, "csignal", "blocked") /\ stk' = Goto(t, "lbs_hook")
  /\ \E W \in (IF Top(t).x THEN {cond} ELSE IF cond = {} THEN {{}} ELSE {{u} : u \in cond}) :
       cond' = cond \ W
  /\ UNCHANGED << master, rt, thr, chan, sig, next, prev, status, joining, mut, tick, budget >>

-----------------------------------------------------------------------------
(* Threads: creation, termination, join.                                   *)

\* Mutated form: the back link of the next descriptor is not set.
caml_thread_new_oneway(t) ==
  /\ Running(t) /\ Top(t).x = 0
  /\ \E u \in Threads :
       /\ thr[u].st = "unborn" /\ \A w \in Threads : thr[w].st = "unborn" => u <= w
       /\ thr' = [thr EXCEPT ![u].st = "forked"]
       /\ next' = [next EXCEPT ![u] = next[rt.curr_thread], ![rt.curr_thread] = u]
       /\ prev' = [prev EXCEPT ![u] = rt.curr_thread]
       /\ stk' = [stk EXCEPT ![u] = << F("start", "lbs_hook", 0) >>]
  /\ UNCHANGED << master, rt, status, joining, chan, mut, cond, tick, budget, sig >>

caml_thread_new(t) ==
  /\ Running(t) /\ Top(t).x = 0
  /\ \E u \in Threads :
       /\ thr[u].st = "unborn" /\ \A w \in Threads : thr[w].st = "unborn" => u <= w
       /\ thr' = [thr EXCEPT ![u].st = "forked"]
       /\ next' = [next EXCEPT ![u] = next[rt.curr_thread], ![rt.curr_thread] = u]
       /\ prev' = [prev EXCEPT ![u] = rt.curr_thread, ![next[rt.curr_thread]] = u]
       /\ stk' = [stk EXCEPT ![u] = << F("start", "lbs_hook", 0) >>]
  /\ UNCHANGED << master, rt, status, joining, chan, mut, cond, tick, budget, sig >>

\* The fork fails: the block is taken off the list and Sys_error raised.
caml_thread_new_fails(t) ==
  /\ Running(t) /\ Top(t).x = 0
  /\ \E u \in Threads :
       /\ thr[u].st = "unborn"
       /\ LET c == rt.curr_thread
              p1 == [prev EXCEPT ![u] = c, ![next[c]] = u]
              n1 == [next EXCEPT ![u] = next[c], ![c] = u]
          IN  /\ prev' = [p1 EXCEPT ![n1[u]] = c, ![u] = prev[u]]
              /\ next' = [n1 EXCEPT ![c] = n1[u], ![u] = next[u]]
  /\ stk' = Goto(t, "exn")
  /\ UNCHANGED << master, rt, thr, status, joining, chan, mut, cond, tick, budget, sig >>

\* caml_thread_start: the callback, once the master lock is taken ...
caml_thread_start(t) ==
  /\ At(t, "start", "return")
  /\ stk' = [stk EXCEPT ![t] = << F("ml", "run", 0) >>]
  /\ rt' = Depth(rt.regs[2] + 1)
  /\ thr' = [thr EXCEPT ![t].st = "running"]
  /\ UNCHANGED << master, chan, sig >> /\ Others

\* ... its return, normal or not (Thread.create catches all exceptions) ...
caml_thread_returns(t) ==
  /\ t # Main /\ Top(t).op = "ml" /\ Top(t).x = 0 /\ Top(t).pc \in {"run", "exn"}
  /\ stk' = [stk EXCEPT ![t] = << F("end", "terminate", 0) >>]
  /\ rt' = Depth(rt.regs[2] - 1)
  /\ UNCHANGED << master, thr, chan, sig >> /\ Others

\* Mutated form: async_signal_mode is set before the termination is announced.
caml_threadstatus_terminate_async(t) ==
  /\ \/ At(t, "end", "terminate") /\ status' = [status EXCEPT ![t] = "TERMINATED"]
        /\ stk' = Goto(t, "broadcast") /\ rt' = [rt EXCEPT !.async_signal_mode = 1] /\ UNCHANGED joining
     \/ At(t, "end", "broadcast") /\ joining' = [joining EXCEPT ![t] = {}]
        /\ stk' = Goto(t, "unlink") /\ UNCHANGED << rt, status >>
  /\ UNCHANGED << master, thr, next, prev, chan, mut, cond, tick, budget, sig >>

\* ... and what follows it.
caml_threadstatus_terminate(t) ==
  /\ \/ At(t, "end", "terminate") /\ status' = [status EXCEPT ![t] = "TERMINATED"]
        /\ stk' = Goto(t, "broadcast") /\ UNCHANGED joining
     \/ At(t, "end", "broadcast") /\ joining' = [joining EXCEPT ![t] = {}]
        /\ stk' = Goto(t, "unlink") /\ UNCHANGED status
  /\ UNCHANGED << master, rt, thr, next, prev, chan, mut, cond, tick, budget, sig >>

\* Mutated form: the thread stops and is not recorded as gone.
caml_thread_end_forgotten(t) ==
  /\ \/ /\ At(t, "end", "unlink")
        /\ prev' = [prev EXCEPT ![next[t]] = prev[t]]
        /\ next' = [next EXCEPT ![prev[t]] = next[t]]
        /\ rt' = [rt EXCEPT !.async_signal_mode = 1]
        /\ thr' = [thr EXCEPT ![t].st = "unlinked"]
        /\ stk' = Goto(t, "release")
        /\ UNCHANGED master
     \/ /\ At(t, "end", "release")
        /\ master' = none
        /\ UNCHANGED thr
        /\ stk' = [stk EXCEPT ![t] = << >>]
        /\ UNCHANGED << rt, next, prev >>
  /\ UNCHANGED << status, joining, chan, mut, cond, tick, budget, sig >>

caml_thread_end(t) ==
  /\ \/ /\ At(t, "end", "unlink")
        /\ prev' = [prev EXCEPT ![next[t]] = prev[t]]
        /\ next' = [next EXCEPT ![prev[t]] = next[t]]
        /\ rt' = [rt EXCEPT !.async_signal_mode = 1]
        /\ thr' = [thr EXCEPT ![t].st = "unlinked"]
        /\ stk' = Goto(t, "release")
        /\ UNCHANGED master
     \/ /\ At(t, "end", "release")
        /\ master' = none
        /\ thr' = [thr EXCEPT ![t].st = "dead"]
        /\ stk' = [stk EXCEPT ![t] = << >>]
        /\ UNCHANGED << rt, next, prev >>
  /\ UNCHANGED << status, joining, chan, mut, cond, tick, budget, sig >>

\* Mutated form: the status is not tested again.
caml_threadstatus_wait_if(t) ==
  LET u == Top(t).x IN
  /\ \/ At(t, "join", "blocked") /\ status[u] # "TERMINATED"
        /\ joining' = [joining EXCEPT ![u] = @ \cup {t}] /\ stk' = Goto(t, "waiting")
     \/ At(t, "join", "blocked") /\ status[u] = "TERMINATED"
        /\ stk' = Goto(t, "lbs_hook") /\ UNCHANGED joining
     \/ At(t, "join", "waiting") /\ t \notin joining[u]
        /\ stk' = Goto(t, "lbs_hook") /\ UNCHANGED joining
     \/ At(t, "join", "waiting") /\ t \in joining[u]
        /\ joining' = [joining EXCEPT ![u] = @ \ {t}] /\ UNCHANGED stk
  /\ UNCHANGED << master, rt, thr, next, prev, status, chan, mut, cond, tick, budget, sig >>

\* caml_threadstatus_wait: the status is tested again after each wake-up.
caml_threadstatus_wait(t) ==
  LET u == Top(t).x IN
  /\ \/ At(t, "join", "blocked") /\ status[u] # "TERMINATED"
        /\ joining' = [joining EXCEPT ![u] = @ \cup {t}] /\ stk' = Goto(t, "waiting")
     \/ At(t, "join", "blocked") /\ status[u] = "TERMINATED"
        /\ stk' = Goto(t, "lbs_hook") /\ UNCHANGED joining
     \/ At(t, "join", "waiting") /\ t \notin joining[u]
        /\ stk' = Goto(t, "blocked") /\ UNCHANGED joining
     \/ At(t, "join", "waiting") /\ t \in joining[u]
        /\ joining' = [joining EXCEPT ![u] = @ \ {t}] /\ UNCHANGED stk
  /\ UNCHANGED << master, rt, thr, next, prev, status, chan, mut, cond, tick, budget, sig >>

\* caml_thread_scan_roots: the descriptors met from t on, until one is met
\* again.
RECURSIVE caml_thread_scan_roots(_, _)
caml_thread_scan_roots(t, seen) == IF t \in seen THEN seen ELSE caml_thread_scan_roots(next[t], seen \cup {t})

-----------------------------------------------------------------------------

Step(t) ==
  \/ ebs_read(t) \/ ebs_clear(t) \/ ebs_async(t) \/ ebs_test(t)
  \/ caml_thread_enter_blocking_section(t) \/ caml_thread_leave_blocking_section(t)
  \/ leave_blocking_section(t)
  \/ execute_signal(t) \/ execute_signal_end(t) \/ execute_signal_exn(t) \/ handle_signal_exec(t)
  \/ process_event(t) \/ preempt(t) \/ Ml_return(t) \/ Ml_raise(t) \/ Ml_catch(t) \/ Ml_fails(t)
  \/ Ml_call(t) \/ Returns(t) \/ caml_thread_yield(t)
  \/ caml_io_mutex_lock(t) \/ caml_output(t) \/ do_write(t)
  \/ caml_mutex(t) \/ caml_condition_wait(t) \/ caml_condition_signal(t)
  \/ caml_thread_new(t) \/ caml_thread_new_fails(t) \/ caml_thread_start(t) \/ caml_thread_returns(t)
  \/ caml_threadstatus_terminate(t) \/ caml_thread_end(t) \/ caml_threadstatus_wait(t)

Next == caml_thread_tick \/ \E t \in {u \in Threads : stk[u] # << >>} : Step(t) \/ handle_signal(t)

Spec == Init /\ [][Next]_vars

-----------------------------------------------------------------------------
(* Properties                                                              *)

TypeOK ==
  /\ master \in Threads \cup {none}
  /\ rt.curr_thread \in Threads /\ rt.async_signal_mode \in {0, 1} /\ rt.something_to_do \in {0, 1}
  /\ rt.pending_signal \in {0, VTALRM, USR}
  /\ chan \in [Chans -> Threads \cup {none}] /\ mut \in Threads \cup {none}
  /\ \A t \in Threads : /\ thr[t].st \in {"unborn", "forked", "running", "unlinked", "dead"}
                        /\ thr[t].last \in Chans \cup {none}
                        /\ (stk[t] = << >>) = (thr[t].st \in {"unborn", "dead"})

\* While a collection may happen - the lock is held outside a blocking
\* section - caml_thread_scan_roots, which walks the list from curr_thread,
\* reaches exactly the live threads, the registers hold the stack of the
\* runner, and the descriptor of every other thread holds all of its stack.
RootsComplete ==
  (master # none /\ rt.async_signal_mode = 0) =>
    /\ rt.curr_thread = master
    /\ rt.regs = Context(master)
    /\ caml_thread_scan_roots(rt.curr_thread, {}) = {t \in Threads : Live(t)}
    /\ \A t \in Threads : Live(t) => next[prev[t]] = t /\ prev[next[t]] = t
    /\ \A t \in Threads \ {master} : Live(t) => thr[t].saved = Context(t)

\* Caml code, and C code outside a blocking section, is run by the holder
\* of the master lock only, with asynchronous signals off; when nobody holds
\* the lock they are on.
InBlockingSection(t) == Top(t).pc \in {"blocked", "waiting", "locked", "lbs_hook"}
MasterLockHeld ==
  /\ master = none => rt.async_signal_mode = 1
  /\ \A t \in Threads : stk[t] # << >> =>
       /\ ~InBlockingSection(t) => master = t
       /\ Top(t).op \in {"ml", "io", "exec", "event"} => rt.async_signal_mode = 0

\* A thread waits for the master lock it holds itself only when a signal
\* came in one of the instructions where async_signal_mode is already (or
\* still) 1 and the lock is held.
SelfDeadlockOnlyInWindows ==
  \A t \in Threads : (master = t /\ Top(t).pc = "lbs_hook") => t \in sig.hit

\* Every signal sent is run once, is waiting to be run, or was overwritten
\* in pending_signal before it was read there.
Waiting ==
  sig.unread + Cardinality({<< t, i >> \in Threads \X (1..8) : i \in DOMAIN stk[t] /\
                  LET f == stk[t][i] IN
                  \/ f.pc = "ebs_clear" /\ f.temp = USR
                  \/ f.op = "async" /\ f.pc \in {"lbs_hook", "lbs_async", "return"}
                  \/ f.op = "exec" /\ f.pc = "block" /\ f.x.s = USR})
SignalsAccounted == sig.sent = sig.run + sig.lost + Waiting

\* A pending signal is noticed: the interpreter tests something_to_do.
PendingNoticed ==
  \A t \in Threads : (stk[t] # << >> /\ Running(t) /\ rt.pending_signal # 0) => rt.something_to_do = 1

\* Whatever way the handlers of a thread end, a signal is blocked in it only
\* while its handler runs; except that the exception of a pending signal,
\* executed by the enter_blocking_section of handle_signal, leaves the signal
\* of handle_signal blocked (stuck).
MaskRestored ==
  \A t \in Threads : stk[t] # << >> /\ Top(t).op = "ml" => thr[t].mask = MaskOf(stk[t]) \cup {s \in {USR} : << s, t >> \in sig.stuck}

\* A channel's lock is held by the thread that is writing to the channel, and
\* by nobody else, until an exception is raised in C by a handler that
\* interrupts the output (freed), or an exception leaves an output whose
\* channel is not yet, or because of a handler's own output no longer, the
\* last one locked (leaked): in a program whose handlers have not run, an
\* output that fails always gives its channel back.
ChannelLocks ==
  sig.freed = {} =>
    \A c \in Chans :
      /\ \A t \in Threads : (stk[t] # << >> /\ \E i \in DOMAIN stk[t] :
            stk[t][i].op = "io" /\ stk[t][i].x = c /\ stk[t][i].pc \in {"body", "unlock"}
            /\ ~ (i < Len(stk[t]) /\ stk[t][i + 1].op = "iolock")) => chan[c] = t
      /\ chan[c] # none => \/ << chan[c], c >> \in sig.leaked
                           \/ Using(stk[chan[c]], c)

\* A thread that has joined another continues after the other's termination,
\* also when it is woken up spuriously, and no thread is left waiting for one
\* that is gone.
JoinExact ==
  /\ \A t \in Threads : stk[t] # << >> /\ Top(t).op = "join" /\ Top(t).pc \in {"lbs_async", "return"}
                          => status[Top(t).x] = "TERMINATED"
  /\ \A t \in Threads : thr[t].st = "dead" => joining[t] = {}

\* The thread that runs Caml code holds the master lock, and waits for a lock
\* that it holds itself only where a signal fell in a window of the section.
MasterLock == TypeOK /\ MasterLockHeld /\ SelfDeadlockOnlyInWindows

\* No signal is handled twice or forgotten outside those windows, a pending one
\* is noticed, and a handler's end restores the mask.
SignalsHandled == SignalsAccounted /\ PendingNoticed /\ MaskRestored

\* A channel is locked by the thread that uses it and by no other, and a join
\* returns when its thread has ended.
LocksAndJoins == ChannelLocks /\ JoinExact

=============================================================================
