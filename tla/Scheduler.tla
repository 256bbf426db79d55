----------------------------- MODULE Scheduler ------------------------------
(***************************************************************************)
(* The scheduler of the bytecode threads (otherlibs/threads/scheduler.c).  *)
(* All threads share one system thread: the running thread goes on until   *)
(* it calls a primitive that blocks, or the timer asks for a reschedule.   *)
(* schedule_thread then looks for a thread to run, with select if some     *)
(* thread waits for a descriptor.                                          *)
(*                                                                         *)
(* Time is abstract: a delay expires at some later moment.  So are the     *)
(* descriptors and the child processes, which belong to the environment.   *)
(***************************************************************************)
EXTENDS Integers, FiniteSets, SequencesExt

CONSTANTS
  Threads, Main,   \* the thread descriptors, and the initial thread's
  Fds, Pids,       \* file descriptors and child processes
  Programs         \* programs, as the sets of the primitives they call and
                   \* of the descriptors they use

ASSUME ThreadsAssumption == Main \in Threads /\ Programs \subseteq SUBSET (STRING \cup Fds)

\* A status is the set of things the thread is blocked on; the code has one
\* bit for each.
RUNNABLE  == {}
KILLED    == {"killed"}
SUSPENDED == {"suspended"}
NONE      == "none"

VARIABLES
  ring,            \* the threads in the order of FOREACH_THREAD; the last
                   \* one is the thread that runs
  curr_thread,
  status, fd, readfds, writefds, joining, waitpid,
  callback_depth,  \* 1, or 2 inside a callback
  scheduling,      \* the running thread is inside schedule_thread
  expired,         \* the threads whose delay is over
  readable, writable, closed,   \* the state of the descriptors
  exited, reaped,               \* the child processes
  uses             \* the program that runs

thread   == <<status, fd, readfds, writefds, joining, waitpid>>
descrs   == <<readable, writable, closed>>
children == <<exited, reaped>>
env      == <<descrs, children, uses>>
vars == <<ring, curr_thread, thread, callback_depth, scheduling, expired, env>>

NoThread == [t \in Threads |-> NONE]

Init ==
  /\ ring = <<Main>> /\ curr_thread = Main
  /\ status = [t \in Threads |-> IF t = Main THEN RUNNABLE ELSE {"new"}]
  /\ fd = [t \in Threads |-> CHOOSE f \in Fds : TRUE]
  /\ readfds = [t \in Threads |-> {}] /\ writefds = [t \in Threads |-> {}]
  /\ joining = NoThread /\ waitpid = NoThread
  /\ callback_depth = 1 /\ scheduling = FALSE /\ expired = {}
  /\ readable = {} /\ writable = {} /\ closed = {}
  /\ exited = {} /\ reaped = {}
  /\ uses \in Programs

-----------------------------------------------------------------------------
(* The primitives of the running thread.                                   *)

\* The running thread is in the program, and the program calls p.
Calls(p) == p \in uses /\ ~ scheduling

\* check_callback: a thread that blocks inside a callback is a fatal error.
Blocks(p) == Calls(p) /\ callback_depth = 1

thread_new(t) ==
  /\ Calls("new") /\ status[t] = {"new"}
  /\ status' = [status EXCEPT ![t] = RUNNABLE]
  /\ ring' = InsertAt(ring, Len(ring), t)
  /\ UNCHANGED <<curr_thread, fd, readfds, writefds, joining, waitpid,
                 callback_depth, scheduling, expired, env>>

\* thread_yield, and thread_reschedule at the timer's request.  Inside a
\* callback schedule_thread returns at once.
thread_yield ==
  /\ Blocks("yield")
  /\ scheduling' = TRUE
  /\ UNCHANGED <<ring, curr_thread, thread, callback_depth, expired, env>>

\* What the blocking primitives have in common.
block(s) ==
  /\ status' = [status EXCEPT ![curr_thread] = s]
  /\ scheduling' = TRUE
  /\ expired' = expired \ {curr_thread}
  /\ UNCHANGED <<ring, curr_thread, callback_depth, env>>

thread_sleep ==
  /\ Blocks("sleep")
  /\ block(SUSPENDED)
  /\ UNCHANGED <<fd, readfds, writefds, joining, waitpid>>

thread_wait_rw(kind, f) ==
  /\ Blocks(kind)
  /\ block({kind})
  /\ fd' = [fd EXCEPT ![curr_thread] = f]
  /\ UNCHANGED <<readfds, writefds, joining, waitpid>>

thread_wait_timed_rw(kind, f) ==
  /\ Blocks("timed") /\ kind \in uses
  /\ block({kind, "delay"})
  /\ fd' = [fd EXCEPT ![curr_thread] = f]
  /\ UNCHANGED <<readfds, writefds, joining, waitpid>>

thread_select(R, W, timed) ==
  /\ Blocks("select") /\ R \cup W # {} /\ (timed => "timed" \in uses)
  /\ block({"select"} \cup (IF timed THEN {"delay"} ELSE {}))
  /\ readfds' = [readfds EXCEPT ![curr_thread] = R]
  /\ writefds' = [writefds EXCEPT ![curr_thread] = W]
  /\ UNCHANGED <<fd, joining, waitpid>>

thread_delay ==
  /\ Blocks("delay")
  /\ block({"delay"})
  /\ UNCHANGED <<fd, readfds, writefds, joining, waitpid>>

\* Joining a thread that is dead already returns at once.
thread_join(t) ==
  /\ Blocks("join") /\ status[t] \notin {{"new"}, KILLED}
  /\ block({"join"})
  /\ joining' = [joining EXCEPT ![curr_thread] = t]
  /\ UNCHANGED <<fd, readfds, writefds, waitpid>>

thread_wait_pid(p) ==
  /\ Blocks("wait")
  /\ block({"wait"})
  /\ waitpid' = [waitpid EXCEPT ![curr_thread] = p]
  /\ UNCHANGED <<fd, readfds, writefds, joining>>

\* On a thread that is not suspended it fails, and changes nothing.
thread_wakeup(t) ==
  /\ Calls("wakeup") /\ status[t] = SUSPENDED
  /\ status' = [status EXCEPT ![t] = RUNNABLE]
  /\ UNCHANGED <<ring, curr_thread, fd, readfds, writefds, joining, waitpid,
                 callback_depth, scheduling, expired, env>>

\* Mutated form: the other thread stays in the list.
thread_kill_linked(t) ==
  /\ Calls("kill") /\ status[t] \notin {{"new"}, KILLED} /\ Len(ring) > 1
  /\ status' = [status EXCEPT ![t] = KILLED]
  /\ scheduling' = (t = curr_thread /\ callback_depth = 1) /\ UNCHANGED ring
  /\ UNCHANGED <<curr_thread, fd, readfds, writefds, joining, waitpid,
                 callback_depth, expired, env>>

\* Another thread is taken out of the ring at once.  The running thread first
\* runs schedule_thread, except that inside a callback that does nothing.
thread_kill(t) ==
  /\ Calls("kill") /\ status[t] \notin {{"new"}, KILLED} /\ Len(ring) > 1
  /\ status' = [status EXCEPT ![t] = KILLED]
  /\ IF t = curr_thread /\ callback_depth = 1
     THEN scheduling' = TRUE /\ UNCHANGED ring
     ELSE ring' = Remove(ring, t) /\ UNCHANGED scheduling
  /\ UNCHANGED <<curr_thread, fd, readfds, writefds, joining, waitpid,
                 callback_depth, expired, env>>

\* A callback from C to Caml (a finaliser, a signal handler) and its return.
callback ==
  /\ Calls("callback")
  /\ callback_depth' = 3 - callback_depth
  /\ UNCHANGED <<ring, curr_thread, thread, scheduling, expired, env>>

-----------------------------------------------------------------------------
(* schedule_thread.                                                        *)

FirstIn(T) == LET i == SelectInSeq(ring, LAMBDA t : t \in T)
              IN  IF i = 0 THEN NONE ELSE ring[i]

Ring == ToSet(ring)

\* The descriptors given to select.
ReadSet  == {fd[t] : t \in {u \in Ring : "read" \in status[u]}}
              \cup UNION {readfds[t] : t \in {u \in Ring : "select" \in status[u]}}
WriteSet == {fd[t] : t \in {u \in Ring : "write" \in status[u]}}
              \cup UNION {writefds[t] : t \in {u \in Ring : "select" \in status[u]}}

\* The first loop: delays, joins and waits that are over.  waitpid gives each
\* dead child to the first thread that asks for it; for a child that has been
\* given already it fails, which the code takes for a child still alive.
Timeout(t) == "delay" \in status[t] /\ t \in expired

\* Mutated form: the thread joined is not looked at.
Joined_any(t) == "join" \in status[t]
Joined(t) == "join" \in status[t] /\ status[joining[t]] = KILLED

\* Mutated form: a result 0, for a child still alive, counts as a success.
Waited_alive(t) == "wait" \in status[t] /\ waitpid[t] \notin reaped
Waited(t) ==
  /\ "wait" \in status[t] /\ waitpid[t] \in exited \ reaped
  /\ t = FirstIn({u \in Threads : "wait" \in status[u] /\ waitpid[u] = waitpid[t]})

poll_status == [t \in Threads |->
  IF t \in Ring /\ (Timeout(t) \/ Joined(t) \/ Waited(t)) THEN RUNNABLE ELSE status[t]]

first_runnable == FirstIn({t \in Threads : poll_status[t] = RUNNABLE})

\* Mutated form: no select while some thread can run.
need_select_idle == /\ first_runnable = NONE
                    /\ \E t \in Ring : status[t] \cap {"read", "write", "select"} # {}
need_select == \E t \in Ring : status[t] \cap {"read", "write", "select"} # {}

\* The second loop, over the threads in order: r and w are what is left of the
\* sets that select returned, n of the count, run the thread to run.  A thread
\* that waits to write takes its descriptor out of r too, not out of w.
wake_rw(s, t) ==
  [s EXCEPT !.st[t] = RUNNABLE, !.r = @ \ {fd[t]}, !.n = @ - 1,
            !.run = IF @ = NONE THEN t ELSE @]

\* Mutated forms: every ready descriptor counts, the thread's own or not; the
\* status is not updated.
wake_select_any(s, t) ==
  IF s.r \cup s.w = {} THEN s
  ELSE [s EXCEPT !.st[t] = RUNNABLE, !.n = @ - 1,
                 !.run = IF @ = NONE THEN t ELSE @]
wake_select_blocked(s, t) ==
  IF (readfds[t] \cap s.r) \cup (writefds[t] \cap s.w) = {} THEN s
  ELSE [s EXCEPT !.run = IF @ = NONE THEN t ELSE @]
wake_select(s, t) ==
  LET R == readfds[t] \cap s.r
      W == writefds[t] \cap s.w
  IN  IF R \cup W = {} THEN s
      ELSE [s EXCEPT !.st[t] = RUNNABLE, !.r = @ \ R, !.w = @ \ W,
                     !.n = @ - Cardinality(R) - Cardinality(W),
                     !.run = IF @ = NONE THEN t ELSE @]

wake(s, t) ==
  IF s.n <= 0 THEN s
  ELSE IF \/ "read" \in s.st[t] /\ fd[t] \in s.r
          \/ "write" \in s.st[t] /\ fd[t] \in s.w
  THEN wake_rw(s, t)
  ELSE IF "select" \in s.st[t] THEN wake_select(s, t) ELSE s

\* When a descriptor is closed select fails with EBADF and leaves its sets as
\* they were given, and every descriptor in them counts as ready.
bad == (ReadSet \cup WriteSet) \cap closed # {}

selected ==
  LET R == IF bad THEN ReadSet ELSE ReadSet \cap readable
      W == IF bad THEN WriteSet ELSE WriteSet \cap writable
      n == IF bad THEN 2 * Cardinality(Fds) + Cardinality(Threads)
           ELSE Cardinality(R) + Cardinality(W)
      after[i \in 0 .. Len(ring)] ==
        IF i = 0
        THEN [st |-> poll_status, r |-> R, w |-> W, n |-> n, run |-> first_runnable]
        ELSE CHOOSE s \in {wake(x, ring[i]) : x \in {after[i - 1]}} : TRUE
  IN  after[Len(ring)]

\* Mutated form: every search starts from the same thread.
Rotated_fixed(run) ==
  IF status[curr_thread] = KILLED THEN Remove(ring, curr_thread) ELSE ring

\* The ring after run_thread's, without the thread that has killed itself.
Rotated(run) ==
  LET i == SelectInSeq(ring, LAMBDA t : t = run)
      r == SubSeq(ring, i + 1, Len(ring)) \o SubSeq(ring, 1, i)
  IN  IF status[curr_thread] = KILLED THEN Remove(r, curr_thread) ELSE r

polled == [st |-> poll_status, run |-> first_runnable]

\* With nothing to run and no descriptor ready, select blocks until a signal,
\* a delay or the poll of a wait, and everything is looked at again.  A signal
\* can also interrupt the select that polls while some thread can run.
schedule_thread ==
  /\ scheduling
  /\ \E s \in {IF need_select THEN selected ELSE polled}
               \cup (IF "signal" \in uses THEN {polled} ELSE {}) :
         /\ s.run # NONE
         /\ status' = s.st
         /\ curr_thread' = s.run /\ ring' = Rotated(s.run)
         /\ readfds' = [readfds EXCEPT ![s.run] = {}]
         /\ writefds' = [writefds EXCEPT ![s.run] = {}]
         /\ joining' = [joining EXCEPT ![s.run] = NONE]
         /\ waitpid' = [waitpid EXCEPT ![s.run] = NONE]
         /\ expired' = expired \ {s.run}
  /\ reaped' = reaped \cup {waitpid[t] : t \in {u \in Ring : Waited(u)}}
  /\ scheduling' = FALSE
  /\ UNCHANGED <<fd, callback_depth, descrs, exited, uses>>
-----------------------------------------------------------------------------
(* The environment: time, descriptors and child processes.                 *)

expire(t) ==
  /\ "delay" \in status[t] /\ t \notin expired
  /\ expired' = expired \cup {t}
  /\ UNCHANGED <<ring, curr_thread, thread, callback_depth, scheduling, env>>

\* A descriptor becomes ready, by itself, or no longer is, when the running
\* thread uses it.
ready(f) ==
  /\ \/ "read" \in uses /\ readable' = readable \cup {f} /\ UNCHANGED writable
     \/ "write" \in uses /\ writable' = writable \cup {f} /\ UNCHANGED readable
  /\ UNCHANGED <<ring, curr_thread, thread, callback_depth, scheduling, expired,
                 closed, children, uses>>

use(f) ==
  /\ ~ scheduling
  /\ \/ readable' = readable \ {f} /\ UNCHANGED writable
     \/ writable' = writable \ {f} /\ UNCHANGED readable
  /\ UNCHANGED <<ring, curr_thread, thread, callback_depth, scheduling, expired,
                 closed, children, uses>>

close(f) ==
  /\ Calls("close")
  /\ closed' = closed \cup {f}
  /\ UNCHANGED <<ring, curr_thread, thread, callback_depth, scheduling, expired,
                 readable, writable, children, uses>>

exit(p) ==
  /\ "wait" \in uses
  /\ exited' = exited \cup {p}
  /\ UNCHANGED <<ring, curr_thread, thread, callback_depth, scheduling, expired,
                 descrs, reaped, uses>>

Next ==
  \/ thread_yield \/ thread_sleep \/ thread_delay \/ callback
  \/ \E t \in Threads : \/ thread_new(t) \/ thread_join(t) \/ thread_wakeup(t)
                        \/ thread_kill(t) \/ expire(t)
  \/ \E f \in Fds \cap uses, kind \in {"read", "write"} :
       thread_wait_rw(kind, f) \/ thread_wait_timed_rw(kind, f)
  \/ \E R, W \in SUBSET (Fds \cap uses), timed \in BOOLEAN : thread_select(R, W, timed)
  \/ \E p \in Pids : thread_wait_pid(p) \/ exit(p)
  \/ \E f \in Fds \cap uses : ready(f) \/ use(f) \/ close(f)
  \/ schedule_thread

\* The scheduler runs when it can; the timer interrupts a thread that runs on;
\* time passes.
Fairness ==
  /\ WF_vars(schedule_thread) /\ WF_vars(thread_yield)
  /\ \A t \in Threads : WF_vars(expire(t))

Spec == Init /\ [][Next]_vars
FairSpec == Spec /\ Fairness

-----------------------------------------------------------------------------
(* Properties.                                                             *)

Statuses == {RUNNABLE, KILLED, SUSPENDED, {"new"}, {"delay"}, {"join"}, {"wait"}}
              \cup {S \cup T : S \in {{"read"}, {"write"}, {"select"}}, T \in {{}, {"delay"}}}

\* The state's type: a thread is blocked on one of the combinations of bits that
\* the primitives of scheduler.c set, and on nothing else.
TypeOK ==
  /\ ring \in Seq(Threads) /\ curr_thread \in Threads
  /\ status \in [Threads -> Statuses] /\ fd \in [Threads -> Fds]
  /\ readfds \in [Threads -> SUBSET Fds] /\ writefds \in [Threads -> SUBSET Fds]
  /\ joining \in [Threads -> Threads \cup {NONE}]
  /\ waitpid \in [Threads -> Pids \cup {NONE}]
  /\ callback_depth \in 1 .. 2 /\ scheduling \in BOOLEAN
  /\ expired \subseteq Threads
  /\ reaped \subseteq exited

\* The ring holds each living thread once, and the thread that runs is one of
\* them and can run.  thread_kill frees the stack of the thread it takes out.
RingExact ==
  /\ Cardinality(Ring) = Len(ring)
  /\ curr_thread \in Ring
  /\ ~ scheduling => status[curr_thread] = RUNNABLE
  /\ \A t \in Threads : t \in Ring <=>
       \/ status[t] \notin {KILLED, {"new"}}
       \/ scheduling /\ t = curr_thread /\ status[t] = KILLED

\* The ring and the statuses of its threads, well typed.
RingSound == TypeOK /\ RingExact

\* The descriptors a thread waits for.
WaitsOn(t) ==
  (IF status[t] \cap {"read", "write"} # {} THEN {fd[t]} ELSE {})
    \cup (IF "select" \in status[t] THEN readfds[t] \cup writefds[t] ELSE {})

\* What a thread was blocked on has happened, or one of its own descriptors is
\* closed.
Reason(t) ==
  \/ status[t] = {"new"}
  \/ status[t] = SUSPENDED /\ ~ scheduling
  \/ "delay" \in status[t] /\ t \in expired
  \/ "join" \in status[t] /\ status[joining[t]] = KILLED
  \/ "wait" \in status[t] /\ waitpid[t] \in exited
  \/ "read" \in status[t] /\ fd[t] \in readable
  \/ "write" \in status[t] /\ fd[t] \in writable
  \/ "select" \in status[t] /\ (readfds[t] \cap readable) \cup (writefds[t] \cap writable) # {}
  \/ WaitsOn(t) \cap closed # {}

Resumes(t) == status[t] # RUNNABLE /\ status'[t] = RUNNABLE

\* What the comment at scheduler.c:401 says of a closed descriptor ("wake up the
\* threads waiting on it"), and the documentation of wait_read, wait_write, join,
\* delay and sleep of the rest: a blocked thread becomes runnable only when what it
\* was blocked on has happened.
WokenForOwnReason == [][\A t \in Threads : Resumes(t) => Reason(t)]_vars

\* What schedule_thread does: the same, except that when select fails on a closed
\* descriptor, whichever thread it belongs to, the loop may resume any thread that
\* waits for some descriptor.
WokenForReason ==
  [][\A t \in Threads : Resumes(t) => Reason(t) \/ (bad /\ WaitsOn(t) # {})]_vars

\* The timer preempts the program, which is not inside a callback for ever.
Preempted == "yield" \in uses /\ "callback" \notin uses

\* A runnable thread is run, whatever the others do: the search starts after
\* the thread that ran last, and new threads are put before it.
RunnableRuns ==
  \A t \in Threads :
    Preempted /\ status[t] = RUNNABLE ~> curr_thread = t \/ status[t] = KILLED

\* No thread waits for ever for something that has happened and stays so.
ReadyResumes ==
  \A t \in Threads :
    []<>~ (/\ Preempted
           /\ \/ "delay" \in status[t]
              \/ "join" \in status[t] /\ status[joining[t]] = KILLED
              \/ "read" \in status[t] /\ fd[t] \in readable
              \/ "write" \in status[t] /\ fd[t] \in writable)
=============================================================================
