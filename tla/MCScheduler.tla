---------------------------- MODULE MCScheduler -----------------------------
(* Three threads, and programs that between them call every primitive.     *)
EXTENDS Scheduler

CONSTANTS m, a, b, f, g, p

Three   == {m, a, b}
TwoFds  == {f, g}
OnePid  == {p}

FairProgram   == {"new", "yield", "sleep", "wakeup", "delay", "join", "kill", "read", f}
SelectProgram == {"new", "write", "select", "close", "signal", f}
TimedProgram  == {"new", "write", "timed", "close", "signal", f}
CloseProgram  == {"new", "write", "close", f, g}
WaitProgram   == {"new", "write", "wait", "callback", f}
OnlyClose  == {CloseProgram}
MCPrograms == {FairProgram, SelectProgram, TimedProgram, CloseProgram, WaitProgram}
=============================================================================
