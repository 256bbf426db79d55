-------------------------- MODULE MCMajorPrograms ---------------------------
(***************************************************************************)
(* MajorGC under two kinds of programs: those with weak arrays and forced  *)
(* lazy values, whose mark stack may grow, and those with finalised        *)
(* values, whose mark stack may only overflow.                             *)
(***************************************************************************)
EXTENDS MajorGC

VARIABLE program   \* the program that runs

pvars == <<vars, program>>

WeakProgram     == {"weak", "lazy", "get_copy"}
FinaliseProgram == {"finalise"}

Collector(uses, limit) == INSTANCE MajorGC WITH Uses <- uses, GrayLimit <- limit

ProgramsInit == Init /\ program \in {"weak", "finalise"}

ProgramsNext ==
  /\ \/ program = "weak" /\ Collector(WeakProgram, GraySize + 1)!Next
     \/ program = "finalise" /\ Collector(FinaliseProgram, GraySize)!Next
  /\ UNCHANGED program

ProgramsSpec == ProgramsInit /\ [][ProgramsNext]_pvars
=============================================================================
