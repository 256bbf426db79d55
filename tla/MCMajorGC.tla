----------------------------- MODULE MCMajorGC -----------------------------
(***************************************************************************)
(* The collector's slices under a program that uses nothing but blocks.    *)
(***************************************************************************)
EXTENDS MajorSlice

PlainProgram == {}
=============================================================================
