----------------------------- MODULE MCFreeList -----------------------------
(* Three chunks of memory; the heap starts with the middle one.            *)
EXTENDS FreeList

Low  == [base |-> 1, size |-> 3]
Mid  == [base |-> 11, size |-> 7]
High == [base |-> 21, size |-> 3]

Anywhere == {Low, Mid, High}
=============================================================================
