----------------------------- MODULE MCMarshal -----------------------------
(* Heaps that, with the messages of other machines (MCRemote), reach every *)
(* code of the format; Shared8 and Shared16 are small, so that the three   *)
(* codes of sharing are among them.                                        *)
EXTENDS Integers, Sequences, TLC

B0(tag, f) == [k |-> "block", tag |-> tag, f |-> f]
S0(c) == [k |-> "string", c |-> c]
I(n) == <<"int", n>>
P(a) == <<"ptr", a, 0>>
Bytes(n) == [i \in 1..n |-> (7 * i) % 256]

MCHeaps ==
  << \* sharing, a cycle, a forwarded value and integers of each size
     (1 :> B0(0, <<P(2), P(3), P(2)>>) @@ 2 :> B0(1, <<I(-1), P(1)>>) @@ 3 :> [k |-> "forward", v |-> P(2)]),
     (1 :> B0(0, <<I(63), I(64), I(-128), I(128), I(-32768), I(32768), I(-32769)>>)
        @@ 2 :> B0(20, <<P(1), I(1073741823), I(-1073741824)>>)
        @@ 3 :> B0(0, <<I(0), I(1), I(2), I(3), I(4), I(5), I(6), P(2)>>)),
     \* strings and floats, some of them shared
     (1 :> B0(2, <<P(2), P(3), P(4), P(2), P(5)>>) @@ 2 :> S0(Bytes(3)) @@ 3 :> S0(Bytes(40))
        @@ 4 :> [k |-> "double", c |-> Bytes(8)] @@ 5 :> [k |-> "doubles", c |-> Bytes(16)]),
     \* closures: two functions of one block, called by address and by infix
     (1 :> B0(247, <<<<"code", 12>>, I(1), I(1273), <<"code", 99>>, I(1), P(2)>>) @@ 2 :> B0(0, <<<<"ptr", 1, 12>>, P(1)>>)),
     \* custom blocks, one of them unknown to the reader
     (1 :> B0(0, <<P(2), P(3), P(2)>>) @@ 2 :> [k |-> "custom", id |-> <<95, 105>>, c |-> Bytes(4)]
        @@ 3 :> [k |-> "custom", id |-> <<95>>, c |-> Bytes(8)]
        @@ 4 :> B0(0, <<P(5), P(2), P(3)>>) @@ 5 :> S0(Bytes(40)) @@ 6 :> B0(0, <<I(7), P(2), P(2)>>)),
     \* atoms, and values that cannot be output after some that can
     (1 :> B0(0, <<P(2), <<"atom", 0>>, <<"atom", 20>>, P(3)>>) @@ 2 :> S0(Bytes(1)) @@ 3 :> [k |-> "abstract"]
        @@ 4 :> B0(0, <<P(2), <<"atom", 0>>, <<"atom", 20>>>>) @@ 5 :> B0(0, <<P(2), <<"out">>>>)
        @@ 6 :> [k |-> "object"]),
     \* strings and floats at the lengths where the codes change
     (1 :> B0(0, <<P(2), P(3), P(4)>>) @@ 2 :> S0(Bytes(255)) @@ 3 :> S0(Bytes(256))
        @@ 4 :> [k |-> "doubles", c |-> Bytes(2048)]),
     \* what only another machine has
     (1 :> B0(0, <<P(2), <<"long", Bytes(8)>>>>) @@ 2 :> S0(Bytes(2))) >>

Sharing == [NO_SHARING |-> FALSE, CLOSURES |-> FALSE]
Closures == [NO_SHARING |-> FALSE, CLOSURES |-> TRUE]
NoSharing == [NO_SHARING |-> TRUE, CLOSURES |-> FALSE]
MCChecksum == <<1, 2>>
Src(h, v, fl) == [heap |-> h, v |-> v, fl |-> fl, machine |-> [big |-> FALSE, checksum |-> MCChecksum]]
Other == [big |-> TRUE, checksum |-> <<3, 4>>]
From(src) == [src EXCEPT !.machine = Other]

MCSources ==
 << {Src(1, P(1), Sharing), Src(2, P(3), Sharing), Src(2, P(3), NoSharing), Src(3, P(1), Sharing),
   Src(3, P(1), NoSharing), Src(4, <<"ptr", 1, 12>>, Closures), Src(4, P(2), Closures), Src(4, P(2), Sharing),
   Src(5, P(1), Sharing), Src(5, P(4), Sharing), Src(5, P(6), Sharing), Src(6, P(1), Sharing), Src(6, P(4), Sharing),
   Src(6, P(5), Sharing), Src(6, P(6), Sharing), Src(6, I(1000), Sharing), Src(7, P(1), Sharing)},
    {Src(1, P(1), Sharing), Src(3, P(1), Sharing), Src(4, P(2), Closures), Src(6, P(1), Sharing)} >>
MCRemote == {From(Src(1, P(1), Sharing)), From(Src(3, P(1), Sharing)), From(Src(4, P(2), Closures)),
             From(Src(7, P(1), Sharing)), From(Src(8, P(1), Sharing))}
MCKnown == {[id |-> <<95, 105>>, size |-> 4]}
=============================================================================
