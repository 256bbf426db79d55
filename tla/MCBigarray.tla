----------------------------- MODULE MCBigarray -----------------------------
(* Arrays of every layout, and arguments in and out of their bounds.       *)
EXTENDS Integers, Sequences

N(k, l, d) == [kind |-> k, layout |-> l, dim |-> d]
MCNewArrays == {N("sint8", "c", <<2, 2>>), N("uint16", "f", <<2, 3>>),
                N("complex32", "f", <<2, 1>>), N("float64", "c", <<2, 0>>),
                N("sint8", "c", <<-1>>), N("uint8", "c", <<>>), N("uint8", "c", <<1, 1, 1>>)}
MCExternal == {N("caml_int", "c", <<3>>)}
MCNewMappings == {N("uint8", "f", <<2, -1>>), N("sint8", "c", <<2, 4>>),
                  N("uint8", "f", <<4, -1>>), N("uint8", "f", <<-1, 2>>), N("uint8", "f", <<0>>)}
MCInds == {<<1>>, <<1, 1>>, <<2, 1>>, <<-1>>}
MCRanges == {<<1, 1>>, <<2, 1>>, <<0, 2>>}
MCDims == {<<4>>, <<3, 2>>, <<>>}
MCStored == [k \in {"sint8", "uint8", "uint16", "caml_int", "complex32", "float64"} |->
               IF k = "complex32" THEN {<<1, 2>>} ELSE IF k = "float64" THEN {3} ELSE IF k = "caml_int" THEN {-5} ELSE {-56}]
=============================================================================
