--------------------------- MODULE MCMitmProxy ---------------------------
(***************************************************************************)
(* Model for MitmProxy: two workers, two origin names behind one IP (a     *)
(* shared front end, so pinning one name's IP affects the other) and a     *)
(* second IP reached without SNI.  h1 presents leaf, intermediate, root    *)
(* with the root loaded locally, so it can be forged; h2 presents leaf and *)
(* a loaded root only.                                                     *)
(***************************************************************************)
EXTENDS MitmProxy, TLC

CONSTANTS w1, w2, h1, h2, i1, i2

MCWorkers == {w1, w2}
MCHosts == {h1, h2}
MCIps == {i1, i2}
MCIpOf == (h1 :> i1) @@ (h2 :> i1)

Leaf  == [ca |-> FALSE, local |-> FALSE]
Inter == [ca |-> TRUE, local |-> FALSE]
Root  == [ca |-> TRUE, local |-> TRUE]
MCChainOf == (h1 :> <<Leaf, Inter, Root>>) @@ (h2 :> <<Leaf, Root>>)

Symm == Permutations(MCWorkers)
=============================================================================
