------------------------- MODULE MCMaterializeMove -------------------------
(* A release moves `client` to `client/mod`: the obsolete owned file lies   *)
(* where the new file's directory must be.                                  *)
EXTENDS Materialize, TLC

CONSTANTS client, mod, g1

MCPath == {client, mod}
MCRank == [p \in MCPath |-> IF p = client THEN 1 ELSE 2]
MCParent == [p \in MCPath |-> IF p = mod THEN client ELSE NoParent]
MCUserText == [p \in MCPath |-> {}]
MCMerge(e, g) == g

MCTree == {[files |-> client :> g1, once |-> {}, keep |-> {}],
           [files |-> mod :> g1, once |-> {}, keep |-> {}]}
=============================================================================
