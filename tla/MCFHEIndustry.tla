--------------------------- MODULE MCFHEIndustry ---------------------------
(***************************************************************************)
(* Instances of FHEIndustry for TLC.  Two threads race for the same        *)
(* ciphertexts, or one takes two in a step, as triples do, from two        *)
(* factories, or one takes a single ciphertext, or none.                   *)
(***************************************************************************)
EXTENDS FHEIndustryProps, TLC

CONSTANTS triples, squares

MCTakers == {triples, squares}
MCItems == (triples :> 1) @@ (squares :> 1)
MCSteps == (triples :> 1) @@ (squares :> 2)

MCOneTaker == {triples}
MCOneItem == triples :> 1
MCTwoItems == triples :> 2
MCOneStep == triples :> 1
MCNoStep == triples :> 0
=============================================================================
