----------------------------- MODULE MCArrowScan -----------------------------
(***************************************************************************)
(* ArrowScan with sources that differ in schema and batches: one with an   *)
(* empty batch and a batch of two windows, one with nothing to infer a     *)
(* schema from.                                                            *)
(***************************************************************************)
EXTENDS ArrowScan, TLC

CONSTANTS narrow, wide, hollow

MCSources == {narrow, wide, hollow}
MCSchema  == narrow :> "one column" @@ wide :> "two columns" @@ hollow :> "one column"
MCBatches == narrow :> <<3, 0, 1>> @@ wide :> <<2>> @@ hollow :> <<>>

Symmetry == Permutations(Workers)
=============================================================================
