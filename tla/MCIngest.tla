------------------------------ MODULE MCIngest ------------------------------
(***************************************************************************)
(* Ingest into a table of two columns: a column masked, one missing, one   *)
(* masked though missing; rows that give all parameters, and rows that     *)
(* leave one to what the row before, or another call, has bound.           *)
(***************************************************************************)
EXTENDS Ingest

Mask(present, masked) == [present |-> present, masked |-> masked, null |-> 3]

MCMasks == {Mask({1, 2}, {2}), Mask({1}, {}), Mask({1}, {2})}
MCRows  == {<<{1}, {2}>>, <<{1, 2}>>}
=============================================================================
