----------------------------- MODULE MCUdfQuery -----------------------------
(***************************************************************************)
(* UdfQuery with chunks of two rows: sources that end with a full chunk and *)
(* in the middle of one; a first chunk of one group, a second one of both.  *)
(***************************************************************************)
EXTENDS UdfQuery

MCGroupOf == <<1, 1, 2, 1>>
=============================================================================
