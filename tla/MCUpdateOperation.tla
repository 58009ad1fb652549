------------------------- MODULE MCUpdateOperation -------------------------
(***************************************************************************)
(* A small instance of UpdateOperation.  Calls are alike and so are        *)
(* projects: no action or property names one.                              *)
(***************************************************************************)
EXTENDS UpdateOperation, TLC

Alike == Permutations(Call) \cup Permutations(Project)
=============================================================================
