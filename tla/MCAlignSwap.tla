---------------------------- MODULE MCAlignSwap ----------------------------
(***************************************************************************)
(* Small instances of AlignSwap: the wiki and one other surface, two       *)
(* records, and runs enough for one to recover what another left.          *)
(***************************************************************************)
EXTENDS AlignSwap, TLC

WikiFirst == ("wiki" :> 1) @@ ("cache" :> 2)
=============================================================================
