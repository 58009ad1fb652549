------------------------ MODULE MCGenerationStore -------------------------
(***************************************************************************)
(* Small instances of GenerationStore: two compilers, three snapshots,     *)
(* each compiled from one source.                                          *)
(***************************************************************************)
EXTENDS GenerationStore

CONSTANTS s1, s2, s3, x, y

OneSourceEach == {<<s1, x>>, <<s2, y>>, <<s3, x>>}
=============================================================================
