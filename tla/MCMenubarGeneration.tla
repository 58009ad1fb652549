------------------------ MODULE MCMenubarGeneration ------------------------
(***************************************************************************)
(* Small instances of MenubarGeneration: all four artifacts, and installations  *)
(* enough for one to find both an active and a previous generation.        *)
(***************************************************************************)
EXTENDS MenubarGeneration, TLC

PlanOrder ==
    ("app" :> 1) @@ ("build_stamp" :> 2) @@ ("action_script" :> 3) @@ ("launch_agent" :> 4)
=============================================================================
