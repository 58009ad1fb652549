----------------------------- MODULE MCFileLock -----------------------------
(***************************************************************************)
(* Small instances of FileLock: three calls, each in its own process, or   *)
(* two in one process and one in another; one child process.               *)
(***************************************************************************)
EXTENDS FileLock, TLC

CONSTANTS a, b, c, pa, pb, pc1, kid

OwnProcesses == (a :> pa) @@ (b :> pb) @@ (c :> pc1)
SharedProcess == (a :> pa) @@ (b :> pa) @@ (c :> pc1)
=============================================================================
