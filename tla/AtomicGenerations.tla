-------------------------- MODULE AtomicGenerations --------------------------
(***************************************************************************)
(* What the menu bar's generation transaction promises: the artifacts of   *)
(* the active and of the previous generation change together, and only by  *)
(* an installation or a rollback that went through.                        *)
(***************************************************************************)
CONSTANTS
    Pair,        \* the artifacts: app, build stamp, action script, launch agent
    Generation,  \* what may be installed
    None

VARIABLE shown  \* each artifact as it stands: active and previous

Nothing == [active |-> None, backup |-> None]

Init == shown = [p \in Pair |-> Nothing]

\* The new generation is active and the replaced one, if any, is the previous.
Install(g) ==
    shown' = [p \in Pair |-> [active |-> g, backup |-> shown[p].active]]

\* Active and previous generation change places.
Rollback ==
    shown' = [p \in Pair |-> [active |-> shown[p].backup, backup |-> shown[p].active]]

Next == Rollback \/ \E g \in Generation : Install(g)

Spec == Init /\ [][Next]_shown
=============================================================================
