-------------------------- MODULE MCAgentScheduler --------------------------
(***************************************************************************)
(* Two of the items write one path, one waits for another and one for what *)
(* may be asked for by a worker; two that may be asked for have one id.    *)
(***************************************************************************)
EXTENDS AgentScheduler

CONSTANTS a, b, c, f, g, h

MCItem == {a, b, c, f, g, h}
MCFollowUp == {f, g, h}
MCId == [i \in MCItem |-> IF i = h THEN f ELSE i]
MCRank == [i \in MCItem |-> IF i = h THEN 2 ELSE 1]
MCDeps == [i \in MCItem |-> CASE i = c -> {a} [] i = g -> {f} [] OTHER -> {}]
MCPaths == [i \in MCItem |-> IF i \in {a, b} THEN {"shared"} ELSE {}]
=============================================================================
