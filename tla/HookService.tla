---------------------------- MODULE HookService -----------------------------
(***************************************************************************)
(* What the callers of the hook daemon may rely on: a process is started   *)
(* with the code installed then, is reachable at most once in its life, at *)
(* most one is reachable at a time, and one that is not any more only      *)
(* finishes what it has been asked, or is killed.                          *)
(***************************************************************************)
CONSTANT Proc

VARIABLES status,    \* "off", "starting", "up" (reachable) or "leaving"
          ver,       \* the version of the code a process runs
          installed

serviceVars == <<status, ver, installed>>

ServiceInit ==
    /\ status = [d \in Proc |-> "off"]
    /\ ver = [d \in Proc |-> 1]
    /\ installed = 1

Becomes(d, s) == status' = [status EXCEPT ![d] = s] /\ UNCHANGED <<ver, installed>>

Start(d) ==
    /\ status[d] = "off"
    /\ status' = [status EXCEPT ![d] = "starting"]
    /\ ver' = [ver EXCEPT ![d] = installed]
    /\ UNCHANGED installed

Up(d) == status[d] = "starting" /\ (\A e \in Proc : status[e] # "up") /\ Becomes(d, "up")

Leave(d) == status[d] \in {"starting", "up"} /\ Becomes(d, "leaving")

End(d) == status[d] # "off" /\ Becomes(d, "off")

Update == installed = 1 /\ installed' = 2 /\ UNCHANGED <<status, ver>>

ServiceNext == Update \/ \E d \in Proc : Start(d) \/ Up(d) \/ Leave(d) \/ End(d)

ServiceSpec == ServiceInit /\ [][ServiceNext]_serviceVars
=============================================================================
