------------------------------ MODULE WorkPool ------------------------------
(***************************************************************************)
(* What runAgentScheduler promises about the workers it starts: never more *)
(* than Target at once, none beside another that writes one of its paths,  *)
(* none before the work it depends on was done, none after a stop; and an  *)
(* answer that says no more than the workers did.                          *)
(***************************************************************************)
EXTENDS FiniteSets, Integers

CONSTANTS Item, Id, FollowUp, Target, MaxExpansion, Deps, Paths

VARIABLES work,    \* item |-> "absent", "waiting", "running", "done" or "failed"
          answer   \* "open", "stopping", or one of Verdict

poolVars == <<work, answer>>

Verdict == {"ok", "blocked", "error"}

OnWork == {i \in Item : work[i] = "running"}

\* No two items of S write one path.
Compatible(S) == \A i, j \in S : i = j \/ Paths[i] \cap Paths[j] = {}

Admitted == {i \in FollowUp : work[i] # "absent"}

PoolInit ==
    /\ work = [i \in Item |-> IF i \in FollowUp THEN "absent" ELSE "waiting"]
    /\ answer = "open"

\* Follow-ups that a worker asked for.
Admit(A) ==
    /\ answer = "open" /\ A \subseteq FollowUp \ Admitted
    /\ Cardinality(Admitted \cup A) <= MaxExpansion
    /\ work' = [i \in Item |-> IF i \in A THEN "waiting" ELSE work[i]]
    /\ UNCHANGED answer

Launch(B) ==
    /\ answer = "open"
    /\ \A i \in B :
          /\ work[i] = "waiting"
          /\ \A d \in Deps[i] : \E j \in Item : Id[j] = d /\ work[j] = "done"
    /\ Compatible(OnWork \cup B)
    /\ Cardinality(OnWork \cup B) <= Target
    /\ work' = [i \in Item |-> IF i \in B THEN "running" ELSE work[i]]
    /\ UNCHANGED answer

Finish(i) ==
    /\ work[i] = "running"
    /\ \E s \in {"done", "failed"} : work' = [work EXCEPT ![i] = s]
    /\ UNCHANGED answer

Stop == answer = "open" /\ answer' = "stopping" /\ UNCHANGED work

\* Only work done to the last item is a success, and only a stop or an error
\* leaves workers behind.
Answer(v) ==
    /\ answer \notin Verdict /\ answer' = v
    /\ v = "ok" => answer = "open" /\ \A i \in Item : work[i] \in {"absent", "done"}
    /\ v = "blocked" => answer = "stopping" \/ OnWork = {}
    /\ UNCHANGED work

PoolNext ==
    \/ \E A \in SUBSET FollowUp : Admit(A)
    \/ \E B \in SUBSET Item : Launch(B)
    \/ \E i \in Item : Finish(i)
    \/ Stop
    \/ \E v \in Verdict : Answer(v)

PoolSpec == PoolInit /\ [][PoolNext]_poolVars
=============================================================================
