---------------------------- MODULE HookDispatch ----------------------------
(***************************************************************************)
(* `sks hook` (src/src/core/daemon/sksd-hook-dispatch.ts): a caller asks   *)
(* the hook daemon, of which it knows what HookService says, and decides   *)
(* by itself when none answers, after it has spawned one for the next call.*)
(* Either way the decision is taken by evaluateHookPayloadOnce, which      *)
(* claims the invocation with a marker file first                          *)
(* (src/src/core/hooks-runtime/hook-invocation-dedupe.ts).                 *)
(*                                                                         *)
(* All callers bring the same invocation: the host runs the hook of the    *)
(* project and that of the user, and repeats it.  A caller is one slot of  *)
(* the host; it calls again when its previous request has left the daemon. *)
(***************************************************************************)
EXTENDS Naturals, HookService

CONSTANTS None, Caller,
          Worker,   \* callers with markers of their own, that never ask the daemon
          Foreign   \* callers whose environment may differ from a daemon's

ASSUME CallerAssumption == Worker \subseteq Caller /\ Foreign \subseteq Caller

VARIABLES at,       \* where a caller is
          cver,     \* the version of its code
          remote,   \* its request in a daemon: None, or whose and where
          marker,   \* the marker of the invocation: None, "fresh" or "old"
          expired,  \* the marker has been old
          evals     \* evaluations begun while it had not

callerVars == <<at, cver, remote, marker, expired, evals>>
vars == <<serviceVars, callerVars>>

Version == {1, 2}
ClaimAt == {"claim", "stat", "rmmark", "again", "eval"}
Answer == {"result", "suppressed", "failed"}
Request == [on : Proc, at : {"request"} \cup ClaimAt]

ASSUME NoneAssumption == None \notin {"fresh", "old"} /\ None \notin Request

\* Types; a caller with markers of its own never asks the daemon, and a request
\* is in a process that lives.
TypeOK ==
    /\ status \in [Proc -> {"off", "starting", "up", "leaving"}]
    /\ ver \in [Proc -> Version] /\ installed \in Version
    /\ at \in [Caller -> {"idle", "look", "connect", "wait", "spawn"} \cup ClaimAt \cup Answer]
    /\ cver \in [Caller -> Version]
    /\ remote \in [Caller -> Request \cup {None}]
    /\ marker \in {None, "fresh", "old"} /\ expired \in BOOLEAN /\ evals \in 0..2
    /\ \A c \in Worker : at[c] \in {"idle"} \cup ClaimAt \cup Answer
    /\ \A c \in Caller : remote[c] # None => status[remote[c].on] # "off"

Init ==
    /\ ServiceInit
    /\ at = [c \in Caller |-> "idle"]
    /\ cver = [c \in Caller |-> 1]
    /\ remote = [c \in Caller |-> None]
    /\ marker = None /\ expired = FALSE /\ evals = 0

Go(c, s) == at' = [at EXCEPT ![c] = s]
Connected(d) == \E c \in Caller : at[c] = "wait" /\ remote[c] # None /\ remote[c].on = d

-----------------------------------------------------------------------------
(* callSksdHookDaemon and hookDaemonInline. *)

\* A hook is run; the caller's code is the one installed now.
Call(c) ==
    /\ at[c] = "idle" /\ remote[c] = None
    /\ Go(c, IF c \in Worker THEN "claim" ELSE "look")
    /\ cver' = [cver EXCEPT ![c] = installed]
    /\ UNCHANGED <<serviceVars, remote, marker, expired, evals>>

\* The socket path is looked at, then connected to.
LookUp(c) ==
    /\ at[c] = "look" /\ \E s \in {"spawn", "connect"} : Go(c, s)
    /\ UNCHANGED <<serviceVars, cver, remote, marker, expired, evals>>

Connect(c) ==
    /\ at[c] = "connect"
    /\ \/ \E d \in Proc : /\ status[d] = "up" /\ Go(c, "wait")
                          /\ remote' = [remote EXCEPT ![c] = [on |-> d, at |-> "request"]]
       \/ Go(c, "spawn") /\ UNCHANGED remote
    /\ UNCHANGED <<serviceVars, cver, marker, expired, evals>>

\* mutant: without the timer, only a closed connection is given up.
GiveUpWhenClosed(c) ==
    /\ at[c] = "wait" /\ remote[c] = None /\ Go(c, "spawn")
    /\ UNCHANGED <<serviceVars, cver, remote, marker, expired, evals>>

\* The request timer, which leaves the request in the daemon, or the
\* connection closed without an answer: null either way.
GiveUp(c) ==
    /\ at[c] = "wait" /\ Go(c, "spawn")
    /\ UNCHANGED <<serviceVars, cver, remote, marker, expired, evals>>

\* spawnSksdHookDaemonDetached, if another process may run; then inline.
SpawnOne(c) ==
    /\ at[c] = "spawn" /\ Go(c, "claim")
    /\ \/ \E d \in Proc : Start(d)
       \/ (\A d \in Proc : status[d] # "off") /\ UNCHANGED serviceVars
    /\ UNCHANGED <<cver, remote, marker, expired, evals>>

-----------------------------------------------------------------------------
(* claimHookInvocation, by a caller or for it in a daemon.                 *)

\* mutant: the first marker is opened with 'w'.
ClaimStepOverwriting(s, t) ==
    \/ s \in {"claim", "again"} /\ marker' = "fresh" /\ t = "eval"
    \/ s = "stat" /\ marker = "fresh" /\ UNCHANGED marker /\ t = "suppressed"
    \/ s = "stat" /\ marker # "fresh" /\ UNCHANGED marker /\ t = "rmmark"
    \/ s = "rmmark" /\ marker' = None /\ t = "again"

\* createMarker: one step from s to t.
ClaimStep(s, t) ==
    \/ s \in {"claim", "again"} /\ marker = None /\ marker' = "fresh" /\ t = "eval"
    \/ s = "claim" /\ marker # None /\ UNCHANGED marker /\ t = "stat"
    \/ s = "stat" /\ marker = "fresh" /\ UNCHANGED marker /\ t = "suppressed"
    \/ s = "stat" /\ marker # "fresh" /\ UNCHANGED marker /\ t = "rmmark"
    \/ s = "rmmark" /\ marker' = None /\ t = "again"
    \/ s = "again" /\ marker # None /\ UNCHANGED marker /\ t = "suppressed"

\* A step of evaluateHookPayloadOnce: of the claim, or the evaluation itself.
Evaluate(s, t) ==
    /\ \/ ClaimStep(s, t)
       \/ s = "eval" /\ t = "result" /\ UNCHANGED marker
    /\ evals' = IF t = "eval" /\ ~expired /\ evals < 2 THEN evals + 1 ELSE evals
    /\ UNCHANGED expired

Inline(c) ==
    /\ \E t \in ClaimAt \cup Answer : Evaluate(at[c], t) /\ Go(c, t)
    /\ UNCHANGED <<serviceVars, cver, remote>>

\* The evaluation throws: the hook of a project fails, that of a user says nothing.
Throw(c) ==
    /\ at[c] = "eval" /\ \E t \in {"failed", "suppressed"} : Go(c, t)
    /\ UNCHANGED <<serviceVars, cver, remote, marker, expired, evals>>

\* The answer is written, and reaches the caller if it still waits.
Reply(c, s) ==
    /\ remote' = [remote EXCEPT ![c] = None]
    /\ IF at[c] = "wait" THEN Go(c, s) ELSE UNCHANGED at

\* Another version is refused, and the daemon retires unless it already has.
Refuse(c) ==
    /\ remote[c] # None /\ remote[c].at = "request"
    /\ ver[remote[c].on] # cver[c]
    /\ Reply(c, "spawn")
    /\ IF status[remote[c].on] = "up" THEN Leave(remote[c].on) ELSE UNCHANGED serviceVars
    /\ UNCHANGED <<cver, marker, expired, evals>>

\* Another environment is refused, and nothing else happens.
Decline(c) ==
    /\ remote[c] # None /\ remote[c].at = "request"
    /\ ver[remote[c].on] = cver[c] /\ c \in Foreign
    /\ Reply(c, "claim")
    /\ UNCHANGED <<serviceVars, cver, marker, expired, evals>>

Accept(c) ==
    /\ remote[c] # None /\ remote[c].at = "request"
    /\ ver[remote[c].on] = cver[c]
    /\ remote' = [remote EXCEPT ![c] = [on |-> remote[c].on, at |-> "claim"]]
    /\ UNCHANGED <<serviceVars, at, cver, marker, expired, evals>>

Serve(c) ==
    /\ remote[c] # None
    /\ \E t \in ClaimAt \cup Answer :
          /\ Evaluate(remote[c].at, t)
          /\ IF t \in Answer THEN Reply(c, t)
             ELSE remote' = [remote EXCEPT ![c] = [on |-> remote[c].on, at |-> t]] /\ UNCHANGED at
    /\ UNCHANGED <<serviceVars, cver>>

\* The evaluation throws in the daemon, and the caller decides by itself.
ServeError(c) ==
    /\ remote[c] # None /\ remote[c].at = "eval"
    /\ Reply(c, "claim")
    /\ UNCHANGED <<serviceVars, cver, marker, expired, evals>>

Return(c) ==
    /\ at[c] \in Answer /\ Go(c, "idle")
    /\ UNCHANGED <<serviceVars, cver, remote, marker, expired, evals>>

\* The window passes; an old marker may be pruned.
Expire ==
    /\ marker = "fresh" /\ marker' = "old" /\ expired' = TRUE
    /\ UNCHANGED <<serviceVars, at, cver, remote, evals>>

Prune ==
    /\ marker = "old" /\ marker' = None
    /\ UNCHANGED <<serviceVars, at, cver, remote, expired, evals>>

-----------------------------------------------------------------------------
\* A process that leaves by itself waits for its callers; its requests end with it.
Finish(d) == status[d] = "leaving" /\ ~Connected(d) /\ End(d)
Die(d) == End(d)

Follow == remote' = [c \in Caller |->
              IF remote[c] # None /\ status'[remote[c].on] = "off" THEN None ELSE remote[c]]

ServiceStep ==
    /\ Update \/ \E d \in Proc : Up(d) \/ Leave(d) \/ Finish(d) \/ Die(d)
    /\ Follow
    /\ UNCHANGED <<at, cver, marker, expired, evals>>

CallerStep(c) == LookUp(c) \/ Connect(c) \/ GiveUp(c) \/ SpawnOne(c) \/ Inline(c) \/ Throw(c) \/ Return(c)
RequestStep(c) == Refuse(c) \/ Decline(c) \/ Accept(c) \/ Serve(c) \/ ServeError(c)

Next ==
    \/ ServiceStep
    \/ \E c \in Caller : Call(c) \/ CallerStep(c) \/ RequestStep(c)
    \/ Expire \/ Prune

Spec == Init /\ [][Next]_vars

\* A caller goes on by itself; its timer fires.
Fairness == \A c \in Caller : WF_vars(CallerStep(c))

FairSpec == Spec /\ Fairness

-----------------------------------------------------------------------------
\* Until the window has passed the invocation is evaluated once at most: by a
\* daemon, even one whose caller has given up, by a caller, or by the other
\* hook of the host (claimHookInvocation).
EvaluatedOnce == ~expired => evals <= 1

\* Every hook answers the host, whatever becomes of the daemons: refused, hung,
\* killed or never there, the caller decides by itself (the timers of
\* callSksdHookDaemon, and the inline path).
EveryCallAnswered == \A c \in Caller : at[c] # "idle" ~> at[c] \in Answer
=============================================================================
