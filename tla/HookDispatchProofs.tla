------------------------- MODULE HookDispatchProofs -------------------------
(***************************************************************************)
(* Proofs about HookDispatch, for any callers and any processes.  Window   *)
(* is why nothing is evaluated twice before the marker is old: whoever has *)
(* found the marker has found it fresh, so nobody removes it.              *)
(***************************************************************************)
EXTENDS HookDispatch, TLAPS

\* Where a claim may be as long as the marker has not been old.
Fits(s) == s \notin {"rmmark", "again"} /\ (s = "stat" => marker = "fresh")

Window ==
    /\ marker # "old"
    /\ evals = (IF marker = None THEN 0 ELSE 1)
    /\ \A c \in Caller : Fits(at[c])
    /\ \A c \in Caller : remote[c] # None => Fits(remote[c].at)

WindowInv == TypeOK /\ (~expired => Window)

Place == {"idle", "look", "connect", "wait", "spawn"} \cup ClaimAt \cup Answer

\* The initial state is of the right types.
LEMMA InitTypeOK == Init => TypeOK
  <1> SUFFICES ASSUME Init PROVE TypeOK
    OBVIOUS
  <1>1. marker \in {None, "fresh", "old"} /\ expired \in BOOLEAN
    BY DEF Init
  <1>3. evals \in 0..2 /\ installed \in Version
    BY DEF Init, ServiceInit, Version
  <1>2. ver \in [Proc -> Version] /\ cver \in [Caller -> Version]
    BY DEF Init, ServiceInit, Version
  <1> QED BY <1>1, <1>2, <1>3, CallerAssumption DEF Init, ServiceInit, TypeOK

\* A process keeps its place among the statuses, and one that lives may only
\* have been started, unless it ends.
LEMMA ServiceTypes ==
    ASSUME TypeOK, NEW d \in Proc, Start(d) \/ Up(d) \/ Leave(d) \/ End(d) \/ UNCHANGED serviceVars
    PROVE  /\ status' \in [Proc -> {"off", "starting", "up", "leaving"}]
           /\ ver' \in [Proc -> Version] /\ installed' \in Version
           /\ \A e \in Proc : status'[e] = "off" => status[e] = "off" \/ End(d)
  BY DEF TypeOK, Start, Up, Leave, End, Becomes, serviceVars

\* The answer to a request leaves the types as they are.
LEMMA ReplyTypes ==
    ASSUME TypeOK, NEW c \in Caller, remote[c] # None, NEW s \in Place \ {"look", "connect", "wait"}, Reply(c, s)
    PROVE  /\ at' \in [Caller -> Place] /\ remote' \in [Caller -> Request \cup {None}]
           /\ \A w \in Worker : at'[w] \in {"idle"} \cup ClaimAt \cup Answer
           /\ \A e \in Caller : remote'[e] # None => remote'[e] = remote[e]
  <1>1. CASE at[c] = "wait"
    <2>1. c \notin Worker
      BY <1>1 DEF TypeOK, ClaimAt, Answer
    <2> QED BY <1>1, <2>1, CallerAssumption DEF Reply, Go, TypeOK, Place
  <1>2. CASE at[c] # "wait"
    BY <1>2 DEF Reply, TypeOK, Place
  <1> QED BY <1>1, <1>2

\* A step of the claim or of the evaluation leaves the types as they are.
LEMMA EvaluateTypes ==
    ASSUME TypeOK, NEW s, NEW t, Evaluate(s, t)
    PROVE  marker' \in {None, "fresh", "old"} /\ expired' \in BOOLEAN /\ evals' \in 0..2
  BY DEF TypeOK, Evaluate, ClaimStep

\* Every step keeps the types.
LEMMA NextTypeOK == TypeOK /\ [Next]_vars => TypeOK'
  <1> SUFFICES ASSUME TypeOK, [Next]_vars PROVE TypeOK'
    OBVIOUS
  <1>1. CASE UNCHANGED vars
    BY <1>1 DEF vars, serviceVars, callerVars, TypeOK
  <1>2. CASE ServiceStep
    <2>1. /\ status' \in [Proc -> {"off", "starting", "up", "leaving"}]
          /\ ver' \in [Proc -> Version] /\ installed' \in Version
      <3>1. CASE Update
        BY <3>1 DEF Update, TypeOK, Version
      <3>2. CASE \E d \in Proc : Up(d) \/ Leave(d) \/ Finish(d) \/ Die(d)
        BY <3>2, ServiceTypes DEF Finish, Die
      <3> QED BY <1>2, <3>1, <3>2 DEF ServiceStep
    <2>2. remote' \in [Caller -> Request \cup {None}]
      BY <1>2 DEF ServiceStep, Follow, TypeOK
    <2>3. \A c \in Caller : remote'[c] # None => status'[remote'[c].on] # "off"
      BY <1>2 DEF ServiceStep, Follow
    <2> QED BY <1>2, <2>1, <2>2, <2>3 DEF ServiceStep, TypeOK
  <1>3. ASSUME NEW c \in Caller, Call(c) PROVE TypeOK'
    BY <1>3, CallerAssumption DEF Call, Go, TypeOK, serviceVars, ClaimAt
  <1>4. ASSUME NEW c \in Caller, at[c] \notin {"idle"} \cup ClaimAt \cup Answer, NEW s \in Place, Go(c, s),
               UNCHANGED <<serviceVars, cver, remote, marker, expired, evals>> PROVE TypeOK'
    BY <1>4, CallerAssumption DEF Go, TypeOK, serviceVars, Place
  <1>5. ASSUME NEW c \in Caller, NEW s \in {"idle"} \cup ClaimAt \cup Answer, Go(c, s),
               UNCHANGED <<serviceVars, cver, remote, marker, expired, evals>> PROVE TypeOK'
    BY <1>5 DEF Go, TypeOK, serviceVars
  <1>6. ASSUME NEW c \in Caller, LookUp(c) PROVE TypeOK'
    BY <1>6, <1>4 DEF LookUp, Place, ClaimAt, Answer
  <1>7. ASSUME NEW c \in Caller, Connect(c) PROVE TypeOK'
    <2>0. at[c] \notin {"idle"} \cup ClaimAt \cup Answer
      BY <1>7 DEF Connect, ClaimAt, Answer
    <2>1. CASE Go(c, "spawn") /\ UNCHANGED remote
      BY <1>7, <2>0, <2>1, <1>4 DEF Connect, Place
    <2>2. ASSUME NEW d \in Proc, status[d] = "up", Go(c, "wait"),
                 remote' = [remote EXCEPT ![c] = [on |-> d, at |-> "request"]] PROVE TypeOK'
      <3>1. [on |-> d, at |-> "request"] \in Request
        BY DEF Request
      <3>2. remote' \in [Caller -> Request \cup {None}]
        BY <2>2, <3>1 DEF TypeOK
      <3>3. \A e \in Caller : remote'[e] # None => status[remote'[e].on] # "off"
        BY <2>2 DEF TypeOK
      <3>4. \A w \in Worker : at'[w] \in {"idle"} \cup ClaimAt \cup Answer
        BY <2>0, <2>2, CallerAssumption DEF Go, TypeOK
      <3> QED BY <1>7, <2>2, <3>2, <3>3, <3>4 DEF Connect, Go, TypeOK, serviceVars
    <2> QED BY <1>7, <2>1, <2>2 DEF Connect
  <1>8. ASSUME NEW c \in Caller, GiveUp(c) PROVE TypeOK'
    BY <1>8, <1>4 DEF GiveUp, Place, ClaimAt, Answer
  <1>9. ASSUME NEW c \in Caller, SpawnOne(c) PROVE TypeOK'
    <2>1. /\ status' \in [Proc -> {"off", "starting", "up", "leaving"}]
          /\ ver' \in [Proc -> Version] /\ installed' \in Version
          /\ \A e \in Proc : status'[e] = "off" => status[e] = "off"
      <3>1. CASE UNCHANGED serviceVars
        BY <3>1 DEF serviceVars, TypeOK
      <3>2. ASSUME NEW d \in Proc, Start(d) PROVE \A e \in Proc : status'[e] = "off" => status[e] = "off"
        BY <3>2 DEF Start, TypeOK
      <3> QED BY <1>9, <3>1, <3>2, ServiceTypes DEF SpawnOne
    <2>2. \A e \in Caller : remote[e] # None => remote[e].on \in Proc
      BY DEF TypeOK, Request
    <2> QED BY <1>9, <2>1, <2>2 DEF SpawnOne, Go, TypeOK, ClaimAt
  <1>10. ASSUME NEW c \in Caller, Inline(c) PROVE TypeOK'
    <2>1. PICK t \in ClaimAt \cup Answer : Evaluate(at[c], t) /\ Go(c, t)
      BY <1>10 DEF Inline
    <2> QED BY <1>10, <2>1, EvaluateTypes DEF Inline, Go, TypeOK, serviceVars
  <1>11. ASSUME NEW c \in Caller, Throw(c) PROVE TypeOK'
    BY <1>11, <1>5 DEF Throw, Answer
  <1>12. ASSUME NEW c \in Caller, Return(c) PROVE TypeOK'
    BY <1>12, <1>5 DEF Return
  <1>13. ASSUME NEW c \in Caller, remote[c] # None, NEW s \in {"spawn"} \cup ClaimAt \cup Answer, Reply(c, s),
                UNCHANGED <<serviceVars, cver>>, marker' \in {None, "fresh", "old"}, expired' \in BOOLEAN, evals' \in 0..2
         PROVE TypeOK'
    <2>1. s \in Place \ {"look", "connect", "wait"}
      BY <1>13 DEF Place, ClaimAt, Answer
    <2> QED BY <1>13, <2>1, ReplyTypes DEF TypeOK, Place, serviceVars
  <1>14. ASSUME NEW c \in Caller, Refuse(c) PROVE TypeOK'
    <2>1. remote[c].on \in Proc
      BY <1>14 DEF Refuse, TypeOK, Request
    <2>2. /\ status' \in [Proc -> {"off", "starting", "up", "leaving"}]
          /\ ver' \in [Proc -> Version] /\ installed' \in Version
          /\ \A e \in Proc : status'[e] = "off" => status[e] = "off"
      BY <1>14, <2>1 DEF Refuse, Leave, Becomes, serviceVars, TypeOK
    <2>3. \A e \in Caller : remote[e] # None => remote[e].on \in Proc
      BY DEF TypeOK, Request
    <2>4. "spawn" \in Place \ {"look", "connect", "wait"}
      BY DEF Place
    <2> QED BY <1>14, <2>2, <2>3, <2>4, ReplyTypes DEF Refuse, TypeOK, Place
  <1>15. ASSUME NEW c \in Caller, Decline(c) PROVE TypeOK'
    BY <1>15, <1>13 DEF Decline, ClaimAt, TypeOK
  <1>16. ASSUME NEW c \in Caller, remote[c] # None, NEW t \in ClaimAt, UNCHANGED <<serviceVars, at, cver>>,
                remote' = [remote EXCEPT ![c] = [on |-> remote[c].on, at |-> t]],
                marker' \in {None, "fresh", "old"}, expired' \in BOOLEAN, evals' \in 0..2
         PROVE TypeOK'
    <2>1. remote[c] \in Request
      BY <1>16 DEF TypeOK
    <2>2. [on |-> remote[c].on, at |-> t] \in Request
      BY <2>1 DEF Request
    <2>3. remote' \in [Caller -> Request \cup {None}]
      BY <1>16, <2>2 DEF TypeOK
    <2>4. \A e \in Caller : remote'[e] # None => status[remote'[e].on] # "off"
      BY <1>16 DEF TypeOK
    <2> QED BY <1>16, <2>3, <2>4 DEF TypeOK, serviceVars
  <1>17. ASSUME NEW c \in Caller, Accept(c) PROVE TypeOK'
    BY <1>17, <1>16 DEF Accept, ClaimAt, TypeOK
  <1>18. ASSUME NEW c \in Caller, Serve(c) PROVE TypeOK'
    <2>1. PICK t \in ClaimAt \cup Answer :
            /\ Evaluate(remote[c].at, t)
            /\ IF t \in Answer THEN Reply(c, t)
               ELSE remote' = [remote EXCEPT ![c] = [on |-> remote[c].on, at |-> t]] /\ UNCHANGED at
      BY <1>18 DEF Serve
    <2>2. marker' \in {None, "fresh", "old"} /\ expired' \in BOOLEAN /\ evals' \in 0..2
      BY <2>1, EvaluateTypes
    <2>3. remote[c] # None /\ UNCHANGED <<serviceVars, cver>>
      BY <1>18 DEF Serve
    <2>4. CASE t \in Answer
      BY <2>1, <2>2, <2>3, <2>4, <1>13
    <2>5. CASE t \notin Answer
      BY <2>1, <2>2, <2>3, <2>5, <1>16
    <2> QED BY <2>4, <2>5
  <1>19. ASSUME NEW c \in Caller, ServeError(c) PROVE TypeOK'
    BY <1>19, <1>13 DEF ServeError, ClaimAt, TypeOK
  <1>20. CASE Expire
    BY <1>20 DEF Expire, TypeOK, serviceVars
  <1>21. CASE Prune
    BY <1>21 DEF Prune, TypeOK, serviceVars
  <1> QED
    BY ONLY [Next]_vars, <1>1, <1>2, <1>3, <1>6, <1>7, <1>8, <1>9, <1>10, <1>11, <1>12, <1>14, <1>15, <1>17,
       <1>18, <1>19, <1>20, <1>21 DEF Next, CallerStep, RequestStep

\* Statuses, requests, claims and counters keep their types; a request is in a
\* process that lives (callSksdHookDaemon, respond).
THEOREM DispatchTypes == Spec => []TypeOK
  BY InitTypeOK, NextTypeOK, PTL DEF Spec

-----------------------------------------------------------------------------
\* A claim step taken where it may be leaves the claim where it may be, and
\* the others with it: the marker stays fresh once it is there.
LEMMA EvaluateFits ==
    ASSUME TypeOK, ~expired, Window, NEW s, NEW t, Fits(s), Evaluate(s, t)
    PROVE  /\ marker' # "old" /\ evals' = (IF marker' = None THEN 0 ELSE 1) /\ Fits(t)'
           /\ marker = "fresh" => marker' = "fresh"
  BY NoneAssumption DEF TypeOK, Window, Fits, Evaluate, ClaimStep

\* As long as the marker has not been old, every step keeps Window.
LEMMA NextWindow == WindowInv /\ [Next]_vars /\ ~expired' => Window'
  <1> SUFFICES ASSUME TypeOK, ~expired => Window, [Next]_vars, ~expired' PROVE Window'
    BY DEF WindowInv
  <1>0. ~expired /\ Window
    BY DEF Next, vars, callerVars, ServiceStep, CallerStep, RequestStep, Call, LookUp, Connect, GiveUp, SpawnOne,
       Inline, Throw, Return, Refuse, Decline, Accept, Serve, ServeError, Expire, Prune, Evaluate
  <1>1. CASE UNCHANGED vars
    BY <1>0, <1>1 DEF vars, callerVars, Window, Fits
  <1>2. CASE ServiceStep
    BY <1>0, <1>2 DEF ServiceStep, Follow, Window, Fits
  <1>3. ASSUME NEW c \in Caller, NEW s, s \notin {"rmmark", "again", "stat"}, Go(c, s),
               UNCHANGED <<remote, marker, evals>> PROVE Window'
    BY <1>0, <1>3 DEF Go, Window, Fits, TypeOK
  <1>4. ASSUME NEW c \in Caller, NEW s, s \notin {"rmmark", "again", "stat"}, Reply(c, s),
               UNCHANGED <<marker, evals>> PROVE Window'
    BY <1>0, <1>4 DEF Reply, Go, Window, Fits, TypeOK
  <1>5. ASSUME NEW c \in Caller, Call(c) PROVE Window'
    BY <1>5, <1>3 DEF Call
  <1>6. ASSUME NEW c \in Caller, LookUp(c) \/ GiveUp(c) \/ SpawnOne(c) \/ Throw(c) PROVE Window'
    BY <1>6, <1>3 DEF LookUp, GiveUp, SpawnOne, Throw
  <1>7. ASSUME NEW c \in Caller, Connect(c) PROVE Window'
    <2>1. CASE Go(c, "spawn") /\ UNCHANGED remote
      BY <1>7, <2>1, <1>3 DEF Connect
    <2>2. ASSUME NEW d \in Proc, Go(c, "wait"), remote' = [remote EXCEPT ![c] = [on |-> d, at |-> "request"]]
          PROVE  Window'
      <3>1. \A e \in Caller : remote'[e] # None => Fits(remote'[e].at)
        BY <1>0, <2>2 DEF Window, Fits, TypeOK
      <3> QED BY <1>0, <1>7, <2>2, <3>1 DEF Connect, Go, Window, Fits, TypeOK
    <2> QED BY <1>7, <2>1, <2>2 DEF Connect
  <1>8. ASSUME NEW c \in Caller, Return(c) PROVE Window'
    BY <1>8, <1>3 DEF Return
  <1>9. ASSUME NEW c \in Caller, Inline(c) PROVE Window'
    <2>1. PICK t \in ClaimAt \cup Answer : Evaluate(at[c], t) /\ Go(c, t)
      BY <1>9 DEF Inline
    <2>2. Fits(at[c])
      BY <1>0 DEF Window
    <2>3. /\ marker' # "old" /\ evals' = (IF marker' = None THEN 0 ELSE 1) /\ Fits(t)'
          /\ marker = "fresh" => marker' = "fresh"
      BY <1>0, <2>1, <2>2, EvaluateFits
    <2> QED BY <1>0, <1>9, <2>1, <2>3 DEF Inline, Go, Window, Fits, TypeOK
  <1>10. ASSUME NEW c \in Caller, Refuse(c) \/ Decline(c) \/ ServeError(c) PROVE Window'
    BY <1>10, <1>4 DEF Refuse, Decline, ServeError
  <1>11. ASSUME NEW c \in Caller, Accept(c) PROVE Window'
    <2>1. remote' = [remote EXCEPT ![c] = [on |-> remote[c].on, at |-> "claim"]] /\ UNCHANGED <<at, marker, evals>>
      BY <1>11 DEF Accept
    <2> QED BY <1>0, <2>1 DEF Window, Fits, TypeOK
  <1>12. ASSUME NEW c \in Caller, Serve(c) PROVE Window'
    <2>1. PICK t \in ClaimAt \cup Answer :
            /\ Evaluate(remote[c].at, t)
            /\ IF t \in Answer THEN Reply(c, t)
               ELSE remote' = [remote EXCEPT ![c] = [on |-> remote[c].on, at |-> t]] /\ UNCHANGED at
      BY <1>12 DEF Serve
    <2>2. Fits(remote[c].at)
      BY <1>0, <1>12 DEF Window, Serve
    <2>3. /\ marker' # "old" /\ evals' = (IF marker' = None THEN 0 ELSE 1) /\ Fits(t)'
          /\ marker = "fresh" => marker' = "fresh"
      BY <1>0, <2>1, <2>2, EvaluateFits
    <2>4. CASE t \in Answer
      BY <1>0, <2>1, <2>3, <2>4 DEF Reply, Go, Window, Fits, TypeOK
    <2>5. CASE t \notin Answer
      BY <1>0, <2>1, <2>3, <2>5 DEF Window, Fits, TypeOK
    <2> QED BY <2>4, <2>5
  <1>13. CASE Expire
    BY <1>13 DEF Expire
  <1>14. CASE Prune
    BY <1>0, <1>14 DEF Prune, Window
  <1> QED
    BY ONLY [Next]_vars, <1>1, <1>2, <1>5, <1>6, <1>7, <1>8, <1>9, <1>10, <1>11, <1>12, <1>13, <1>14
       DEF Next, CallerStep, RequestStep

\* Initially there is no marker and no claim.
LEMMA InitWindow == Init => Window
  BY NoneAssumption DEF Init, Window, Fits

\* The inductive invariant: types, and a window in which no marker is removed.
THEOREM WindowInvariant == Spec => []WindowInv
  <1>1. Init => WindowInv
    BY InitTypeOK, InitWindow DEF WindowInv
  <1>2. WindowInv /\ [Next]_vars => WindowInv'
    BY NextTypeOK, NextWindow DEF WindowInv
  <1> QED BY <1>1, <1>2, PTL DEF Spec

\* One evaluation within the window, by whichever process, however often the
\* host calls and the daemons die (claimHookInvocation).
THEOREM OnceInWindow == Spec => []EvaluatedOnce
  <1>1. WindowInv => EvaluatedOnce
    BY DEF WindowInv, Window, EvaluatedOnce, TypeOK
  <1> QED BY <1>1, WindowInvariant, PTL
=============================================================================
