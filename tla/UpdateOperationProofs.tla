----------------------- MODULE UpdateOperationProofs -----------------------
(***************************************************************************)
(* Theorems about UpdateOperation, for any calls and projects and any      *)
(* number of versions and of installations from outside: the receipts are  *)
(* true, what is installed can be undone, and a downgrade is an undo.      *)
(*                                                                         *)
(* Everything rests on one call being between its lock and its release,    *)
(* dead ones aside (LockInv): the version it has read is then the one it   *)
(* replaces, what it has on disk trails what it remembers by a stage at    *)
(* most (CallInv), and the receipts that pointers and rollbacks go by are  *)
(* of calls that do not write any more (PointerInv, UndoInv).              *)
(***************************************************************************)
EXTENDS UpdateOperation, TLAPS

USE UpdateAssumption, NoneAssumption

Locked == {"probe", "authorize", "open", "preflight", "intent", "install", "settle",
           "close", "point", "admit", "release"}

\* One call is under the lock; a killed one may still be named by it.
LockInv ==
    /\ \A c \in Call : pc[c] \in Locked => holder = c
    /\ holder # None => pc[holder] \in Locked \cup {"done"}

\* What the call has in memory: what it was asked to do, and the version that
\* is installed until it replaces it.
Remembers(c) ==
    /\ pc[c] \in Locked \cup {"lock"} => ask[c] # None
    /\ pc[c] \in Locked \ {"probe", "release"} => mine[c] # None
    /\ pc[c] \in {"authorize", "open", "preflight", "intent", "install"} =>
          /\ mine[c].from = installed
          /\ mine[c].project = ask[c].project /\ mine[c].target = ask[c].version

\* What it has on disk, against its memory and against what npm did.
Recorded(c) ==
    /\ pc[c] \in {"idle", "lock", "probe", "authorize", "open"} => receipt[c] = None /\ replaced[c] = None
    /\ pc[c] \in {"preflight", "intent", "install"} => receipt[c] = mine[c] /\ replaced[c] = None
    /\ pc[c] \in {"authorize", "open", "preflight", "intent"} => mine[c].install = "none"
    /\ pc[c] = "install" => mine[c].install = "started"
    /\ pc[c] \in {"settle", "close", "point", "admit"} =>
          /\ receipt[c] # None
          /\ mine[c].from = receipt[c].from /\ mine[c].target = receipt[c].target
          /\ replaced[c] # None => mine[c].install \in {"installed", "failed"}
          /\ mine[c].install = "installed" => replaced[c] # None
    /\ pc[c] = "point" => receipt[c] = mine[c] /\ Confirmed(mine[c])

CallInv == \A c \in Call : Remembers(c) /\ Recorded(c)

\* A pointer is the receipt of an installation that is over.
PointerInv ==
    \A p \in Project : pointer[p] # None =>
        /\ Sound(p)
        /\ pc[pointer[p].of] \in {"release", "done"}

\* The installation d, over, took the version from this one to what is in place.
Replaced(d, to) ==
    /\ pc[d] = "done" /\ receipt[d] # None
    /\ Confirmed(receipt[d]) /\ Undoes(receipt[d], to)

\* Who may lower the version has such an installation to undo.
Entitled(c) ==
    /\ pc[c] \in {"idle", "lock", "probe", "authorize", "done"} => ~may[c]
    /\ pc[c] \in {"intent", "install"} /\ mine[c].target < mine[c].from => may[c]
    /\ pc[c] \in {"open", "preflight", "intent", "install"} /\ may[c] =>
          \E d \in Call : Replaced(d, mine[c].target)

UndoInv == \A c \in Call : Entitled(c)

UpdateInv == TypeOK /\ LockInv /\ CallInv /\ PointerInv /\ UndoInv /\ ReceiptsTrue

-----------------------------------------------------------------------------
(***************************************************************************)
(* What a call does not touch                                              *)
(***************************************************************************)
\* A call leaves the others' receipts, memory and place alone.
Frame(c) ==
    \A d \in Call : d # c =>
        /\ pc'[d] = pc[d] /\ receipt'[d] = receipt[d] /\ mine'[d] = mine[d]
        /\ ask'[d] = ask[d] /\ may'[d] = may[d] /\ replaced'[d] = replaced[d]

\* Of what calls own, a step of a call changes its own alone.
LEMMA ActFrame ==
  ASSUME TypeOK, NEW c \in Call, Act(c)
  PROVE  Frame(c)
<1>0. /\ pc \in [Call -> Place] /\ receipt \in [Call -> Receipt \cup {None}]
      /\ mine \in [Call -> Receipt \cup {None}] /\ ask \in [Call -> Ask \cup {None}]
      /\ may \in [Call -> BOOLEAN] /\ replaced \in [Call -> (Version \X Version) \cup {None}]
  BY DEF TypeOK
<1> USE DEF Frame
<1>1. ASSUME NEW a \in Ask, Start(c, a) PROVE Frame(c)
  BY ONLY <1>0, <1>1 DEF Start, To
<1>2. CASE Acquire(c)
  BY ONLY <1>0, <1>2 DEF Acquire, Step, To
<1>3. CASE Refused(c)
  BY ONLY <1>0, <1>3 DEF Refused, End, To, Keep
<1>4. CASE Probe(c)
  BY ONLY <1>0, <1>4 DEF Probe, Step, To, Keep
<1>5. CASE Authorize(c)
  BY ONLY <1>0, <1>5 DEF Authorize, Step, To
<1>6. CASE Open(c)
  BY ONLY <1>0, <1>6 DEF Open, Step, To, Write
<1>7. CASE GiveUp(c)
  BY ONLY <1>0, <1>7 DEF GiveUp, To
<1>8. CASE Preflight(c)
  BY ONLY <1>0, <1>8 DEF Preflight, Finish, Keep, To
<1>9. CASE Intent(c)
  BY ONLY <1>0, <1>9 DEF Intent, Step, To, Keep, Write
<1>10. CASE Install(c)
  BY ONLY <1>0, <1>10 DEF Install, Step, To, Keep, Replace
<1>11. CASE Flush(c)
  BY ONLY <1>0, <1>11 DEF Flush, Write
<1>12. CASE Settle(c)
  BY ONLY <1>0, <1>12 DEF Settle, Finish, Keep, To
<1>13. CASE Close(c)
  BY ONLY <1>0, <1>13 DEF Close, Step, To, Write
<1>14. CASE Point(c)
  BY ONLY <1>0, <1>14 DEF Point, Keep, To
<1>15. CASE Admit(c)
  BY ONLY <1>0, <1>15 DEF Admit, Step, To, Write
<1>16. CASE Release(c)
  BY ONLY <1>0, <1>16 DEF Release, End, To, Keep
<1>17. CASE Crash(c)
  BY ONLY <1>0, <1>17 DEF Crash, End, To, Keep, Replace, Free
<1> QED
  BY ONLY Act(c), <1>1, <1>2, <1>3, <1>4, <1>5, <1>6, <1>7, <1>8, <1>9, <1>10, <1>11, <1>12, <1>13, <1>14, <1>15, <1>16, <1>17 DEF Act

\* Where the call was and is, and who holds the lock then.
Moves(c) ==
    /\ pc[c] # "done" /\ pc'[c] # "idle"
    /\ pc[c] = "release" => pc'[c] = "done"
    /\ receipt'[c] # receipt[c] => pc[c] \in {"open", "intent", "settle", "close", "admit"}
    /\ installed' # installed => pc[c] = "install"
    /\ \/ holder' = holder /\ (pc'[c] \in Locked <=> pc[c] \in Locked /\ pc'[c] # "done")
       \/ Free /\ holder' = c /\ pc[c] = "lock" /\ pc'[c] = "probe"
       \/ holder' = None /\ pc[c] = "release" /\ pc'[c] = "done"
    /\ outside' = outside

\* The lock is taken when free, and left by who holds it or died with it.
LEMMA ActMoves ==
  ASSUME TypeOK, LockInv, NEW c \in Call, Act(c)
  PROVE  Moves(c)
<1>0. /\ pc \in [Call -> Place] /\ receipt \in [Call -> Receipt \cup {None}]
      /\ (holder = c => pc[c] \in Locked \cup {"done"})
  BY DEF TypeOK, LockInv
<1> USE DEF Moves, Locked, Place
<1>1. ASSUME NEW a \in Ask, Start(c, a) PROVE Moves(c)
  BY ONLY <1>0, NoneAssumption, <1>1 DEF Start, To
<1>2. CASE Acquire(c)
  BY ONLY <1>0, NoneAssumption, <1>2 DEF Acquire, Step, To
<1>3. CASE Refused(c)
  BY ONLY <1>0, NoneAssumption, <1>3 DEF Refused, End, To, Keep
<1>4. CASE Probe(c)
  BY ONLY <1>0, NoneAssumption, <1>4 DEF Probe, Step, To, Keep
<1>5. CASE Authorize(c)
  BY ONLY <1>0, NoneAssumption, <1>5 DEF Authorize, Step, To
<1>6. CASE Open(c)
  BY ONLY <1>0, NoneAssumption, <1>6 DEF Open, Step, To, Write
<1>7. CASE GiveUp(c)
  BY ONLY <1>0, NoneAssumption, <1>7 DEF GiveUp, To
<1>8. CASE Preflight(c)
  BY ONLY <1>0, NoneAssumption, <1>8 DEF Preflight, Finish, Keep, To
<1>9. CASE Intent(c)
  BY ONLY <1>0, NoneAssumption, <1>9 DEF Intent, Step, To, Keep, Write
<1>10. CASE Install(c)
  BY ONLY <1>0, NoneAssumption, <1>10 DEF Install, Step, To, Keep, Replace
<1>11. CASE Flush(c)
  BY ONLY <1>0, NoneAssumption, <1>11 DEF Flush, Write
<1>12. CASE Settle(c)
  BY ONLY <1>0, NoneAssumption, <1>12 DEF Settle, Finish, Keep, To
<1>13. CASE Close(c)
  BY ONLY <1>0, NoneAssumption, <1>13 DEF Close, Step, To, Write
<1>14. CASE Point(c)
  BY ONLY <1>0, NoneAssumption, <1>14 DEF Point, Keep, To
<1>15. CASE Admit(c)
  BY ONLY <1>0, NoneAssumption, <1>15 DEF Admit, Step, To, Write
<1>16. CASE Release(c)
  BY ONLY <1>0, NoneAssumption, <1>16 DEF Release, End, To, Keep
<1>17. CASE Crash(c)
  BY ONLY <1>0, NoneAssumption, <1>17 DEF Crash, End, To, Keep, Replace, Free
<1> QED
  BY ONLY Act(c), <1>1, <1>2, <1>3, <1>4, <1>5, <1>6, <1>7, <1>8, <1>9, <1>10, <1>11, <1>12, <1>13, <1>14, <1>15, <1>16, <1>17 DEF Act

-----------------------------------------------------------------------------
(***************************************************************************)
(* The invariant is kept                                                   *)
(***************************************************************************)
\* What a call has in memory are values of their types.
LEMMA MemoryTypes ==
  ASSUME TypeOK, CallInv, NEW c \in Call
  PROVE  /\ pc[c] \in Place
         /\ pc[c] \in Locked \cup {"lock"} => ask[c] \in Ask
         /\ pc[c] \in Locked \ {"probe", "release"} => mine[c] \in Receipt
  BY DEF TypeOK, CallInv, Remembers, Locked

\* With another state or stage a receipt is still a receipt of the same change.
SameChange(r, q) ==
    /\ q \in Receipt
    /\ q.kind = r.kind /\ q.project = r.project /\ q.from = r.from /\ q.target = r.target

\* The call goes on with such a receipt, at one of these stages.
Rewrites(c, I) ==
    \E q : SameChange(mine[c], q) /\ q.install \in I /\ mine' = [mine EXCEPT ![c] = q]

\* Setting the state and the stage makes such a receipt.
LEMMA StagesAreReceipts ==
  ASSUME NEW r \in Receipt,
         NEW s \in {"queued", "running", "succeeded", "failed", "terminal_uncertain", "rolled_back"},
         NEW i \in {"none", "started", "installed", "failed", "skipped"}
  PROVE  /\ SameChange(r, [r EXCEPT !.state = s, !.install = i])
         /\ [r EXCEPT !.state = s, !.install = i].install = i
  BY DEF Receipt, SameChange

\* The preflight goes on to npm with the receipt it has, or ends short of it.
LEMMA PreflightKeeps ==
  ASSUME TypeOK, NEW c \in Call, mine[c] \in Receipt, Preflight(c)
  PROVE  \/ UNCHANGED mine /\ pc' = [pc EXCEPT ![c] = "intent"]
         \/ Rewrites(c, {"none", "skipped"}) /\ pc' = [pc EXCEPT ![c] = "close"]
         \/ Rewrites(c, {"skipped"}) /\ pc' = [pc EXCEPT ![c] = "settle"]
<1> DEFINE F == [mine[c] EXCEPT !.state = "failed", !.install = "none"]
           S == [mine[c] EXCEPT !.state = "succeeded", !.install = "skipped"]
           R == [mine[c] EXCEPT !.state = "running", !.install = "skipped"]
<1>1. /\ SameChange(mine[c], F) /\ F.install = "none"
      /\ SameChange(mine[c], S) /\ S.install = "skipped"
      /\ SameChange(mine[c], R) /\ R.install = "skipped"
  <2>1. SameChange(mine[c], F) /\ F.install = "none"
    BY StagesAreReceipts
  <2>2. SameChange(mine[c], S) /\ S.install = "skipped"
    BY StagesAreReceipts
  <2>3. SameChange(mine[c], R) /\ R.install = "skipped"
    BY StagesAreReceipts
  <2> HIDE DEF F, S, R
  <2> QED
    BY ONLY <2>1, <2>2, <2>3
<1>2. \/ mine' = [mine EXCEPT ![c] = F] /\ pc' = [pc EXCEPT ![c] = "close"]
      \/ mine' = [mine EXCEPT ![c] = S] /\ pc' = [pc EXCEPT ![c] = "close"]
      \/ mine' = [mine EXCEPT ![c] = R] /\ pc' = [pc EXCEPT ![c] = "settle"]
      \/ UNCHANGED mine /\ pc' = [pc EXCEPT ![c] = "intent"]
  BY ONLY Preflight(c) DEF Preflight, Finish, Keep, To
<1> HIDE DEF F, S, R
<1> QED
  BY ONLY <1>1, <1>2 DEF Rewrites

\* The intent is on disk and in memory alike.
LEMMA IntentKeeps ==
  ASSUME NEW c \in Call, mine[c] \in Receipt, Intent(c)
  PROVE  /\ Rewrites(c, {"started"})
         /\ receipt' = [receipt EXCEPT ![c] = Started(mine[c])]
         /\ mine' = [mine EXCEPT ![c] = Started(mine[c])]
<1>1. SameChange(mine[c], Started(mine[c])) /\ Started(mine[c]).install = "started"
  BY StagesAreReceipts DEF Started
<1>2. mine' = [mine EXCEPT ![c] = Started(mine[c])] /\ receipt' = [receipt EXCEPT ![c] = Started(mine[c])]
  BY ONLY Intent(c) DEF Intent, Keep, Write
<1> QED
  BY ONLY <1>1, <1>2 DEF Rewrites

\* npm replaced the version, or npm failed and may have replaced it.
LEMMA InstallKeeps ==
  ASSUME NEW c \in Call, mine[c] \in Receipt, Install(c)
  PROVE  \/ Replace(c) /\ Rewrites(c, {"installed", "failed"})
         \/ UNCHANGED <<installed, replaced>> /\ Rewrites(c, {"failed"})
<1> DEFINE D == [mine[c] EXCEPT !.install = "installed"]
           F == [mine[c] EXCEPT !.install = "failed"]
<1>1. /\ SameChange(mine[c], D) /\ D.install = "installed"
      /\ SameChange(mine[c], F) /\ F.install = "failed"
  BY DEF SameChange, Receipt
<1>2. \/ Replace(c) /\ mine' = [mine EXCEPT ![c] = D]
      \/ (Replace(c) \/ UNCHANGED <<installed, replaced>>) /\ mine' = [mine EXCEPT ![c] = F]
  BY ONLY Install(c) DEF Install, Keep
<1> HIDE DEF D, F
<1> QED
  BY ONLY <1>1, <1>2 DEF Rewrites

\* The verdict leaves the stage npm got to.
LEMMA SettleKeeps ==
  ASSUME NEW c \in Call, mine[c] \in Receipt, Settle(c)
  PROVE  Rewrites(c, {mine[c].install})
<1> DEFINE G(st) == [mine[c] EXCEPT !.state = st, !.install = mine[c].install]
<1>1. mine[c].install \in {"none", "started", "installed", "failed", "skipped"}
  BY DEF Receipt
<1>2. \A st \in {"succeeded", "rolled_back", "failed", "terminal_uncertain"} :
         SameChange(mine[c], G(st)) /\ G(st).install = mine[c].install
  <2> SUFFICES ASSUME NEW st \in {"succeeded", "rolled_back", "failed", "terminal_uncertain"}
               PROVE  SameChange(mine[c], G(st)) /\ G(st).install = mine[c].install
    OBVIOUS
  <2> QED
    BY <1>1 DEF SameChange, Receipt
<1>3. \E st \in {"succeeded", "rolled_back", "failed", "terminal_uncertain"} :
         mine' = [mine EXCEPT ![c] = G(st)]
  BY ONLY Settle(c) DEF Settle, Finish, Ended, Keep
<1> HIDE DEF G
<1> QED
  BY ONLY <1>2, <1>3 DEF Rewrites

\* The pointer names the call's own receipt, or the write of it failed.
LEMMA PointKeeps ==
  ASSUME NEW c \in Call, mine[c] \in Receipt, Point(c)
  PROVE  \/ /\ UNCHANGED mine /\ pc' = [pc EXCEPT ![c] = "release"]
            /\ pointer' = [pointer EXCEPT ![mine[c].project] = [of |-> c, copy |-> mine[c]]]
         \/ Rewrites(c, {mine[c].install}) /\ pc' = [pc EXCEPT ![c] = "admit"] /\ UNCHANGED pointer
<1> DEFINE U == [mine[c] EXCEPT !.state = "terminal_uncertain"]
<1>1. SameChange(mine[c], U) /\ U.install = mine[c].install
  BY DEF SameChange, Receipt
<1>2. \/ /\ UNCHANGED mine /\ pc' = [pc EXCEPT ![c] = "release"]
         /\ pointer' = [pointer EXCEPT ![mine[c].project] = [of |-> c, copy |-> mine[c]]]
      \/ mine' = [mine EXCEPT ![c] = U] /\ pc' = [pc EXCEPT ![c] = "admit"] /\ UNCHANGED pointer
  BY ONLY Point(c) DEF Point, Keep, To
<1> HIDE DEF U
<1> QED
  BY ONLY <1>1, <1>2 DEF Rewrites

\* What was asked, and the version in place, make a receipt.
LEMMA OpenedIsReceipt ==
  ASSUME TypeOK, NEW c \in Call, ask[c] \in Ask
  PROVE  /\ Opened(c) \in Receipt
         /\ ask[c].project \in Project /\ ask[c].version \in Version
<1>1. ask[c].kind \in Kind /\ ask[c].project \in Project /\ ask[c].version \in Version
  BY DEF Ask, Kind, Version
<1>2. installed \in Version
  BY DEF TypeOK
<1> QED
  BY <1>1, <1>2 DEF Opened, Receipt

\* A rollback is authorized by a confirmed installation of its project that
\* went from the version asked for to the one in place.
LEMMA AuthorizedByReceipt ==
  ASSUME TypeOK, NEW p \in Project, NEW to, NEW d \in Authorizing(p, to)
  PROVE  /\ d \in Call /\ receipt[d] # None /\ receipt[d] \in Receipt
         /\ receipt[d].project = p /\ Confirmed(receipt[d]) /\ Undoes(receipt[d], to)
<1>1. CASE d \in Found(p, to)
  BY <1>1 DEF Found, TypeOK
<1>2. CASE pointer[p] # None /\ Sound(p) /\ Points(p, to) /\ d = pointer[p].of
  <2>1. pointer[p].of \in Call /\ pointer[p].copy \in Receipt
    BY <1>2 DEF TypeOK, Pointer
  <2>2. receipt[d] = pointer[p].copy
    BY <1>2 DEF Sound
  <2> QED
    BY <1>2, <2>1, <2>2 DEF Sound, Points
<1> QED
  BY <1>1, <1>2 DEF Authorizing

\* What a call keeps in memory is a receipt.
LEMMA RewriteTypes ==
  ASSUME TypeOK, NEW c \in Call, NEW I, Rewrites(c, I)
  PROVE  mine' \in [Call -> Receipt \cup {None}] /\ mine'[c] \in Receipt
  BY DEF TypeOK, Rewrites, SameChange

\* A version is replaced by another.
LEMMA ReplaceTypes ==
  ASSUME TypeOK, NEW c \in Call, mine[c] \in Receipt, Replace(c)
  PROVE  /\ installed' \in Version
         /\ replaced' \in [Call -> (Version \X Version) \cup {None}]
<1>1. mine[c].target \in Version /\ installed \in Version
  BY DEF TypeOK, Receipt
<1> QED
  BY <1>1 DEF TypeOK, Replace

\* Every step keeps the variables' types.
LEMMA TypesKept ==
  ASSUME TypeOK, LockInv, CallInv, [Next]_vars
  PROVE  TypeOK'
<1>0. TypeOK /\ 1 \in Version /\ MaxVersion \in Version
  BY DEF Version
<1> USE DEF TypeOK
<1>1. ASSUME NEW c \in Call, Act(c) PROVE TypeOK'
  <2>0. /\ pc[c] \in Place
        /\ pc[c] \in Locked \cup {"lock"} => ask[c] \in Ask
        /\ pc[c] \in Locked \ {"probe", "release"} => mine[c] \in Receipt
    BY MemoryTypes
  <2> USE DEF Place
  <2>1. ASSUME NEW a \in Ask, Start(c, a) PROVE TypeOK'
    BY <1>0, <2>1 DEF Start, To
  <2>2. CASE Acquire(c)
    BY <1>0, <2>0, <2>2 DEF Locked, Acquire, Step, To
  <2>3. CASE Refused(c)
    BY <1>0, <2>0, <2>3 DEF Locked, Refused, End, To, Keep
  <2>4. CASE Probe(c)
    <3>1. Opened(c) \in Receipt
      BY <2>0, <2>4, OpenedIsReceipt DEF Probe, Step, Locked
    <3> QED
      BY <1>0, <2>4, <3>1 DEF Probe, Step, To, Keep
  <2>5. CASE Authorize(c)
    <3>1. ask[c].project \in Project
      BY <2>0, <2>5, OpenedIsReceipt DEF Authorize, Step, Locked
    <3>2. ASSUME NEW d \in Authorizing(ask[c].project, ask[c].version)
          PROVE  [of |-> d, copy |-> receipt[d]] \in Pointer
      BY <3>1, <3>2, AuthorizedByReceipt DEF Pointer
    <3>3. pointer' \in [Project -> Pointer \cup {None}] /\ may' \in [Call -> BOOLEAN]
      <4>1. CASE UNCHANGED <<pointer, may>>
        BY <1>0, <4>1
      <4>2. ASSUME NEW d \in Authorizing(ask[c].project, ask[c].version),
                   pointer' = [pointer EXCEPT ![ask[c].project] = [of |-> d, copy |-> receipt[d]]],
                   may' = [may EXCEPT ![c] = TRUE]
            PROVE  pointer' \in [Project -> Pointer \cup {None}] /\ may' \in [Call -> BOOLEAN]
        BY <1>0, <3>1, <3>2, <4>2
      <4> QED
        BY ONLY <2>5, <4>1, <4>2 DEF Authorize
    <3> QED
      BY <1>0, <2>5, <3>3 DEF Authorize, Step, To
  <2>6. CASE Open(c)
    BY <1>0, <2>0, <2>6 DEF Locked, Open, Step, To, Write
  <2>7. CASE GiveUp(c)
    BY <1>0, <2>0, <2>7 DEF Locked, GiveUp, To
  <2>8. CASE Preflight(c)
    <3>1. mine[c] \in Receipt
      BY <2>0, <2>8 DEF Preflight, Locked
    <3>2. mine' \in [Call -> Receipt \cup {None}]
      BY <1>0, <2>8, <3>1, PreflightKeeps, RewriteTypes
    <3> QED
      BY <1>0, <2>8, <3>2 DEF Preflight, Finish, To
  <2>9. CASE Intent(c)
    <3>1. mine[c] \in Receipt
      BY <2>0, <2>9 DEF Intent, Step, Locked
    <3>2. mine' \in [Call -> Receipt \cup {None}] /\ mine'[c] \in Receipt
      BY <1>0, <2>9, <3>1, IntentKeeps, RewriteTypes
    <3>3. receipt' = [receipt EXCEPT ![c] = mine'[c]]
      BY <1>0, <2>9, <3>1, IntentKeeps
    <3> QED
      BY <1>0, <2>9, <3>2, <3>3 DEF Intent, Step, To
  <2>10. CASE Install(c)
    <3>1. mine[c] \in Receipt
      BY <2>0, <2>10 DEF Install, Step, Locked
    <3>2. mine' \in [Call -> Receipt \cup {None}]
      BY <1>0, <2>10, <3>1, InstallKeeps, RewriteTypes
    <3>3. installed' \in Version /\ replaced' \in [Call -> (Version \X Version) \cup {None}]
      BY <1>0, <2>10, <3>1, ReplaceTypes DEF Install
    <3> QED
      BY <1>0, <2>10, <3>2, <3>3 DEF Install, Step, To
  <2>11. CASE Flush(c)
    BY <1>0, <2>0, <2>11 DEF Locked, Flush, Write
  <2>12. CASE Settle(c)
    <3>1. mine[c] \in Receipt
      BY <2>0, <2>12 DEF Settle, Locked
    <3>2. mine' \in [Call -> Receipt \cup {None}]
      BY <1>0, <2>12, <3>1, SettleKeeps, RewriteTypes
    <3> QED
      BY <1>0, <2>12, <3>2 DEF Settle, Finish, To
  <2>13. CASE Close(c)
    BY <1>0, <2>0, <2>13 DEF Locked, Close, Step, To, Write
  <2>14. CASE Point(c)
    <3>1. mine[c] \in Receipt
      BY <2>0, <2>14 DEF Point, Locked
    <3>2. mine[c].project \in Project /\ [of |-> c, copy |-> mine[c]] \in Pointer
      BY <3>1 DEF Receipt, Pointer
    <3>3. pointer' \in [Project -> Pointer \cup {None}]
      BY <1>0, <2>14, <3>1, <3>2, PointKeeps
    <3>4. mine' \in [Call -> Receipt \cup {None}]
      BY <1>0, <2>14, <3>1, PointKeeps, RewriteTypes
    <3> QED
      BY <1>0, <2>14, <3>3, <3>4 DEF Point, To
  <2>15. CASE Admit(c)
    BY <1>0, <2>0, <2>15 DEF Locked, Admit, Step, To, Write
  <2>16. CASE Release(c)
    BY <1>0, <2>0, <2>16 DEF Locked, Release, End, To, Keep
  <2>17. CASE Crash(c)
    <3>1. installed' \in Version /\ replaced' \in [Call -> (Version \X Version) \cup {None}]
      <4>1. CASE pc[c] = "install" /\ Replace(c)
        BY <2>0, <4>1, ReplaceTypes DEF Locked
      <4> QED
        BY <1>0, <2>17, <4>1 DEF Crash
    <3> QED
      BY <1>0, <2>17, <3>1 DEF Crash, End, To, Keep
  <2> QED
    BY ONLY <1>1, <2>1, <2>2, <2>3, <2>4, <2>5, <2>6, <2>7, <2>8, <2>9, <2>10, <2>11, <2>12, <2>13, <2>14, <2>15, <2>16, <2>17 DEF Act
<1>2. ASSUME NEW v \in Version, Outside(v) PROVE TypeOK'
  BY <1>0, <1>2 DEF Outside
<1>3. CASE UNCHANGED vars
  BY <1>0, <1>3 DEF vars
<1> QED
  BY ONLY [Next]_vars, <1>1, <1>2, <1>3 DEF Next

\* Every step keeps the lock to one call that is not dead.
LEMMA LockKept ==
  ASSUME TypeOK, LockInv, [Next]_vars
  PROVE  LockInv'
<1>1. ASSUME NEW c \in Call, Act(c) PROVE LockInv'
  <2>1. Moves(c) /\ Frame(c)
    BY <1>1, ActMoves, ActFrame
  <2>2. \A d \in Call : pc'[d] \in Locked => holder' = d
    <3>1. ASSUME NEW d \in Call, d # c, pc'[d] \in Locked PROVE holder' = d
      BY <2>1, <3>1 DEF Moves, Frame, LockInv, Free, Locked
    <3>2. pc'[c] \in Locked => holder' = c
      BY <2>1 DEF Moves, LockInv, Locked
    <3> QED
      BY <3>1, <3>2
  <2>3. holder' # None => pc'[holder'] \in Locked \cup {"done"}
    <3>1. CASE holder' = c
      BY <2>1, <3>1 DEF Moves, LockInv, Locked, TypeOK, Place
    <3>2. CASE holder' # c
      BY <2>1, <3>2 DEF Moves, Frame, LockInv, TypeOK
    <3> QED
      BY <3>1, <3>2
  <2> QED
    BY <2>2, <2>3 DEF LockInv
<1>2. ASSUME NEW v \in Version, Outside(v) PROVE LockInv'
  BY <1>2 DEF Outside, LockInv
<1>3. CASE UNCHANGED vars
  BY <1>3 DEF vars, LockInv
<1> QED
  BY ONLY [Next]_vars, <1>1, <1>2, <1>3 DEF Next

\* The receipt of one call against what npm did for it.
Truthful(c) ==
    /\ replaced[c] # None =>
          /\ receipt[c] # None /\ receipt[c].install # "none"
          /\ replaced[c] = <<receipt[c].from, receipt[c].target>>
    /\ receipt[c] # None /\ receipt[c].install = "installed" => replaced[c] # None

\* A step of a call keeps its memory and its receipt in order.
LEMMA OwnKept ==
  ASSUME UpdateInv, NEW c \in Call, Act(c)
  PROVE  (Remembers(c))' /\ (Recorded(c))' /\ (Truthful(c))'
<1>0. /\ receipt \in [Call -> Receipt \cup {None}] /\ mine \in [Call -> Receipt \cup {None}]
      /\ pc \in [Call -> Place] /\ ask \in [Call -> Ask \cup {None}]
      /\ replaced \in [Call -> (Version \X Version) \cup {None}]
      /\ Remembers(c) /\ Recorded(c) /\ Truthful(c) /\ installed \in Version
      /\ pc[c] \in Locked \cup {"lock"} => ask[c] \in Ask
      /\ pc[c] \in Locked \ {"probe", "release"} => mine[c] \in Receipt
  BY MemoryTypes DEF UpdateInv, TypeOK, CallInv, ReceiptsTrue, Truthful
<1> USE DEF Remembers, Recorded, Truthful, Locked
<1>1. ASSUME NEW a \in Ask, Start(c, a) PROVE (Remembers(c))' /\ (Recorded(c))' /\ (Truthful(c))'
  BY ONLY <1>0, <1>1, NoneAssumption DEF Start, To
<1>2. CASE Acquire(c)
  BY ONLY <1>0, <1>2, NoneAssumption DEF Acquire, Step, To
<1>3. CASE Refused(c)
  BY ONLY <1>0, <1>3, NoneAssumption DEF Refused, End, To, Keep
<1>4. CASE Probe(c)
  <2>1. Opened(c) \in Receipt
    BY <1>0, <1>4, OpenedIsReceipt DEF UpdateInv, Probe, Step
  <2>2. /\ mine'[c] = Opened(c) /\ pc[c] = "probe" /\ pc'[c] \in {"authorize", "open"}
        /\ UNCHANGED <<installed, receipt, ask, replaced>>
    BY ONLY <1>0, <1>4 DEF Probe, Step, To, Keep
  <2>3. Opened(c).from = installed /\ Opened(c).project = ask[c].project /\ Opened(c).target = ask[c].version
       /\ Opened(c).install = "none"
    BY DEF Opened
  <2> QED
    BY ONLY <1>0, <2>1, <2>2, <2>3, NoneAssumption
<1>5. CASE Authorize(c)
  BY ONLY <1>0, <1>5, NoneAssumption DEF Authorize, Step, To
<1>6. CASE Open(c)
  <2>1. /\ receipt'[c] = mine[c] /\ pc[c] = "open" /\ pc'[c] = "preflight"
        /\ UNCHANGED <<installed, mine, ask, replaced>>
    BY ONLY <1>0, <1>6 DEF Open, Step, To, Write
  <2>2. mine[c].install = "none"
    BY ONLY <1>0, <2>1
  <2> QED
    BY ONLY <1>0, <2>1, <2>2, NoneAssumption
<1>7. CASE GiveUp(c)
  BY ONLY <1>0, <1>7, NoneAssumption DEF GiveUp, To
<1>8. CASE Preflight(c)
  <2>1. pc[c] = "preflight" /\ UNCHANGED <<installed, receipt, ask, replaced>>
    BY ONLY <1>8 DEF Preflight
  <2>2. mine[c] \in Receipt
    BY ONLY <1>0, <2>1
  <2>3. CASE UNCHANGED mine /\ pc' = [pc EXCEPT ![c] = "intent"]
    BY ONLY <1>0, <2>1, <2>3
  <2>4. ASSUME Rewrites(c, {"none", "skipped"}), pc'[c] \in {"close", "settle"}
        PROVE  (Remembers(c))' /\ (Recorded(c))' /\ (Truthful(c))'
    BY ONLY <1>0, <2>1, <2>4, NoneAssumption DEF Rewrites, SameChange
  <2> QED
    BY ONLY <1>0, <1>8, <2>2, <2>3, <2>4, PreflightKeeps, UpdateInv DEF UpdateInv, Rewrites
<1>9. CASE Intent(c)
  <2>1. /\ pc[c] = "intent" /\ pc'[c] = "install"
        /\ UNCHANGED <<installed, ask, replaced>>
    BY ONLY <1>0, <1>9 DEF Intent, Step, To
  <2>2. Rewrites(c, {"started"}) /\ receipt'[c] = mine'[c]
    BY ONLY <1>0, <1>9, <2>1, IntentKeeps
  <2> QED
    BY ONLY <1>0, <2>1, <2>2, NoneAssumption DEF Rewrites, SameChange
<1>10. CASE Install(c)
  <2>1. /\ pc[c] = "install" /\ pc'[c] = "settle"
        /\ UNCHANGED <<ask, receipt>>
    BY ONLY <1>0, <1>10 DEF Install, Step, To
  <2>2. /\ mine[c] \in Receipt /\ receipt[c] = mine[c] /\ mine[c].from = installed
        /\ mine[c].install = "started" /\ replaced[c] = None /\ mine[c].target \in Version
    BY ONLY <1>0, <2>1 DEF Receipt
  <2>3. CASE Replace(c) /\ Rewrites(c, {"installed", "failed"})
    <3>1. replaced'[c] = <<mine[c].from, mine[c].target>> /\ replaced'[c] # None
      BY ONLY <1>0, <2>2, <2>3, NoneAssumption DEF Replace
    <3> QED
      BY ONLY <1>0, <2>1, <2>2, <2>3, <3>1, NoneAssumption DEF Rewrites, SameChange
  <2>4. CASE UNCHANGED <<installed, replaced>> /\ Rewrites(c, {"failed"})
    BY ONLY <1>0, <2>1, <2>2, <2>4, NoneAssumption DEF Rewrites, SameChange
  <2> QED
    BY ONLY <1>10, <2>2, <2>3, <2>4, InstallKeeps
<1>11. CASE Flush(c)
  BY ONLY <1>0, <1>11, NoneAssumption DEF Flush, Write
<1>12. CASE Settle(c)
  <2>1. /\ pc[c] = "settle" /\ pc'[c] = "close"
        /\ UNCHANGED <<installed, ask, receipt, replaced>>
    BY ONLY <1>0, <1>12 DEF Settle, Finish, To
  <2>2. Rewrites(c, {mine[c].install})
    BY ONLY <1>0, <1>12, <2>1, SettleKeeps
  <2> QED
    BY ONLY <1>0, <2>1, <2>2, NoneAssumption DEF Rewrites, SameChange
<1>13. CASE Close(c)
  BY ONLY <1>0, <1>13, NoneAssumption DEF Close, Step, To, Write
<1>14. CASE Point(c)
  <2>1. pc[c] = "point" /\ UNCHANGED <<installed, ask, receipt, replaced>>
    BY ONLY <1>14 DEF Point
  <2>2. \/ UNCHANGED mine /\ pc'[c] = "release"
        \/ Rewrites(c, {mine[c].install}) /\ pc'[c] = "admit"
    BY ONLY <1>0, <1>14, <2>1, PointKeeps
  <2> QED
    BY ONLY <1>0, <2>1, <2>2, NoneAssumption DEF Rewrites, SameChange
<1>15. CASE Admit(c)
  BY ONLY <1>0, <1>15, NoneAssumption DEF Admit, Step, To, Write
<1>16. CASE Release(c)
  BY ONLY <1>0, <1>16, NoneAssumption DEF Release, End, To, Keep
<1>17. CASE Crash(c)
  BY ONLY <1>0, <1>17, NoneAssumption DEF Crash, End, To, Keep, Replace, Free
<1> QED
  BY ONLY Act(c), <1>1, <1>2, <1>3, <1>4, <1>5, <1>6, <1>7, <1>8, <1>9, <1>10, <1>11, <1>12, <1>13, <1>14, <1>15, <1>16, <1>17 DEF Act

\* Every call's memory and receipt stay in order, whoever takes the step.
LEMMA CallKept ==
  ASSUME UpdateInv, [Next]_vars
  PROVE  CallInv' /\ ReceiptsTrue'
<1>0. \A d \in Call : Remembers(d) /\ Recorded(d) /\ Truthful(d)
  BY DEF UpdateInv, CallInv, ReceiptsTrue, Truthful
<1>1. SUFFICES \A d \in Call : (Remembers(d))' /\ (Recorded(d))' /\ (Truthful(d))'
  BY DEF CallInv, ReceiptsTrue, Truthful
<1>2. ASSUME NEW c \in Call, Act(c), NEW d \in Call, d # c
      PROVE  (Remembers(d))' /\ (Recorded(d))' /\ (Truthful(d))'
  <2>1. Moves(c) /\ Frame(c)
    BY <1>2, ActMoves, ActFrame DEF UpdateInv
  <2>2. pc[d] \in Locked => installed' = installed
    BY <1>2, <2>1 DEF Moves, UpdateInv, LockInv, Locked
  <2>3. /\ pc'[d] = pc[d] /\ receipt'[d] = receipt[d] /\ mine'[d] = mine[d]
        /\ ask'[d] = ask[d] /\ replaced'[d] = replaced[d]
    BY <1>2, <2>1 DEF Frame
  <2> QED
    BY ONLY <1>0, <1>2, <2>2, <2>3 DEF Remembers, Recorded, Truthful, Locked, Confirmed, Terminal
<1>3. ASSUME NEW c \in Call, Act(c) PROVE \A d \in Call : (Remembers(d))' /\ (Recorded(d))' /\ (Truthful(d))'
  BY <1>2, <1>3, OwnKept
<1>4. ASSUME NEW v \in Version, Outside(v), NEW d \in Call
      PROVE  (Remembers(d))' /\ (Recorded(d))' /\ (Truthful(d))'
  <2>1. pc[d] \notin Locked
    BY <1>4 DEF Outside, Free, UpdateInv, LockInv, Locked
  <2>2. UNCHANGED <<receipt, replaced, pc, ask, mine>>
    BY <1>4 DEF Outside
  <2> QED
    BY ONLY <1>0, <1>4, <2>1, <2>2 DEF Remembers, Recorded, Truthful, Locked, Confirmed, Terminal
<1>5. CASE UNCHANGED vars
  BY ONLY <1>0, <1>5 DEF vars, Remembers, Recorded, Truthful, Confirmed, Terminal
<1> QED
  BY ONLY [Next]_vars, <1>3, <1>4, <1>5 DEF Next

\* What a pointer names, and what a rollback goes by, is not written any more.
LEMMA ReceiptsOver ==
  ASSUME UpdateInv, NEW c \in Call, Act(c), NEW d \in Call, pc[d] \in {"release", "done"}
  PROVE  /\ pc'[d] \in {"release", "done"} /\ (pc[d] = "done" => pc'[d] = "done")
         /\ receipt'[d] = receipt[d]
<1>1. Moves(c) /\ Frame(c)
  BY ActMoves, ActFrame DEF UpdateInv
<1> QED
  BY <1>1 DEF Moves, Frame

\* A rollback under the lock goes by a receipt of a call that is over.
LEMMA AuthorizedByReplaced ==
  ASSUME UpdateInv, NEW c \in Call, pc[c] = "authorize", NEW p \in Project, NEW to,
         NEW d \in Authorizing(p, to)
  PROVE  d \in Call /\ Replaced(d, to)
<1>1. /\ d \in Call /\ receipt[d] # None
      /\ Confirmed(receipt[d]) /\ Undoes(receipt[d], to)
  BY AuthorizedByReceipt DEF UpdateInv
<1>2. Recorded(c) /\ Recorded(d) /\ pc[d] \in Place
  BY <1>1 DEF UpdateInv, CallInv, TypeOK
<1>3. c # d
  BY <1>1, <1>2 DEF Recorded
<1>4. pc[d] \notin Locked
  BY <1>1, <1>3 DEF UpdateInv, LockInv, Locked
<1> QED
  BY <1>1, <1>2, <1>4 DEF Replaced, Recorded, Place, Locked

\* Every step keeps the pointers sound: a receipt pointed to stays as it was.
LEMMA PointerKept ==
  ASSUME UpdateInv, [Next]_vars
  PROVE  PointerInv'
<1>0. \A p \in Project : pointer[p] # None =>
        /\ pointer[p].of \in Call /\ pointer[p].copy \in Receipt
        /\ Sound(p) /\ pc[pointer[p].of] \in {"release", "done"}
  BY DEF UpdateInv, PointerInv, TypeOK, Pointer
<1>1. ASSUME NEW c \in Call, Act(c) PROVE PointerInv'
  <2>1. ASSUME UNCHANGED pointer PROVE PointerInv'
    BY <1>0, <1>1, <2>1, ReceiptsOver DEF PointerInv, Sound, Confirmed, Terminal
  <2>2. ASSUME NEW p \in Project, NEW d \in Call, NEW r \in Receipt,
               pointer' = [pointer EXCEPT ![p] = [of |-> d, copy |-> r]],
               r.project = p, Confirmed(r), receipt'[d] = r, pc'[d] \in {"release", "done"}
        PROVE  PointerInv'
    <3>1. ASSUME NEW q \in Project, q # p, pointer'[q] # None
          PROVE  (Sound(q))' /\ pc'[pointer'[q].of] \in {"release", "done"}
      <4>1. pointer'[q] = pointer[q]
        BY <2>2, <3>1 DEF UpdateInv, TypeOK
      <4> QED
        BY <1>0, <1>1, <3>1, <4>1, ReceiptsOver DEF Sound, Confirmed, Terminal
    <3>2. pointer'[p] = [of |-> d, copy |-> r]
      BY <2>2 DEF UpdateInv, TypeOK
    <3>3. (Sound(p))' /\ pc'[pointer'[p].of] \in {"release", "done"}
      BY <2>2, <3>2 DEF Sound, Confirmed, Terminal
    <3> QED
      BY <3>1, <3>3 DEF PointerInv
  <2>3. CASE Authorize(c)
    <3>1. pc[c] = "authorize" /\ ask[c].project \in Project
      BY <2>3, MemoryTypes, OpenedIsReceipt DEF Authorize, Step, UpdateInv, Locked
    <3>2. ASSUME NEW d \in Authorizing(ask[c].project, ask[c].version),
                 pointer' = [pointer EXCEPT ![ask[c].project] = [of |-> d, copy |-> receipt[d]]]
          PROVE  PointerInv'
      <4>1. /\ d \in Call /\ receipt[d] \in Receipt
            /\ receipt[d].project = ask[c].project /\ Confirmed(receipt[d]) /\ pc[d] = "done"
        BY <3>1, <3>2, AuthorizedByReceipt, AuthorizedByReplaced DEF UpdateInv, Replaced
      <4>2. receipt'[d] = receipt[d] /\ pc'[d] = "done"
        BY <1>1, <4>1, ReceiptsOver
      <4> QED
        BY <2>2, <3>1, <3>2, <4>1, <4>2
    <3> QED
      BY ONLY <2>1, <2>3, <3>2 DEF Authorize
  <2>4. CASE Point(c)
    <3>1. /\ mine[c] \in Receipt /\ receipt[c] = mine[c] /\ Confirmed(mine[c])
          /\ mine[c].project \in Project
      BY <2>4, MemoryTypes DEF Point, UpdateInv, CallInv, Recorded, Locked, Receipt
    <3>2. ASSUME pc' = [pc EXCEPT ![c] = "release"],
                 pointer' = [pointer EXCEPT ![mine[c].project] = [of |-> c, copy |-> mine[c]]]
          PROVE  PointerInv'
      BY <2>2, <2>4, <3>1, <3>2 DEF Point, UpdateInv, TypeOK
    <3> QED
      BY <2>1, <2>4, <3>1, <3>2, PointKeeps
  <2>5. CASE UNCHANGED pointer
    BY <2>1, <2>5
  <2> QED
    BY ONLY <1>1, <2>3, <2>4, <2>5 DEF Act, Start, Acquire, Refused, Probe, Open, GiveUp, Preflight,
       Intent, Install, Flush, Settle, Close, Admit, Release, Crash
<1>2. ASSUME NEW v \in Version, Outside(v) PROVE PointerInv'
  BY <1>0, <1>2 DEF Outside, PointerInv, Sound, Confirmed, Terminal
<1>3. CASE UNCHANGED vars
  BY <1>0, <1>3 DEF vars, PointerInv, Sound, Confirmed, Terminal
<1> QED
  BY ONLY [Next]_vars, <1>1, <1>2, <1>3 DEF Next

\* A step of a call keeps its own right to lower the version.
LEMMA OwnRight ==
  ASSUME UpdateInv, NEW c \in Call, Act(c)
  PROVE  (Entitled(c))'
<1>0. /\ pc \in [Call -> Place] /\ may \in [Call -> BOOLEAN] /\ mine \in [Call -> Receipt \cup {None}]
      /\ Entitled(c) /\ (pc[c] \in Locked \ {"probe", "release"} => mine[c] \in Receipt)
  BY MemoryTypes DEF UpdateInv, TypeOK, UndoInv
<1>1. ASSUME ~may'[c], pc'[c] \notin {"intent", "install"} PROVE (Entitled(c))'
  BY ONLY <1>1 DEF Entitled
<1>2. ASSUME pc'[c] \notin {"idle", "lock", "probe", "authorize", "done", "open", "preflight", "intent", "install"}
      PROVE  (Entitled(c))'
  BY ONLY <1>2 DEF Entitled
<1>3. ASSUME installed' = installed, may'[c] = may[c], mine'[c].target = mine[c].target,
             mine'[c].from = mine[c].from, pc[c] \in {"open", "preflight", "intent", "install"},
             pc'[c] \in {"preflight", "intent", "install"},
             pc'[c] \in {"intent", "install"} /\ mine[c].target < mine[c].from => may[c]
      PROVE  (Entitled(c))'
  <2>1. ASSUME may[c] PROVE (\E d \in Call : Replaced(d, mine[c].target))'
    <3>1. PICK d \in Call : Replaced(d, mine[c].target)
      BY ONLY <1>0, <1>3, <2>1 DEF Entitled
    <3>2. pc'[d] = "done" /\ receipt'[d] = receipt[d]
      BY <3>1, ReceiptsOver DEF Replaced
    <3>3. (Replaced(d, mine[c].target))'
      BY ONLY <1>3, <3>1, <3>2 DEF Replaced, Undoes, Confirmed, Terminal
    <3> QED
      BY ONLY <3>3
  <2> QED
    BY ONLY <1>3, <2>1 DEF Entitled
<1>4. ASSUME NEW a \in Ask, Start(c, a) PROVE (Entitled(c))'
  BY <1>0, <1>1, <1>4 DEF Start, To, Entitled
<1>5. CASE Acquire(c) \/ Probe(c)
  BY <1>0, <1>1, <1>5 DEF Acquire, Probe, Step, To, Entitled
<1>6. CASE Refused(c) \/ Release(c) \/ Crash(c)
  BY <1>0, <1>1, <1>6 DEF Refused, Release, Crash, End, To
<1>7. CASE Authorize(c)
  <2>1. pc[c] = "authorize" /\ pc'[c] = "open" /\ ~may[c] /\ UNCHANGED <<installed, mine>>
    BY <1>0, <1>7 DEF Authorize, Step, To, Entitled
  <2>2. CASE UNCHANGED may
    BY <1>1, <2>1, <2>2
  <2>3. ASSUME NEW d \in Authorizing(ask[c].project, ask[c].version) PROVE (Entitled(c))'
    <3>1. ask[c].project \in Project /\ mine[c].target = ask[c].version
      BY <2>1, MemoryTypes, OpenedIsReceipt DEF UpdateInv, CallInv, Remembers, Locked
    <3>2. d \in Call /\ Replaced(d, mine[c].target)
      BY <2>1, <2>3, <3>1, AuthorizedByReplaced
    <3>3. (Replaced(d, mine[c].target))'
      <4>1. pc'[d] = "done" /\ receipt'[d] = receipt[d]
        BY <3>2, ReceiptsOver DEF Replaced
      <4> QED
        BY ONLY <2>1, <3>2, <4>1 DEF Replaced, Undoes, Confirmed, Terminal
    <3> QED
      BY ONLY <2>1, <3>2, <3>3 DEF Entitled
  <2> QED
    BY ONLY <1>7, <2>2, <2>3 DEF Authorize
<1>8. CASE Open(c)
  BY <1>0, <1>3, <1>8 DEF Open, Step, To
<1>9. CASE Preflight(c)
  <2>1. pc[c] = "preflight" /\ mine[c] \in Receipt /\ UNCHANGED <<installed, may>>
    BY <1>0, <1>9 DEF Preflight, Locked
  <2>2. ASSUME pc'[c] = "intent", UNCHANGED mine PROVE (Entitled(c))'
    <3>1. mine[c].target < mine[c].from => may[c]
      BY ONLY <1>0, <1>9, <2>1, <2>2 DEF Preflight, Finish, To, Forbidden
    <3> QED
      BY ONLY <1>3, <2>1, <2>2, <3>1
  <2> QED
    BY ONLY <1>0, <1>2, <1>9, <2>1, <2>2, UpdateInv, PreflightKeeps DEF UpdateInv
<1>10. CASE Intent(c)
  <2>1. pc[c] = "intent" /\ pc'[c] = "install" /\ UNCHANGED <<installed, may>>
    BY <1>0, <1>10 DEF Intent, Step, To
  <2>2. mine'[c].target = mine[c].target /\ mine'[c].from = mine[c].from
    BY <1>0, <1>10, <2>1, IntentKeeps DEF Locked, Rewrites, SameChange
  <2> QED
    BY <1>0, <1>3, <2>1, <2>2 DEF Entitled
<1>11. CASE Install(c) \/ Flush(c) \/ Settle(c) \/ Close(c) \/ Point(c) \/ Admit(c) \/ GiveUp(c)
  BY <1>0, <1>2, <1>11 DEF Install, Flush, Settle, Close, Point, Admit, GiveUp, Step, To, Finish
<1> QED
  BY ONLY Act(c), <1>4, <1>5, <1>6, <1>7, <1>8, <1>9, <1>10, <1>11 DEF Act

\* Every step keeps the rights to lower the version: under the lock, the
\* version in place is still the one that the receipt gone by had installed.
LEMMA UndoKept ==
  ASSUME UpdateInv, [Next]_vars
  PROVE  UndoInv'
<1>1. ASSUME NEW c \in Call, Act(c), NEW d \in Call, d # c PROVE (Entitled(d))'
  <2>1. Moves(c) /\ Frame(c) /\ Entitled(d)
    BY <1>1, ActMoves, ActFrame DEF UpdateInv, UndoInv
  <2>2. pc[d] \in Locked => installed' = installed
    BY <1>1, <2>1 DEF Moves, UpdateInv, LockInv, Locked
  <2>3. pc'[d] = pc[d] /\ may'[d] = may[d] /\ mine'[d] = mine[d]
    BY <1>1, <2>1 DEF Frame
  <2>4. ASSUME pc[d] \in {"open", "preflight", "intent", "install"}, may[d]
        PROVE  (\E e \in Call : Replaced(e, mine[d].target))'
    <3>1. PICK e \in Call : Replaced(e, mine[d].target)
      BY ONLY <2>1, <2>4 DEF Entitled
    <3>2. pc'[e] = "done" /\ receipt'[e] = receipt[e]
      BY <1>1, <3>1, ReceiptsOver DEF Replaced
    <3>3. (Replaced(e, mine[d].target))'
      BY ONLY <2>2, <2>3, <2>4, <3>1, <3>2 DEF Replaced, Undoes, Confirmed, Terminal, Locked
    <3> QED
      BY ONLY <3>3
  <2> QED
    BY ONLY <2>1, <2>3, <2>4 DEF Entitled
<1>2. ASSUME NEW c \in Call, Act(c) PROVE UndoInv'
  BY <1>1, <1>2, OwnRight DEF UndoInv
<1>3. ASSUME NEW v \in Version, Outside(v) PROVE UndoInv'
  <2>1. \A d \in Call : pc[d] \notin Locked
    BY <1>3 DEF Outside, Free, UpdateInv, LockInv, Locked
  <2>2. UNCHANGED <<pc, may, mine>>
    BY <1>3 DEF Outside
  <2>3. UndoInv
    BY DEF UpdateInv
  <2> QED
    BY ONLY <2>1, <2>2, <2>3 DEF UndoInv, Entitled, Locked
<1>4. CASE UNCHANGED vars
  BY <1>4 DEF vars, UpdateInv, UndoInv, Entitled, Replaced, Undoes, Confirmed, Terminal
<1> QED
  BY ONLY [Next]_vars, <1>2, <1>3, <1>4 DEF Next

-----------------------------------------------------------------------------
(***************************************************************************)
(* Theorems                                                                *)
(***************************************************************************)
\* The invariant holds before the first call,
LEMMA UpdateInit == Init => UpdateInv
<1> SUFFICES ASSUME Init PROVE UpdateInv
  OBVIOUS
<1>1. 1 \in Version
  BY DEF Version
<1>2. TypeOK
  BY <1>1 DEF Init, TypeOK, Place
<1> QED
  BY <1>2 DEF Init, UpdateInv, LockInv, Locked, CallInv, Remembers, Recorded, PointerInv, UndoInv, Entitled, ReceiptsTrue

\* and every step keeps it.
LEMMA UpdateNext == UpdateInv /\ [Next]_vars => UpdateInv'
<1> SUFFICES ASSUME UpdateInv, [Next]_vars PROVE UpdateInv'
  OBVIOUS
<1>1. TypeOK' /\ LockInv'
  BY TypesKept, LockKept DEF UpdateInv
<1> QED
  BY <1>1, CallKept, PointerKept, UndoKept DEF UpdateInv

\* The lock, what calls remember, what is on disk and what npm did agree, at
\* every step of any number of calls, killed ones among them.
THEOREM UpdateInvariant == Spec => []UpdateInv
  BY UpdateInit, UpdateNext, PTL DEF Spec

\* The variables have their types throughout.
THEOREM UpdateTypes == Spec => []TypeOK
<1>1. UpdateInv => TypeOK
  BY DEF UpdateInv
<1> QED
  BY <1>1, UpdateInvariant, PTL

\* The receipts tell what npm did (the intent is flushed before npm is run).
THEOREM ReceiptsAreTrue == Spec => []ReceiptsTrue
<1>1. UpdateInv => ReceiptsTrue
  BY DEF UpdateInv
<1> QED
  BY <1>1, UpdateInvariant, PTL

\* A confirmed installation that is in place can be undone from its project,
\* pointer or none: the scan of the receipts finds it when the pointer is of
\* another one.
THEOREM InstalledCanBeUndone == Spec => []ConfirmedCanBeUndone
<1>1. UpdateInv => ConfirmedCanBeUndone
  <2> SUFFICES ASSUME UpdateInv, NEW c \in Call, receipt[c] # None, Confirmed(receipt[c]),
                      receipt[c].target = installed
               PROVE  Authorizing(receipt[c].project, receipt[c].from) # {}
    BY DEF ConfirmedCanBeUndone
  <2>1. receipt[c].project \in Project
    BY DEF UpdateInv, TypeOK, Receipt
  <2>2. c \in Found(receipt[c].project, receipt[c].from)
    BY DEF Found, Undoes
  <2>3. pointer[receipt[c].project] # None => Sound(receipt[c].project)
    BY <2>1 DEF UpdateInv, PointerInv
  <2> QED
    BY <2>2, <2>3 DEF Authorizing
<1> QED
  BY <1>1, UpdateInvariant, PTL

\* A call lowers the version only back to one that an update replaced by the
\* version in place.
THEOREM DowngradesAreUndos == Spec => DowngradeIsUndo
<1> DEFINE Undo == installed' < installed /\ outside' = outside =>
          \E c \in Call : /\ replaced[c] = <<installed', installed>>
                         /\ receipt[c].kind = "update"
<1>1. UpdateInv /\ [Next]_vars => [Undo]_vars
  <2> SUFFICES ASSUME UpdateInv, [Next]_vars, installed' < installed, outside' = outside
               PROVE  \E c \in Call : /\ replaced[c] = <<installed', installed>>
                                      /\ receipt[c].kind = "update"
    OBVIOUS
  <2>1. installed \in Nat /\ installed' # installed /\ outside \in Nat
    <3>1. installed \in Version /\ installed' \in Version
      BY TypesKept DEF UpdateInv, TypeOK
    <3> QED
      BY <3>1 DEF Version, UpdateInv, TypeOK
  <2>2. ASSUME NEW c \in Call, Act(c)
        PROVE  \E d \in Call : replaced[d] = <<installed', installed>> /\ receipt[d].kind = "update"
    <3>1. pc[c] = "install"
      BY <2>1, <2>2, ActMoves DEF Moves, UpdateInv
    <3>2. installed' = mine[c].target /\ mine[c].from = installed /\ Entitled(c)
      <4>1. Replace(c)
        BY <2>1, <2>2, <3>1 DEF Act, Start, Acquire, Refused, Probe, Authorize, Open, GiveUp, Preflight,
           Intent, Install, Flush, Settle, Close, Point, Admit, Release, Crash, Step
      <4> QED
        BY <3>1, <4>1 DEF Replace, UpdateInv, CallInv, Remembers, UndoInv
    <3>3. PICK d \in Call : Replaced(d, mine[c].target)
      BY <3>1, <3>2 DEF Entitled
    <3>4. replaced[d] # None
      BY <3>3 DEF Replaced, UpdateInv, ReceiptsTrue, Confirmed
    <3>5. replaced[d] = <<installed', installed>>
      BY <3>2, <3>3, <3>4 DEF Replaced, UpdateInv, ReceiptsTrue, Undoes
    <3> QED
      BY <3>3, <3>5 DEF Replaced, Confirmed
  <2>3. ASSUME NEW v \in Version, Outside(v) PROVE FALSE
    BY <2>1, <2>3 DEF Outside
  <2>4. CASE UNCHANGED vars
    BY <2>1, <2>4 DEF vars
  <2> QED
    BY ONLY [Next]_vars, <2>2, <2>3, <2>4 DEF Next
<1> QED
  BY <1>1, UpdateInvariant, PTL DEF Spec, DowngradeIsUndo
=============================================================================
