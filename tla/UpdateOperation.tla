-------------------------- MODULE UpdateOperation --------------------------
(***************************************************************************)
(* Updates and rollbacks of the one global installation (src/src/core/     *)
(* update-check.ts, runSksUpdateNowInternal and runSksUpdateRollback, with *)
(* the receipts of src/src/core/update/update-operation.ts).  Every call   *)
(* keeps a receipt on disk: opened under the update lock, written before   *)
(* npm is run, and again with how it ended.  The receipt of a confirmed    *)
(* installation is copied to its project's pointer; pointer and receipts   *)
(* decide later which rollback is authorized.                              *)
(*                                                                         *)
(* A file is written whole or not at all (writeJsonAtomic), a call may be  *)
(* killed between any two of its writes, and any of them may be refused.   *)
(* The lock is what acquireUpdateOperationLock promises: one holder, and   *)
(* the lock of a dead one can be taken.                                    *)
(***************************************************************************)
EXTENDS Naturals, FiniteSets

CONSTANTS Call,       \* runs of "sks update", each in a process of its own
          Project,
          MaxVersion, \* bound: versions are 1 .. MaxVersion
          MaxOutside, \* bound: installations by anything but these calls
          None

ASSUME UpdateAssumption == MaxVersion \in Nat \ {0} /\ MaxOutside \in Nat

VARIABLES installed, \* the version npm has installed
          receipt,   \* the receipt file of each call, or None
          pointer,   \* the last-install file of each project, or None
          holder,    \* the call the update lock names, or None
          pc, ask,   \* where a call is, and what it was asked to do
          mine,      \* the receipt a call has in memory
          may,       \* its rollback is authorized
          replaced,  \* history: <<from, to>> when a call changed installed
          outside    \* installations from outside so far

vars == <<installed, receipt, pointer, holder, pc, ask, mine, may, replaced, outside>>

Version == 1 .. MaxVersion
Kind == {"update", "rollback", "dry"}
\* A dry run plans the latest version; the others may name one.
Ask == [kind : {"update", "rollback"}, project : Project, version : Version]
       \cup [kind : {"dry"}, project : Project, version : {MaxVersion}]
Receipt == [kind : Kind, project : Project, from : Version, target : Version,
            state : {"queued", "running", "succeeded", "failed", "terminal_uncertain", "rolled_back"},
            install : {"none", "started", "installed", "failed", "skipped"}]
Pointer == [of : Call, copy : Receipt]
Place == {"idle", "lock", "probe", "authorize", "open", "preflight", "intent", "install", "settle",
          "close", "point", "admit", "release", "done"}

ASSUME NoneAssumption == /\ None \notin Call /\ None \notin Ask /\ None \notin Receipt
                         /\ None \notin Pointer /\ None \notin Version \X Version

Init ==
    /\ installed = 1   \* any other one comes by a call or from outside
    /\ receipt = [c \in Call |-> None]
    /\ pointer = [p \in Project |-> None]
    /\ holder = None
    /\ pc = [c \in Call |-> "idle"]
    /\ ask = [c \in Call |-> None]
    /\ mine = [c \in Call |-> None]
    /\ may = [c \in Call |-> FALSE]
    /\ replaced = [c \in Call |-> None]
    /\ outside = 0

To(c, place) == pc' = [pc EXCEPT ![c] = place]
Step(c, from, to) == pc[c] = from /\ To(c, to)
Write(c, r) == receipt' = [receipt EXCEPT ![c] = r]
Keep(c, r) == mine' = [mine EXCEPT ![c] = r]

\* What the call remembered is gone.
End(c) ==
    /\ To(c, "done")
    /\ ask' = [ask EXCEPT ![c] = None]
    /\ Keep(c, None)
    /\ may' = [may EXCEPT ![c] = FALSE]

-----------------------------------------------------------------------------
(* Which rollback is authorized. *)

Terminal(r) == r.state \in {"succeeded", "failed", "terminal_uncertain"}
Confirmed(r) == r.kind = "update" /\ Terminal(r) /\ r.install = "installed"
UndoesAny(r, to) == r.from = to   \* mutant: whatever is installed now
Undoes(r, to) == r.from = to /\ r.target = installed

Found(p, to) ==
    {c \in Call : /\ receipt[c] # None /\ receipt[c].project = p
                  /\ Confirmed(receipt[c]) /\ Undoes(receipt[c], to)}

Sound(p) == /\ pointer[p].copy = receipt[pointer[p].of]
            /\ pointer[p].copy.project = p /\ Confirmed(pointer[p].copy)
Points(p, to) == pointer[p] # None /\ Sound(p) /\ Undoes(pointer[p].copy, to)

\* mutant: a pointer in place is the last word.
AuthorizingByPointer(p, to) ==
    IF pointer[p] = None THEN Found(p, to)
    ELSE IF Points(p, to) THEN {pointer[p].of} ELSE {}

\* The receipts a rollback of project p to this version may go by.
Authorizing(p, to) ==
    IF pointer[p] = None THEN Found(p, to)
    ELSE IF ~Sound(p) THEN {}
    ELSE IF Points(p, to) THEN {pointer[p].of}
    ELSE Found(p, to)

-----------------------------------------------------------------------------

Start(c, a) ==
    /\ pc[c] = "idle"
    /\ IF a.kind = "rollback" /\ Authorizing(a.project, a.version) = {}
       THEN To(c, "done") /\ UNCHANGED ask
       ELSE To(c, "lock") /\ ask' = [ask EXCEPT ![c] = a]
    /\ UNCHANGED <<installed, receipt, pointer, holder, mine, may, replaced, outside>>

\* A call that is done and still names the lock has been killed.
Free == holder # None => pc[holder] = "done"

Acquire(c) ==
    /\ Free /\ Step(c, "lock", "probe")
    /\ holder' = c
    /\ UNCHANGED <<installed, receipt, pointer, ask, mine, may, replaced, outside>>

\* The lock is held, or the attempt to take it fails.
Refused(c) ==
    /\ pc[c] = "lock" /\ End(c)
    /\ UNCHANGED <<installed, receipt, pointer, holder, replaced, outside>>

\* What the call goes by from here on is what it sees under the lock.
Opened(c) == [kind |-> ask[c].kind, project |-> ask[c].project, from |-> installed,
              target |-> ask[c].version, state |-> "queued", install |-> "none"]

Probe(c) ==
    /\ Step(c, "probe", IF ask[c].kind = "rollback" THEN "authorize" ELSE "open")
    /\ Keep(c, Opened(c))
    /\ UNCHANGED <<installed, receipt, pointer, holder, ask, may, replaced, outside>>

\* A receipt the scan found becomes the project's pointer; when it cannot be
\* written the rollback is not authorized.
Authorize(c) ==
    /\ Step(c, "authorize", "open")
    /\ LET p == ask[c].project  to == ask[c].version
       IN \/ /\ Authorizing(p, to) = {} \/ ~Points(p, to)
             /\ UNCHANGED <<pointer, may>>
          \/ \E d \in Authorizing(p, to) :
                /\ pointer' = [pointer EXCEPT ![p] = [of |-> d, copy |-> receipt[d]]]
                /\ may' = [may EXCEPT ![c] = TRUE]
    /\ UNCHANGED <<installed, receipt, holder, ask, mine, replaced, outside>>

Open(c) ==
    /\ Step(c, "open", "preflight")
    /\ Write(c, mine[c])
    /\ UNCHANGED <<installed, pointer, holder, ask, mine, may, replaced, outside>>

\* The version cannot be told, a call throws, or a receipt cannot be written.
GiveUp(c) ==
    /\ pc[c] \in {"probe", "authorize", "open", "intent", "close", "admit"} /\ To(c, "release")
    /\ UNCHANGED <<installed, receipt, pointer, holder, ask, mine, may, replaced, outside>>

Finish(c, s, i) == Keep(c, [mine[c] EXCEPT !.state = s, !.install = i]) /\ To(c, "close")

Forbidden(c) == \/ mine[c].target < mine[c].from /\ ~may[c]
                \/ ask[c].kind = "rollback" /\ ~may[c]

Preflight(c) ==
    /\ pc[c] = "preflight"
    /\ \/ Finish(c, "failed", "none")   \* no npm, or the temporary installation fails
       \/ /\ ask[c].kind = "dry" /\ Finish(c, "succeeded", "skipped")
       \/ /\ ask[c].kind # "dry" /\ ~Forbidden(c)
          /\ IF mine[c].target = mine[c].from
             THEN Keep(c, [mine[c] EXCEPT !.state = "running", !.install = "skipped"]) /\ To(c, "settle")
             ELSE UNCHANGED mine /\ To(c, "intent")
    /\ UNCHANGED <<installed, receipt, pointer, holder, ask, may, replaced, outside>>

StartedState(r) == [r EXCEPT !.state = "started"]   \* mutant: the stage's status as the state
Started(r) == [r EXCEPT !.state = "running", !.install = "started"]

\* mutant: the stage is recorded and not flushed.
IntentUnflushed(c) ==
    /\ Step(c, "intent", "install")
    /\ Keep(c, Started(mine[c]))
    /\ UNCHANGED <<installed, receipt, pointer, holder, ask, may, replaced, outside>>

Intent(c) ==
    /\ Step(c, "intent", "install")
    /\ Keep(c, Started(mine[c]))
    /\ Write(c, Started(mine[c]))
    /\ UNCHANGED <<installed, pointer, holder, ask, may, replaced, outside>>

\* npm replaces the version, or changes it and reports a failure all the same.
Replace(c) ==
    /\ installed' = mine[c].target
    /\ replaced' = [replaced EXCEPT ![c] = <<installed, mine[c].target>>]

Install(c) ==
    /\ Step(c, "install", "settle")
    /\ \/ Replace(c) /\ Keep(c, [mine[c] EXCEPT !.install = "installed"])
       \/ /\ Replace(c) \/ UNCHANGED <<installed, replaced>>
          /\ Keep(c, [mine[c] EXCEPT !.install = "failed"])
    /\ UNCHANGED <<receipt, pointer, holder, ask, may, outside>>

\* The stages are written behind the call's back, in their order.
Flush(c) ==
    /\ pc[c] = "settle" /\ receipt[c] # mine[c]
    /\ Write(c, mine[c])
    /\ UNCHANGED <<installed, pointer, holder, pc, ask, mine, may, replaced, outside>>

\* How the doctor, the menu bar and the verification went decides the end.
Ended(c) == IF may[c] THEN "rolled_back" ELSE "succeeded"

Settle(c) ==
    /\ pc[c] = "settle"
    /\ \/ mine[c].install # "failed" /\ Finish(c, Ended(c), mine[c].install)
       \/ \E s \in {"failed", "terminal_uncertain"} : Finish(c, s, mine[c].install)
    /\ UNCHANGED <<installed, receipt, pointer, holder, ask, may, replaced, outside>>

Close(c) ==
    /\ Step(c, "close", IF Confirmed(mine[c]) THEN "point" ELSE "release")
    /\ Write(c, mine[c])
    /\ UNCHANGED <<installed, pointer, holder, ask, mine, may, replaced, outside>>

Point(c) ==
    /\ pc[c] = "point"
    /\ \/ /\ pointer' = [pointer EXCEPT ![mine[c].project] = [of |-> c, copy |-> mine[c]]]
          /\ To(c, "release") /\ UNCHANGED mine
       \/ /\ Keep(c, [mine[c] EXCEPT !.state = "terminal_uncertain"])
          /\ To(c, "admit") /\ UNCHANGED pointer
    /\ UNCHANGED <<installed, receipt, holder, ask, may, replaced, outside>>

Admit(c) ==
    /\ Step(c, "admit", "release")
    /\ Write(c, mine[c])
    /\ UNCHANGED <<installed, pointer, holder, ask, mine, may, replaced, outside>>

Release(c) ==
    /\ pc[c] = "release" /\ End(c)
    /\ holder' = None
    /\ UNCHANGED <<installed, receipt, pointer, replaced, outside>>

\* A killed call leaves its lock; npm has then run to its end or not at all.
Crash(c) ==
    /\ holder = c /\ ~Free /\ End(c)
    /\ \/ pc[c] = "install" /\ Replace(c)
       \/ UNCHANGED <<installed, replaced>>
    /\ UNCHANGED <<receipt, pointer, holder, outside>>

\* Someone installs a version without these calls, while none holds the lock.
Outside(v) ==
    /\ Free /\ outside < MaxOutside /\ v # installed
    /\ installed' = v
    /\ outside' = outside + 1
    /\ UNCHANGED <<receipt, pointer, holder, pc, ask, mine, may, replaced>>

Act(c) ==
    \/ \E a \in Ask : Start(c, a)
    \/ Acquire(c) \/ Refused(c) \/ Probe(c) \/ Authorize(c) \/ Open(c) \/ GiveUp(c)
    \/ Preflight(c) \/ Intent(c) \/ Install(c) \/ Flush(c) \/ Settle(c)
    \/ Close(c) \/ Point(c) \/ Admit(c) \/ Release(c) \/ Crash(c)

Next == (\E c \in Call : Act(c)) \/ \E v \in Version : Outside(v)

Spec == Init /\ [][Next]_vars

-----------------------------------------------------------------------------
\* The type of every variable.
TypeOK ==
    /\ installed \in Version
    /\ receipt \in [Call -> Receipt \cup {None}]
    /\ pointer \in [Project -> Pointer \cup {None}]
    /\ holder \in Call \cup {None}
    /\ pc \in [Call -> Place]
    /\ ask \in [Call -> Ask \cup {None}]
    /\ mine \in [Call -> Receipt \cup {None}]
    /\ may \in [Call -> BOOLEAN]
    /\ replaced \in [Call -> (Version \X Version) \cup {None}]
    /\ outside \in 0 .. MaxOutside

\* The receipts tell what npm did, although versions change while calls wait
\* and calls are killed: whoever changed the version has said on disk that it
\* would, from which version to which, and none says so that did not.  Later
\* rollbacks are judged by them.
ReceiptsTrue ==
    \A c \in Call :
        /\ replaced[c] # None =>
              /\ receipt[c] # None /\ receipt[c].install # "none"
              /\ replaced[c] = <<receipt[c].from, receipt[c].target>>
        /\ receipt[c] # None /\ receipt[c].install = "installed" => replaced[c] # None

\* The installation that is in place can be undone from its project as soon as
\* its receipt is terminal: killed before the pointer is written, with the
\* write refused, or with the pointer at an older installation.
ConfirmedCanBeUndone ==
    \A c \in Call :
        receipt[c] # None /\ Confirmed(receipt[c]) /\ receipt[c].target = installed =>
            Authorizing(receipt[c].project, receipt[c].from) # {}

\* These calls lower the version only to one that an update really replaced by
\* the version in place, whatever happened between the first authorization,
\* the lock and the run of npm.
DowngradeIsUndo ==
    [][ installed' < installed /\ outside' = outside =>
          \E c \in Call : /\ replaced[c] = <<installed', installed>>
                         /\ receipt[c].kind = "update" ]_vars
=============================================================================
