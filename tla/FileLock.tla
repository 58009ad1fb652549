------------------------------ MODULE FileLock ------------------------------
(***************************************************************************)
(* The directory lock of core/locks/file-lock.ts: the one mutual-exclusion *)
(* primitive of SKS, used by some forty components across processes.       *)
(*                                                                         *)
(* The lock is a directory.  Taking it is mkdir, which is atomic; the      *)
(* holder then writes owner.json into it (open a temporary file, rename),  *)
(* rewrites that file from a timer while it works, and removes the         *)
(* directory when it is done.  A call that finds the directory reads       *)
(* owner.json, decides whether the holder is gone and, if so, renames the  *)
(* directory away and tries once more.                                     *)
(*                                                                         *)
(* Every file-system call is a step of its own, because every one is an    *)
(* await in the code and resolves the PATH again: the directory found by a *)
(* step may not be the directory an earlier step saw.                      *)
(***************************************************************************)
EXTENDS FiniteSets

CONSTANTS
    Actor,       \* calls of withFileLock / tryWithFileLock
    Pid,         \* operating-system processes of this host
    PidOf,       \* the process each call runs in
    Child,       \* processes a holder may protect with protectPid
    MayDie,      \* processes that may die, at any moment
    Persistent,  \* withFileLock calls whose timeout is never reached
    Beating,     \* calls that hold the lock long enough for the timer to fire
    Timely,      \* no live call is paused for a stale window between mkdir and
                 \* owner.json, between its two looks at a lock, or inside rm
    None

ASSUME PidOfAssumption == PidOf \in [Actor -> Pid]
ASSUME ChildAssumption == Child \subseteq Pid
ASSUME NoneAssumption == None \notin Actor
ASSUME TimelyAssumption == Timely \in BOOLEAN

VARIABLES
    pc,         \* where each call stands
    attempt,    \* the attempt counter of tryAcquireFileLock, 0 or 1
    recovered,  \* the call reclaimed a stale lock in this try
    prot,       \* held.protectedPids, in memory
    hb,         \* the heartbeat write in flight: "idle", "open" or "rename"
    hbProt,     \* the protected pids that write was given
    late,       \* history: a heartbeat write changed the directory after its call's
                \* section was over, or wrote over the record of a child protected since
    alive,      \* the processes that are running
    maker,      \* whose mkdir made the directory at lockPath; None: no directory
    owner,      \* owner.json: who it names; None: no such file
    guarded,    \* owner.json: protected_pids
    tmps,       \* temporary owner files in the directory
    aged        \* its heartbeat (with no owner.json: its mtime) is older than
                \* the stale window

callVars == <<pc, attempt, recovered>>
beatVars == <<hb, hbProt, late>>
dirVars  == <<maker, owner, guarded, tmps, aged>>
vars == <<callVars, prot, beatVars, alive, dirVars>>

PCs == {"mkdir", "read", "stat", "quarantine", "wait", "open", "rename",
        "critical", "popen", "prename", "relread", "unlink", "rmdir", "done"}

Files == Actor \X {"call", "beat"}

\* A directory that is not there has nothing in it.
DirTypeOK ==
    /\ maker \in Actor \cup {None}
    /\ owner \in Actor \cup {None}
    /\ guarded \in SUBSET Child
    /\ tmps \in SUBSET Files
    /\ aged \in BOOLEAN
    /\ maker = None => owner = None /\ guarded = {} /\ tmps = {} /\ ~aged

TypeOK ==
    /\ pc \in [Actor -> PCs]
    /\ attempt \in [Actor -> {0, 1}]
    /\ recovered \in [Actor -> BOOLEAN]
    /\ prot \in [Actor -> SUBSET Child]
    /\ hb \in [Actor -> {"idle", "open", "rename"}]
    /\ hbProt \in [Actor -> SUBSET Child]
    /\ late \in BOOLEAN
    /\ alive \in SUBSET Pid
    /\ DirTypeOK

Init ==
    /\ pc = [a \in Actor |-> "mkdir"]
    /\ attempt = [a \in Actor |-> 0]
    /\ recovered = [a \in Actor |-> FALSE]
    /\ prot = [a \in Actor |-> {}]
    /\ hb = [a \in Actor |-> "idle"]
    /\ hbProt = [a \in Actor |-> {}]
    /\ late = FALSE
    /\ alive = Pid
    /\ maker = None /\ owner = None /\ guarded = {} /\ tmps = {}
    /\ aged = FALSE

Live(a) == PidOf[a] \in alive

At(a, place) == Live(a) /\ pc[a] = place

Goto(a, place) == pc' = [pc EXCEPT ![a] = place]

Dir(m, o, g, t, old) ==
    maker' = m /\ owner' = o /\ guarded' = g /\ tmps' = t /\ aged' = old

(***************************************************************************)
(* Taking the lock                                                         *)
(***************************************************************************)
MkdirRecursive(a) ==   \* mutant: mkdir that accepts a directory already there
    /\ At(a, "mkdir")
    /\ Dir(a, None, {}, {}, FALSE)
    /\ Goto(a, "open")
    /\ UNCHANGED <<attempt, recovered, prot, beatVars, alive>>

\* mkdir succeeds: there is no directory, and this call has made one.
Mkdir(a) ==
    /\ At(a, "mkdir")
    /\ maker = None
    /\ Dir(a, None, {}, {}, FALSE)
    /\ Goto(a, "open")
    /\ UNCHANGED <<attempt, recovered, prot, beatVars, alive>>

\* EEXIST: look at the owner the first time, give this try up the second.
MkdirExists(a) ==
    /\ At(a, "mkdir")
    /\ maker # None
    /\ Goto(a, IF attempt[a] = 0 THEN "read" ELSE "wait")
    /\ UNCHANGED <<attempt, recovered, prot, beatVars, alive, dirVars>>

\* Opening the temporary file touches the mtime of a directory that has no
\* owner.json; it does not touch a heartbeat.
AddTmp(t) ==
    /\ tmps' = tmps \cup {t}
    /\ aged' = (aged /\ owner # None)
    /\ UNCHANGED <<maker, owner, guarded>>

\* rename of the temporary file onto owner.json
PutOwner(a, t, protected) ==
    /\ owner' = a
    /\ guarded' = protected
    /\ tmps' = tmps \ {t}
    /\ aged' = FALSE
    /\ UNCHANGED maker

\* writeOwnerFile of the acquiring call, by path: a directory that is gone
\* makes it throw, and the whole call with it.
OpenOwner(a) ==
    /\ At(a, "open")
    /\ \/ maker # None /\ AddTmp(<<a, "call">>) /\ Goto(a, "rename")
       \/ maker = None /\ Goto(a, "done") /\ UNCHANGED dirVars
    /\ UNCHANGED <<attempt, recovered, prot, beatVars, alive>>

RenameOwner(a) ==
    /\ At(a, "rename")
    /\ \/ <<a, "call">> \in tmps /\ PutOwner(a, <<a, "call">>, prot[a])
          /\ Goto(a, "critical")
       \/ <<a, "call">> \notin tmps /\ Goto(a, "done") /\ UNCHANGED dirVars
    /\ UNCHANGED <<attempt, recovered, prot, beatVars, alive>>

(***************************************************************************)
(* Looking at a lock that exists                                           *)
(***************************************************************************)
OwnerPidOnly ==   \* mutant: protected_pids are not consulted
    PidOf[owner] \in alive

NeverAlive == FALSE   \* mutant: the age of the heartbeat alone decides

AlwaysAlive == TRUE   \* mutant: ESRCH is taken for a live process

\* ownerHasLivePid of the record on disk; kill(pid, 0) is synchronous.
OwnerHasLivePid == PidOf[owner] \in alive \/ guarded \cap alive # {}

\* The record is there: stale is an old heartbeat of a dead owner.  The read
\* and the decision after it are one step (no await between them).
JudgeOwner(a) ==
    /\ At(a, "read")
    /\ owner # None
    /\ Goto(a, IF aged /\ ~OwnerHasLivePid THEN "quarantine" ELSE "wait")
    /\ UNCHANGED <<attempt, recovered, prot, beatVars, alive, dirVars>>

\* No record (or no directory any more): the age of the directory decides, and
\* that is a second look, at whatever directory is there by then.
OwnerMissing(a) ==
    /\ At(a, "read")
    /\ owner = None
    /\ Goto(a, "stat")
    /\ UNCHANGED <<attempt, recovered, prot, beatVars, alive, dirVars>>

JudgeMtime(a) ==
    /\ At(a, "stat")
    /\ Goto(a, IF maker # None /\ aged THEN "quarantine" ELSE "wait")
    /\ UNCHANGED <<attempt, recovered, prot, beatVars, alive, dirVars>>

\* rename(lockPath, quarantine): whichever directory is at lockPath moves.
Quarantine(a) ==
    /\ At(a, "quarantine")
    /\ \/ /\ maker # None
          /\ Dir(None, None, {}, {}, FALSE)
          /\ recovered' = [recovered EXCEPT ![a] = TRUE]
          /\ attempt' = [attempt EXCEPT ![a] = 1]
          /\ Goto(a, "mkdir")
       \/ maker = None /\ Goto(a, "wait") /\ UNCHANGED <<dirVars, recovered, attempt>>
    /\ UNCHANGED <<prot, beatVars, alive>>

\* withFileLock sleeps and tries again ...
Retry(a) ==
    /\ At(a, "wait")
    /\ attempt' = [attempt EXCEPT ![a] = 0]
    /\ recovered' = [recovered EXCEPT ![a] = FALSE]
    /\ Goto(a, "mkdir")
    /\ UNCHANGED <<prot, beatVars, alive, dirVars>>

\* ... until its timeout has passed; tryWithFileLock returns at once.
GiveUp(a) ==
    /\ At(a, "wait")
    /\ a \notin Persistent
    /\ Goto(a, "done")
    /\ UNCHANGED <<attempt, recovered, prot, beatVars, alive, dirVars>>

(***************************************************************************)
(* Holding it                                                              *)
(***************************************************************************)
InSection == {"critical", "popen", "prename"}

\* Between the acquisition and the end of the critical section, process alive.
Holding(a) == Live(a) /\ pc[a] \in InSection

\* The timer fires (at most one of its writes is in flight: MaxBeats = 1).
Beat(a) ==
    /\ Holding(a)
    /\ a \in Beating
    /\ hb[a] = "idle"
    /\ hb' = [hb EXCEPT ![a] = "open"]
    /\ hbProt' = [hbProt EXCEPT ![a] = prot[a]]
    /\ UNCHANGED <<late, callVars, prot, alive, dirVars>>

\* Nobody waits for a heartbeat write: it goes on after clearInterval, and an
\* error it meets is swallowed.
BeatOpen(a) ==
    /\ Live(a) /\ hb[a] = "open"
    /\ \/ maker # None /\ AddTmp(<<a, "beat">>) /\ hb' = [hb EXCEPT ![a] = "rename"]
       \/ maker = None /\ UNCHANGED dirVars /\ hb' = [hb EXCEPT ![a] = "idle"]
    /\ late' = (late \/ (maker # None /\ ~Holding(a)))
    /\ UNCHANGED <<callVars, prot, hbProt, alive>>

\* The section is over, or protectPid has returned since for a child the write does
\* not name.
Overtaken(a) == ~Holding(a) \/ (pc[a] = "critical" /\ hbProt[a] # prot[a])

BeatRename(a) ==
    /\ Live(a) /\ hb[a] = "rename"
    /\ \/ <<a, "beat">> \in tmps /\ PutOwner(a, <<a, "beat">>, hbProt[a])
       \/ <<a, "beat">> \notin tmps /\ UNCHANGED dirVars
    /\ hb' = [hb EXCEPT ![a] = "idle"]
    /\ late' = (late \/ (<<a, "beat">> \in tmps /\ Overtaken(a)))
    /\ UNCHANGED <<callVars, prot, hbProt, alive>>

\* lease.protectPid(c): the set in memory first, then owner.json.
Protect(a, c) ==
    /\ At(a, "critical")
    /\ c \in (Child \cap alive) \ prot[a]
    /\ prot' = [prot EXCEPT ![a] = @ \cup {c}]
    /\ Goto(a, "popen")
    /\ UNCHANGED <<attempt, recovered, beatVars, alive, dirVars>>

\* A protectPid that throws leaves the decision to the critical section.
ProtectOpen(a) ==
    /\ At(a, "popen")
    /\ \/ maker # None /\ AddTmp(<<a, "call">>) /\ Goto(a, "prename")
       \/ maker = None /\ UNCHANGED dirVars /\ Goto(a, "critical")
    /\ UNCHANGED <<attempt, recovered, prot, beatVars, alive>>

ProtectRename(a) ==
    /\ At(a, "prename")
    /\ \/ <<a, "call">> \in tmps /\ PutOwner(a, <<a, "call">>, prot[a])
       \/ <<a, "call">> \notin tmps /\ UNCHANGED dirVars
    /\ Goto(a, "critical")
    /\ UNCHANGED <<attempt, recovered, prot, beatVars, alive>>

(***************************************************************************)
(* Letting it go                                                           *)
(***************************************************************************)
\* fn settled: the timer is cleared (no further Beat), releaseIfOwned starts.
BeginRelease(a) ==
    /\ At(a, "critical")
    /\ Goto(a, "relread")
    /\ UNCHANGED <<attempt, recovered, prot, beatVars, alive, dirVars>>

\* A record that names another call ends the release; one that is missing does
\* not.
ReleaseRead(a) ==
    /\ At(a, "relread")
    /\ Goto(a, IF owner \notin {None, a} THEN "done" ELSE "unlink")
    /\ UNCHANGED <<attempt, recovered, prot, beatVars, alive, dirVars>>

\* rm -r of lockPath: the entries it finds, then the directory, which must be
\* empty (ENOTEMPTY is an error, and the error is swallowed).
RemoveEntries(a) ==
    /\ At(a, "unlink")
    /\ owner' = None /\ guarded' = {} /\ tmps' = {} /\ aged' = FALSE
    /\ Goto(a, "rmdir")
    /\ UNCHANGED <<maker, attempt, recovered, prot, beatVars, alive>>

RemoveDirKeepsEntries(a) ==   \* mutant: rmdir does not look whether it is empty
    /\ At(a, "rmdir")
    /\ maker' = None
    /\ UNCHANGED <<owner, guarded, tmps, aged>>
    /\ Goto(a, "done")
    /\ UNCHANGED <<attempt, recovered, prot, beatVars, alive>>

RemoveDir(a) ==
    /\ At(a, "rmdir")
    /\ IF owner = None /\ tmps = {}
       THEN Dir(None, None, {}, {}, FALSE)
       ELSE UNCHANGED dirVars
    /\ Goto(a, "done")
    /\ UNCHANGED <<attempt, recovered, prot, beatVars, alive>>

(***************************************************************************)
(* What happens to it: processes die, and time passes.  A call of a dead   *)
(* process takes no further step; its directory stays as it is.            *)
(***************************************************************************)
Die(p) ==
    /\ p \in MayDie \cap alive
    /\ alive' = alive \ {p}
    /\ UNCHANGED <<callVars, prot, beatVars, dirVars>>

Paused(a) == Live(a) /\ (pc[a] \in {"open", "rename", "stat", "rmdir"} \/ hb[a] = "rename")

Age ==
    /\ maker # None
    /\ ~aged
    /\ Timely => \A a \in Actor : ~Paused(a)
    /\ aged' = TRUE
    /\ UNCHANGED <<callVars, prot, beatVars, alive, maker, owner, guarded, tmps>>

Acquiring(a) ==
    \/ Mkdir(a) \/ MkdirExists(a) \/ OpenOwner(a) \/ RenameOwner(a)
    \/ JudgeOwner(a) \/ OwnerMissing(a) \/ JudgeMtime(a) \/ Quarantine(a)
    \/ Retry(a)

Releasing(a) ==
    \/ BeginRelease(a) \/ ReleaseRead(a) \/ RemoveEntries(a) \/ RemoveDir(a)

Protecting(a) == ProtectOpen(a) \/ ProtectRename(a)

HeartbeatWrite(a) == BeatOpen(a) \/ BeatRename(a)

Next ==
    \/ \E a \in Actor :
        \/ Acquiring(a) \/ Releasing(a) \/ Protecting(a) \/ HeartbeatWrite(a)
        \/ GiveUp(a) \/ Beat(a)
        \/ \E c \in Child : Protect(a, c)
    \/ \E p \in Pid : Die(p)
    \/ Age

Spec == Init /\ [][Next]_vars

\* A running process gets on with what it is doing, a critical section ends,
\* a write in flight completes, time passes, and a child that can end ends.
\* Nothing says that another process dies, a timer fires or a call gives up.
\* Age is enabled between the steps of a waiter that polls for ever, hence SF.
Fairness ==
    /\ \A a \in Actor :
        /\ WF_vars(Acquiring(a)) /\ WF_vars(Releasing(a))
        /\ WF_vars(Protecting(a)) /\ WF_vars(HeartbeatWrite(a))
    /\ \A c \in Child : WF_vars(Die(c))
    /\ SF_vars(Age)

FairSpec == Spec /\ Fairness

-----------------------------------------------------------------------------
(***************************************************************************)
(* Properties                                                              *)
(***************************************************************************)

\* No two calls are inside their critical sections at once (withFileLock; the
\* test "concurrent acquirers never overlap").
MutualExclusion == \A a, b \in Actor : Holding(a) /\ Holding(b) => a = b

\* A release takes away only the directory its own call made, never that of
\* the call that holds the lock next (the comment in releaseIfOwned).
ReleaseSparesSuccessor ==
    [][\A a \in Actor :
        RemoveEntries(a) \/ RemoveDir(a) =>
            UNCHANGED <<maker, owner>> \/ maker = a]_vars

\* The directory a waiter renames away is one whose maker holds nothing: its
\* process is dead or its call is over (recoverStaleLock "without ever directly
\* deleting a lock another process might still legitimately hold").
ReclaimsOnlyAbandoned ==
    [][\A a \in Actor : Quarantine(a) /\ maker # None =>
        ~Live(maker) \/ pc[maker] = "done"]_vars

\* After protectPid has returned, the lock of a dead process is not reclaimed
\* while the child it protected still runs (withNarutoMissionRunAdmission), unless
\* a heartbeat write came too late and took the child out of the record.
ProtectedChildBlocksReclaim ==
    ~late => \A a, b \in Actor :
        a # b /\ pc[a] = "critical" /\ prot[a] \cap alive # {} => ~Holding(b)

\* A call that never gives up gets the lock in the end, or its process dies:
\* no holder, dead or alive, keeps it for ever.
PersistentCallServed ==
    \A a \in Persistent : pc[a] = "mkdir" ~> Holding(a) \/ ~Live(a)

\* The lock as its callers see it.
TheHolder == IF \E a \in Actor : Holding(a)
             THEN CHOOSE a \in Actor : Holding(a) ELSE None

Abstract == INSTANCE Mutex WITH holder <- TheHolder

\* withFileLock implements the mutex its callers count on.
ImplementsMutex == Abstract!Spec
=============================================================================
