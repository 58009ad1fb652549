----------------------------- MODULE SksdDaemon -----------------------------
(***************************************************************************)
(* The processes of the sksd hook daemon of one project (src/src/core/     *)
(* daemon/sksd-hook-daemon.ts).  A daemon owns the project by a pid file   *)
(* and is reached by a socket path; both are plain files in a directory    *)
(* that the last one removes.  Nothing else orders the processes: every    *)
(* await of start and close is a step.  Of the callers (HookDispatch) only *)
(* what they do to daemons is here: a call that found none spawns one, and *)
(* a call of another version makes the one it found retire.                *)
(*                                                                         *)
(* A pid is not used again while a file names it: when a process is gone   *)
(* the files that named it name Dead.                                      *)
(***************************************************************************)
EXTENDS Naturals, FiniteSets

CONSTANTS Proc,      \* processes that may run the daemon's entry point
          MaxKills,  \* bound: how many of them are killed
          None, Dead

ASSUME NamesAssumption == /\ None \notin Proc /\ Dead \notin Proc /\ None # Dead
                          /\ None \notin [by : Proc \cup {Dead}, written : BOOLEAN]
ASSUME BoundAssumption == MaxKills \in Nat

VARIABLES dir,       \* the runtime directory exists
          pidFile,   \* None, or who created it and whether its pid is in it
          sock,      \* the socket path: None, a daemon's socket, or Dead
          st,        \* where a process is in start, service or close
          saw,       \* the pid a starting process has read
          ver,       \* the version of the code it runs
          installed, \* the version that is installed
          robbed,    \* the file of a live claimant was removed by another
          kills

vars == <<dir, pidFile, sock, st, saw, ver, installed, robbed, kills>>

Version == {1, 2}
PidFile == [by : Proc \cup {Dead}, written : BOOLEAN] \cup {None}
Starting == {"mkdir", "judge", "check", "unclaim", "create", "write", "look", "unlink", "listen", "harden"}
Closing == {"drain", "rmsock", "readpid", "rmpid", "rmdir"}

Alive(d) == st[d] # "off"
Accepting(d) == st[d] \in {"harden", "serve"}
Reachable(d) == sock = d /\ Accepting(d)
\* From the creation of the pid file to its removal.
Claiming(d) == st[d] \in {"write", "look", "unlink", "listen", "harden", "serve", "drain", "rmsock", "readpid", "rmpid"}

\* safeExistingPid: null of a file whose pid is not there yet.
Claimed(file) == IF file.written THEN file.by ELSE None

To(d, s) == st' = [st EXCEPT ![d] = s]
MayCreate(file) == dir /\ file = None   \* open(.., 'wx')
MayBindOver(path) == dir   \* mutant: an existing path is bound over
MayBind(path) == dir /\ path = None

\* A process ends, leaving these files behind.
Exit(d, file, path) ==
    LET Left(x) == IF x = d THEN Dead ELSE x
    IN  /\ To(d, "off")
        /\ pidFile' = IF file = None THEN None ELSE [file EXCEPT !.by = Left(@)]
        /\ sock' = Left(path)
        /\ saw' = [e \in Proc |-> IF e = d THEN None ELSE Left(saw[e])]

Init ==
    /\ dir = FALSE /\ pidFile = None /\ sock = None
    /\ st = [d \in Proc |-> "off"]
    /\ saw = [d \in Proc |-> None]
    /\ ver = [d \in Proc |-> 1]
    /\ installed = 1 /\ robbed = FALSE /\ kills = 0

-----------------------------------------------------------------------------
(* startSksdHookDaemon. *)

\* ensureSafeRuntimeDir
MkDir(d) ==
    /\ st[d] = "mkdir" /\ To(d, "judge")
    /\ dir' = TRUE
    /\ UNCHANGED <<pidFile, sock, saw, ver, installed, robbed, kills>>

\* mutant: a claim that names nobody yet is respected.
JudgeUnreadableLive(d) ==
    /\ st[d] = "judge"
    /\ IF pidFile = None
       THEN To(d, "create") /\ UNCHANGED <<saw, pidFile, sock>>
       ELSE IF Claimed(pidFile) = None
       THEN Exit(d, pidFile, sock)
       ELSE To(d, "check") /\ saw' = [saw EXCEPT ![d] = Claimed(pidFile)] /\ UNCHANGED <<pidFile, sock>>
    /\ UNCHANGED <<dir, ver, installed, robbed, kills>>

\* claimPidFile reads the claim; no file is undefined, an unreadable one null.
Judge(d) ==
    /\ st[d] = "judge"
    /\ IF pidFile = None
       THEN To(d, "create") /\ UNCHANGED saw
       ELSE /\ saw' = [saw EXCEPT ![d] = Claimed(pidFile)]
            /\ To(d, IF Claimed(pidFile) = None THEN "unclaim" ELSE "check")
    /\ UNCHANGED <<dir, pidFile, sock, ver, installed, robbed, kills>>

\* pidAlive of the pid that was read: another daemon owns the claim, or none.
Check(d) ==
    /\ st[d] = "check"
    /\ IF saw[d] \in Proc
       THEN Exit(d, pidFile, sock)
       ELSE To(d, "unclaim") /\ UNCHANGED <<pidFile, sock, saw>>
    /\ UNCHANGED <<dir, ver, installed, robbed, kills>>

\* rm of the file judged stale, whatever the name stands for by now.
Unclaim(d) ==
    /\ st[d] = "unclaim" /\ To(d, "create")
    /\ pidFile' = None
    /\ robbed' = (robbed \/ (pidFile # None /\ pidFile.by \in Proc))
    /\ UNCHANGED <<dir, sock, saw, ver, installed, kills>>

\* open 'wx'; when it exists by now, start returns null or throws.
Create(d) ==
    /\ st[d] = "create"
    /\ IF MayCreate(pidFile)
       THEN /\ pidFile' = [by |-> d, written |-> FALSE]
            /\ To(d, "write") /\ UNCHANGED <<sock, saw>>
       ELSE Exit(d, pidFile, sock)
    /\ UNCHANGED <<dir, ver, installed, robbed, kills>>

\* The pid is written through the handle, seen only if the name is still its own.
Write(d) ==
    /\ st[d] = "write" /\ To(d, "look")
    /\ pidFile' = IF pidFile # None /\ pidFile.by = d THEN [pidFile EXCEPT !.written = TRUE] ELSE pidFile
    /\ UNCHANGED <<dir, sock, saw, ver, installed, robbed, kills>>

\* removeStaleSocketPath: lstat, then rm.
Look(d) ==
    /\ st[d] = "look"
    /\ To(d, IF sock = None THEN "listen" ELSE "unlink")
    /\ UNCHANGED <<dir, pidFile, sock, saw, ver, installed, robbed, kills>>

Unlink(d) ==
    /\ st[d] = "unlink" /\ To(d, "listen")
    /\ sock' = None
    /\ UNCHANGED <<dir, pidFile, saw, ver, installed, robbed, kills>>

\* bind and listen; a path that exists by now is cleaned up and start throws.
Listen(d) ==
    /\ st[d] = "listen"
    /\ IF MayBind(sock)
       THEN sock' = d /\ To(d, "harden")
       ELSE UNCHANGED sock /\ To(d, "rmsock")
    /\ UNCHANGED <<dir, pidFile, saw, ver, installed, robbed, kills>>

\* server.close stops listening and unlinks the path at once, whoever's it is.
StopListening(d) == To(d, "drain") /\ sock' = None

\* chmod of the path fails when it has been removed meanwhile.
Harden(d) ==
    /\ st[d] = "harden"
    /\ IF sock = None THEN StopListening(d) ELSE To(d, "serve") /\ UNCHANGED sock
    /\ UNCHANGED <<dir, pidFile, saw, ver, installed, robbed, kills>>

-----------------------------------------------------------------------------
(* close: begun once, by the idle timer, a signal or a retirement, which   *)
(* may come while start still awaits its chmod.                            *)

Close(d) ==
    /\ Accepting(d) /\ StopListening(d)
    /\ UNCHANGED <<dir, pidFile, saw, ver, installed, robbed, kills>>

\* The idle timer or a signal; the handlers are set when start is done.
Stop(d) == st[d] = "serve" /\ Close(d)

\* mutant: only an older caller makes a daemon retire.
RetireOnlyForOlder(d) == (\E v \in 1..installed : v < ver[d]) /\ Close(d)

\* A call of a version that is or was installed, other than the daemon's.
Retire(d) == (\E v \in 1..installed : v # ver[d]) /\ Close(d)

\* mutant: the claim is given up before the socket is removed.
DrainGivingUpClaim(d) ==
    /\ st[d] = "drain" /\ To(d, "rmsock")
    /\ pidFile' = IF pidFile # None /\ pidFile.by = d THEN None ELSE pidFile
    /\ UNCHANGED <<dir, sock, saw, ver, installed, robbed, kills>>

\* The server has closed: its callers have their answer or have given up.
Drain(d) ==
    /\ st[d] = "drain" /\ To(d, "rmsock")
    /\ UNCHANGED <<dir, pidFile, sock, saw, ver, installed, robbed, kills>>

\* cleanupRuntimeArtifacts: the socket, the claim if it is still its own, and
\* the directory if it is empty.
RmSock(d) ==
    /\ st[d] = "rmsock" /\ To(d, "readpid")
    /\ sock' = None
    /\ UNCHANGED <<dir, pidFile, saw, ver, installed, robbed, kills>>

ReadPid(d) ==
    /\ st[d] = "readpid"
    /\ To(d, IF pidFile # None /\ Claimed(pidFile) = d THEN "rmpid" ELSE "rmdir")
    /\ UNCHANGED <<dir, pidFile, sock, saw, ver, installed, robbed, kills>>

RmPid(d) ==
    /\ st[d] = "rmpid" /\ To(d, "rmdir")
    /\ pidFile' = None
    /\ robbed' = (robbed \/ (pidFile # None /\ pidFile.by \in Proc \ {d}))
    /\ UNCHANGED <<dir, sock, saw, ver, installed, kills>>

\* mutant: the directory is removed with what is in it.
RmDirWithAll(d) ==
    /\ st[d] = "rmdir"
    /\ dir' = FALSE
    /\ Exit(d, pidFile, sock)
    /\ UNCHANGED <<ver, installed, robbed, kills>>

RmDir(d) ==
    /\ st[d] = "rmdir"
    /\ dir' = (dir /\ (pidFile # None \/ sock # None))
    /\ Exit(d, pidFile, sock)
    /\ UNCHANGED <<ver, installed, robbed, kills>>

-----------------------------------------------------------------------------
Kill(d) ==
    /\ Alive(d) /\ kills < MaxKills
    /\ kills' = kills + 1
    /\ Exit(d, pidFile, sock)
    /\ UNCHANGED <<dir, ver, installed, robbed>>

\* A caller starts the entry point as it is installed now.
Spawn(d) ==
    /\ st[d] = "off" /\ To(d, "mkdir")
    /\ ver' = [ver EXCEPT ![d] = installed]
    /\ UNCHANGED <<dir, pidFile, sock, saw, installed, robbed, kills>>

Update ==
    /\ installed = 1 /\ installed' = 2
    /\ UNCHANGED <<dir, pidFile, sock, st, saw, ver, robbed, kills>>

\* The steps a process takes by itself until it serves or is gone.
Advance(d) ==
    \/ MkDir(d) \/ Judge(d) \/ Check(d) \/ Unclaim(d) \/ Create(d) \/ Write(d)
    \/ Look(d) \/ Unlink(d) \/ Listen(d) \/ Harden(d)
    \/ Drain(d) \/ RmSock(d) \/ ReadPid(d) \/ RmPid(d) \/ RmDir(d)

Next ==
    \/ \E d \in Proc : Advance(d) \/ Stop(d) \/ Retire(d) \/ Kill(d) \/ Spawn(d)
    \/ Update

Spec == Init /\ [][Next]_vars

Unreachable == \A d \in Proc : ~Reachable(d)

\* Processes go on; hooks are run again and again, so that one is spawned while
\* none is reachable and an old one retires; and a daemon that nobody can reach
\* stays idle until its timer fires.
Fairness ==
    /\ WF_vars(Unreachable /\ \E d \in Proc : Spawn(d))
    /\ \A d \in Proc : /\ WF_vars(Advance(d))
                       /\ WF_vars(sock # d /\ Stop(d))
                       /\ WF_vars(sock = d /\ ver[d] # installed /\ Retire(d))

FairSpec == Spec /\ Fairness

-----------------------------------------------------------------------------
\* Types; the directory is there as long as something is in it, and a pid is
\* remembered only from its reading to the look whether it lives.
TypeOK ==
    /\ dir \in BOOLEAN /\ pidFile \in PidFile /\ sock \in Proc \cup {None, Dead}
    /\ st \in [Proc -> {"off", "serve"} \cup Starting \cup Closing]
    /\ saw \in [Proc -> Proc \cup {None, Dead}]
    /\ ver \in [Proc -> Version] /\ installed \in Version
    /\ robbed \in BOOLEAN /\ kills \in 0..MaxKills
    /\ pidFile # None \/ sock # None => dir

\* As long as no starter has removed the claim of a live process, which it does
\* when it read the file before the pid was in it, or read an older file: one
\* process at most is between its claim and the end of its close, and a daemon
\* that serves holds the claim and the path (claimPidFile, and the order of
\* cleanupRuntimeArtifacts).
OneDaemonUnlessRobbed ==
    ~robbed => /\ \A d, e \in Proc : Claiming(d) /\ Claiming(e) => d = e
               /\ \A d \in Proc : st[d] = "serve" => Reachable(d) /\ pidFile # None /\ Claimed(pidFile) = d

\* Whatever kills, lost claims and removed sockets left behind, a daemon is
\* reachable again: a stale claim is removed, an unreachable daemon goes idle.
DaemonComesBack == []<>(\E d \in Proc : Reachable(d))

\* After an update no daemon goes on serving the old code, however busy it is
\* (the version in the request, and the retirement of a daemon that differs).
OldCodeRetires == <>[](\A d \in Proc : Reachable(d) => ver[d] = installed)

Status(d) ==
    IF st[d] = "off" THEN "off"
    ELSE IF st[d] \in Starting \ {"harden"} THEN "starting"
    ELSE IF Reachable(d) THEN "up"
    ELSE "leaving"

Service == INSTANCE HookService WITH status <- [d \in Proc |-> Status(d)]

\* However starts and closes interleave, callers meet what HookService
\* promises: never two daemons at the path, and none that comes back to it.
ImplementsHookService == Service!ServiceSpec
=============================================================================
