-------------------------- MODULE SksdDaemonProofs --------------------------
(***************************************************************************)
(* Proofs about SksdDaemon, for any set of processes and any number of     *)
(* kills.  DaemonInv says who may hold the claim: as long as nobody was    *)
(* robbed, a process is claiming exactly when the pid file is its own, and *)
(* from then on nobody else touches the claim or the path.                 *)
(***************************************************************************)
EXTENDS SksdDaemon, TLAPS

\* Once the pid is written it stays so, and a listening daemon has the path.
Tenure ==
    /\ \A d \in Proc : Claiming(d) <=> (pidFile # None /\ pidFile.by = d)
    /\ \A d \in Proc : Claiming(d) /\ st[d] # "write" => pidFile.written
    /\ \A d \in Proc : Accepting(d) => sock = d

DaemonInv == TypeOK /\ (~robbed => Tenure)

\* The initial state is of the right types.
LEMMA InitTypeOK == Init => TypeOK
  <1> SUFFICES ASSUME Init PROVE TypeOK
    OBVIOUS
  <1>1. pidFile \in PidFile /\ sock \in Proc \cup {None, Dead}
    BY DEF Init, PidFile
  <1>2. kills \in 0..MaxKills /\ installed \in Version /\ ver \in [Proc -> Version]
    BY BoundAssumption DEF Init, Version
  <1> QED BY <1>1, <1>2 DEF Init, TypeOK

\* What an exit leaves behind is of the right types.
LEMMA ExitTypes ==
    ASSUME TypeOK, NEW d \in Proc, NEW file \in PidFile, NEW path \in Proc \cup {None, Dead}, Exit(d, file, path)
    PROVE  /\ pidFile' \in PidFile /\ sock' \in Proc \cup {None, Dead}
           /\ (pidFile' = None <=> file = None) /\ (sock' = None <=> path = None)
           /\ st' \in [Proc -> {"off", "serve"} \cup Starting \cup Closing]
           /\ saw' \in [Proc -> Proc \cup {None, Dead}]
  <1>1. pidFile' \in PidFile /\ (pidFile' = None <=> file = None)
    <2>1. CASE file = None
      BY <2>1 DEF Exit, PidFile
    <2>2. CASE file # None
      <3>1. file \in [by : Proc \cup {Dead}, written : BOOLEAN]
        BY <2>2 DEF PidFile
      <3>2. pidFile' \in [by : Proc \cup {Dead}, written : BOOLEAN]
        BY <2>2, <3>1 DEF Exit
      <3> QED BY <2>2, <3>2, NamesAssumption DEF PidFile
    <2> QED BY <2>1, <2>2
  <1>2. sock' \in Proc \cup {None, Dead} /\ (sock' = None <=> path = None)
    BY NamesAssumption DEF Exit
  <1>3. st' \in [Proc -> {"off", "serve"} \cup Starting \cup Closing]
    BY DEF Exit, To, TypeOK
  <1>4. saw' \in [Proc -> Proc \cup {None, Dead}]
    BY DEF Exit, TypeOK
  <1> QED BY <1>1, <1>2, <1>3, <1>4

\* Every step keeps the types.
LEMMA NextTypeOK == TypeOK /\ [Next]_vars => TypeOK'
  <1> SUFFICES ASSUME TypeOK, [Next]_vars PROVE TypeOK'
    OBVIOUS
  <1>1. CASE UNCHANGED vars
    BY <1>1 DEF vars, TypeOK
  <1>2. CASE Update
    BY <1>2 DEF Update, TypeOK, Version
  <1>3. ASSUME NEW d \in Proc, MkDir(d) PROVE TypeOK'
    BY <1>3 DEF MkDir, To, TypeOK, Starting
  <1>4. ASSUME NEW d \in Proc, Judge(d) PROVE TypeOK'
    <2>1. CASE pidFile = None
      BY <1>4, <2>1 DEF Judge, To, TypeOK, Starting
    <2>2. CASE pidFile # None
      <3>1. Claimed(pidFile) \in Proc \cup {None, Dead}
        BY <2>2 DEF Claimed, TypeOK, PidFile
      <3> QED BY <1>4, <2>2, <3>1 DEF Judge, To, TypeOK, Starting
    <2> QED BY <2>1, <2>2
  <1>5. ASSUME NEW d \in Proc, Check(d) PROVE TypeOK'
    <2>1. CASE saw[d] \in Proc
      <3>1. Exit(d, pidFile, sock)
        BY <1>5, <2>1 DEF Check
      <3>2. pidFile \in PidFile /\ sock \in Proc \cup {None, Dead}
        BY DEF TypeOK
      <3> QED BY <1>5, <3>1, <3>2, ExitTypes DEF Check, TypeOK
    <2>2. CASE saw[d] \notin Proc
      BY <1>5, <2>2 DEF Check, To, TypeOK, Starting
    <2> QED BY <2>1, <2>2
  <1>6. ASSUME NEW d \in Proc, Unclaim(d) PROVE TypeOK'
    BY <1>6 DEF Unclaim, To, TypeOK, Starting, PidFile
  <1>7. ASSUME NEW d \in Proc, Create(d) PROVE TypeOK'
    <2>1. CASE MayCreate(pidFile)
      <3>1. pidFile' = [by |-> d, written |-> FALSE] /\ To(d, "write") /\ UNCHANGED <<sock, saw, dir, ver, installed, robbed, kills>>
        BY <1>7, <2>1 DEF Create
      <3>2. pidFile' \in PidFile
        BY <3>1 DEF PidFile
      <3>3. dir
        BY <2>1 DEF MayCreate
      <3> QED BY ONLY <3>1, <3>2, <3>3, TypeOK DEF To, TypeOK, Starting
    <2>2. CASE ~MayCreate(pidFile)
      <3>1. Exit(d, pidFile, sock)
        BY <1>7, <2>2 DEF Create
      <3>2. pidFile \in PidFile /\ sock \in Proc \cup {None, Dead}
        BY DEF TypeOK
      <3> QED BY <1>7, <3>1, <3>2, ExitTypes DEF Create, TypeOK
    <2> QED BY <2>1, <2>2
  <1>8. ASSUME NEW d \in Proc, Write(d) PROVE TypeOK'
    <2>1. pidFile' \in PidFile /\ (pidFile' = None <=> pidFile = None)
      <3>1. CASE pidFile # None /\ pidFile.by = d
        <4>1. pidFile \in [by : Proc \cup {Dead}, written : BOOLEAN]
          BY <3>1 DEF TypeOK, PidFile
        <4>2. pidFile' \in [by : Proc \cup {Dead}, written : BOOLEAN]
          BY <1>8, <3>1, <4>1 DEF Write
        <4> QED BY <3>1, <4>2, NamesAssumption DEF PidFile
      <3>2. CASE ~(pidFile # None /\ pidFile.by = d)
        BY <1>8, <3>2 DEF Write, TypeOK
      <3> QED BY <3>1, <3>2
    <2> QED BY <1>8, <2>1 DEF Write, To, TypeOK, Starting
  <1>9. ASSUME NEW d \in Proc, Look(d) PROVE TypeOK'
    BY <1>9 DEF Look, To, TypeOK, Starting
  <1>10. ASSUME NEW d \in Proc, Unlink(d) PROVE TypeOK'
    BY <1>10 DEF Unlink, To, TypeOK, Starting
  <1>11. ASSUME NEW d \in Proc, Listen(d) PROVE TypeOK'
    BY <1>11 DEF Listen, MayBind, To, TypeOK, Starting, Closing
  <1>12. ASSUME NEW d \in Proc, Harden(d) PROVE TypeOK'
    BY <1>12 DEF Harden, StopListening, To, TypeOK, Closing
  <1>13. ASSUME NEW d \in Proc, Close(d) PROVE TypeOK'
    BY <1>13 DEF Close, StopListening, To, TypeOK, Closing
  <1>14. ASSUME NEW d \in Proc, Drain(d) PROVE TypeOK'
    BY <1>14 DEF Drain, To, TypeOK, Closing
  <1>15. ASSUME NEW d \in Proc, RmSock(d) PROVE TypeOK'
    BY <1>15 DEF RmSock, To, TypeOK, Closing
  <1>16. ASSUME NEW d \in Proc, ReadPid(d) PROVE TypeOK'
    BY <1>16 DEF ReadPid, To, TypeOK, Closing
  <1>17. ASSUME NEW d \in Proc, RmPid(d) PROVE TypeOK'
    BY <1>17 DEF RmPid, To, TypeOK, Closing, PidFile
  <1>18. ASSUME NEW d \in Proc, RmDir(d) PROVE TypeOK'
    <2>1. Exit(d, pidFile, sock) /\ dir' = (dir /\ (pidFile # None \/ sock # None))
      BY <1>18 DEF RmDir
    <2>2. pidFile \in PidFile /\ sock \in Proc \cup {None, Dead} /\ dir \in BOOLEAN /\ (pidFile # None \/ sock # None => dir)
      BY DEF TypeOK
    <2> QED BY <1>18, <2>1, <2>2, ExitTypes DEF RmDir, TypeOK
  <1>19. ASSUME NEW d \in Proc, Kill(d) PROVE TypeOK'
    <2>1. Exit(d, pidFile, sock) /\ kills' = kills + 1 /\ kills < MaxKills
      BY <1>19 DEF Kill
    <2>2. pidFile \in PidFile /\ sock \in Proc \cup {None, Dead} /\ kills \in 0..MaxKills
      BY DEF TypeOK
    <2>3. kills' \in 0..MaxKills
      BY <2>1, <2>2, BoundAssumption
    <2> QED BY <1>19, <2>1, <2>2, <2>3, ExitTypes DEF Kill, TypeOK
  <1>20. ASSUME NEW d \in Proc, Spawn(d) PROVE TypeOK'
    BY <1>20 DEF Spawn, To, TypeOK, Starting
  <1> QED
    BY <1>1, <1>2, <1>3, <1>4, <1>5, <1>6, <1>7, <1>8, <1>9, <1>10, <1>11, <1>12, <1>13, <1>14,
       <1>15, <1>16, <1>17, <1>18, <1>19, <1>20 DEF Next, Advance, Stop, Retire

-----------------------------------------------------------------------------
\* Who holds the claim survives an exit of a process that leaves the files as
\* they are: its own claim becomes nobody's.
LEMMA ExitTenure ==
    ASSUME TypeOK, Tenure, NEW d \in Proc, Exit(d, pidFile, sock)
    PROVE  Tenure'
  <1> USE DEF TypeOK, Tenure, Exit, To
  <1>1. pidFile' = None <=> pidFile = None
    BY ZenonT(40), ExitTypes
  <1>2. st'[d] = "off" /\ \A e \in Proc : e # d => st'[e] = st[e]
    OBVIOUS
  <1>3. ASSUME pidFile # None PROVE /\ pidFile \in [by : Proc \cup {Dead}, written : BOOLEAN]
                                    /\ pidFile'.by = (IF pidFile.by = d THEN Dead ELSE pidFile.by)
                                    /\ pidFile'.written = pidFile.written
    BY <1>3 DEF PidFile
  <1>4. \A e \in Proc : Claiming(e)' <=> (pidFile' # None /\ pidFile'.by = e)
    BY ONLY <1>1, <1>2, <1>3, Tenure, NamesAssumption DEF Tenure, Claiming
  <1>5. \A e \in Proc : Claiming(e)' /\ st'[e] # "write" => pidFile'.written
    BY ONLY <1>1, <1>2, <1>3, Tenure DEF Tenure, Claiming
  <1>6. \A e \in Proc : Accepting(e)' => sock' = e
    BY ONLY <1>2, Tenure, Exit(d, pidFile, sock), d \in Proc DEF Tenure, Accepting, Exit
  <1> QED BY ONLY <1>4, <1>5, <1>6 DEF Tenure

\* A step of one process that keeps the claims, the pid file and the path.
LEMMA KeepTenure ==
    ASSUME TypeOK, Tenure, NEW d \in Proc, NEW s,
           To(d, s), pidFile' = pidFile, sock' = sock,
           (s \in {"look", "unlink", "listen", "harden", "serve", "drain", "rmsock", "readpid", "rmpid"}) <=> Claiming(d),
           s # "write", st[d] # "write",
           s \in {"harden", "serve"} => sock = d
    PROVE  Tenure'
  <1>1. st'[d] = s /\ \A e \in Proc : e # d => st'[e] = st[e]
    BY DEF To, TypeOK
  <1>2. \A e \in Proc : Claiming(e)' <=> Claiming(e)
    BY <1>1 DEF Claiming
  <1>3. \A e \in Proc : Accepting(e)' => sock' = e
    BY <1>1 DEF Accepting, Tenure
  <1> QED BY <1>1, <1>2, <1>3 DEF Tenure

\* As long as nobody was robbed, every step leaves the claim where it is.
LEMMA NextTenure == DaemonInv /\ [Next]_vars /\ ~robbed' => Tenure'
  <1> SUFFICES ASSUME TypeOK, ~robbed => Tenure, [Next]_vars, ~robbed' PROVE Tenure'
    BY DEF DaemonInv
  <1>0. ~robbed /\ Tenure
    BY DEF Next, vars, Advance, Stop, Retire, Update, MkDir, Judge, Check, Unclaim, Create, Write, Look, Unlink,
       Listen, Harden, Close, Drain, RmSock, ReadPid, RmPid, RmDir, Kill, Spawn, TypeOK
  <1>1. CASE UNCHANGED vars
    BY <1>0, <1>1 DEF vars, Tenure, Claiming, Accepting
  <1>2. CASE Update
    BY <1>0, <1>2 DEF Update, Tenure, Claiming, Accepting
  <1>3. ASSUME NEW d \in Proc, MkDir(d) PROVE Tenure'
    <2>1. To(d, "judge") /\ pidFile' = pidFile /\ sock' = sock /\ st[d] = "mkdir" /\ ~Claiming(d)
      BY <1>3 DEF MkDir, Claiming
    <2> QED BY <1>0, <2>1, KeepTenure
  <1>4. ASSUME NEW d \in Proc, Judge(d) PROVE Tenure'
    <2>1. pidFile' = pidFile /\ sock' = sock /\ st[d] = "judge" /\ ~Claiming(d)
      BY <1>4 DEF Judge, Claiming
    <2>2. To(d, "create") \/ To(d, "unclaim") \/ To(d, "check")
      BY <1>4 DEF Judge
    <2> QED BY <1>0, <2>1, <2>2, KeepTenure
  <1>5. ASSUME NEW d \in Proc, Check(d) PROVE Tenure'
    <2>1. CASE saw[d] \in Proc
      BY <1>0, <1>5, <2>1, ExitTenure DEF Check
    <2>2. CASE saw[d] \notin Proc
      <3>1. To(d, "unclaim") /\ pidFile' = pidFile /\ sock' = sock /\ st[d] = "check" /\ ~Claiming(d)
        BY <1>5, <2>2 DEF Check, Claiming
      <3> QED BY <1>0, <3>1, KeepTenure
    <2> QED BY <2>1, <2>2
  <1>6. ASSUME NEW d \in Proc, Unclaim(d) PROVE Tenure'
    <2>1. /\ st[d] = "unclaim" /\ st'[d] = "create" /\ (\A e \in Proc : e # d => st'[e] = st[e])
          /\ pidFile' = None /\ sock' = sock
          /\ pidFile = None \/ pidFile.by \notin Proc
      BY <1>6 DEF Unclaim, To, TypeOK
    <2> QED BY <1>0, <2>1 DEF Tenure, Claiming, Accepting
  <1>7. ASSUME NEW d \in Proc, Create(d) PROVE Tenure'
    <2>1. CASE MayCreate(pidFile)
      <3>1. /\ st[d] = "create" /\ st'[d] = "write" /\ (\A e \in Proc : e # d => st'[e] = st[e])
            /\ pidFile = None /\ pidFile' = [by |-> d, written |-> FALSE] /\ sock' = sock
        BY <1>7, <2>1 DEF Create, To, TypeOK, MayCreate
      <3>2. pidFile' \in [by : Proc \cup {Dead}, written : BOOLEAN] /\ pidFile'.by = d
        BY <3>1
      <3>3. pidFile' # None
        BY <3>2, NamesAssumption
      <3> QED BY <1>0, <3>1, <3>2, <3>3 DEF Tenure, Claiming, Accepting
    <2>2. CASE ~MayCreate(pidFile)
      BY <1>0, <1>7, <2>2, ExitTenure DEF Create
    <2> QED BY <2>1, <2>2
  <1>8. ASSUME NEW d \in Proc, Write(d) PROVE Tenure'
    <2>1. st[d] = "write" /\ st'[d] = "look" /\ (\A e \in Proc : e # d => st'[e] = st[e]) /\ sock' = sock
      BY <1>8 DEF Write, To, TypeOK
    <2>2. pidFile # None /\ pidFile.by = d
      BY <1>0, <2>1 DEF Tenure, Claiming
    <2>3. pidFile \in [by : Proc \cup {Dead}, written : BOOLEAN]
      BY <2>2 DEF TypeOK, PidFile
    <2>4. pidFile' \in [by : Proc \cup {Dead}, written : BOOLEAN] /\ pidFile'.by = d /\ pidFile'.written
      BY <1>8, <2>2, <2>3 DEF Write
    <2>5. pidFile' # None
      BY <2>4, NamesAssumption
    <2> QED BY <1>0, <2>1, <2>2, <2>4, <2>5 DEF Tenure, Claiming, Accepting
  <1>9. ASSUME NEW d \in Proc, Look(d) PROVE Tenure'
    <2>1. (To(d, "listen") \/ To(d, "unlink")) /\ pidFile' = pidFile /\ sock' = sock /\ st[d] = "look" /\ Claiming(d)
      BY <1>9 DEF Look, Claiming
    <2> QED BY <1>0, <2>1, KeepTenure
  <1>10. ASSUME NEW d \in Proc, st[d] \in {"unlink", "harden", "serve", "rmsock"}, NEW s \in {"listen", "drain", "readpid"},
                To(d, s), sock' = None, pidFile' = pidFile PROVE Tenure'
    <2>1. st'[d] = s /\ (\A e \in Proc : e # d => st'[e] = st[e])
      BY <1>10 DEF To, TypeOK
    <2>2. \A e \in Proc : e # d => ~Claiming(e)
      BY <1>0, <1>10 DEF Tenure, Claiming
    <2> QED BY <1>0, <1>10, <2>1, <2>2 DEF Tenure, Claiming, Accepting
  <1>11. ASSUME NEW d \in Proc, Listen(d) PROVE Tenure'
    <2>1. pidFile' = pidFile /\ st[d] = "listen" /\ Claiming(d)
      BY <1>11 DEF Listen, Claiming
    <2>2. CASE MayBind(sock)
      <3>1. sock' = d /\ st'[d] = "harden" /\ (\A e \in Proc : e # d => st'[e] = st[e])
        BY <1>11, <2>2 DEF Listen, To, TypeOK
      <3>2. \A e \in Proc : e # d => ~Claiming(e)
        BY <1>0, <2>1 DEF Tenure
      <3> QED BY <1>0, <2>1, <3>1, <3>2 DEF Tenure, Claiming, Accepting
    <2>3. CASE ~MayBind(sock)
      BY <1>0, <1>11, <2>1, <2>3, KeepTenure DEF Listen
    <2> QED BY <2>2, <2>3
  <1>12. ASSUME NEW d \in Proc, Harden(d) PROVE Tenure'
    <2>1. CASE sock = None
      BY <1>12, <2>1, <1>10 DEF Harden, StopListening
    <2>2. CASE sock # None
      <3>1. To(d, "serve") /\ pidFile' = pidFile /\ sock' = sock /\ st[d] = "harden" /\ Claiming(d) /\ Accepting(d)
        BY <1>12, <2>2 DEF Harden, Claiming, Accepting
      <3>2. sock = d
        BY <1>0, <3>1 DEF Tenure
      <3> QED BY <1>0, <3>1, <3>2, KeepTenure
    <2> QED BY <2>1, <2>2
  <1>13. ASSUME NEW d \in Proc, Close(d) PROVE Tenure'
    BY <1>13, <1>10 DEF Close, StopListening, Accepting
  <1>14. ASSUME NEW d \in Proc, Drain(d) PROVE Tenure'
    <2>1. To(d, "rmsock") /\ pidFile' = pidFile /\ sock' = sock /\ st[d] = "drain" /\ Claiming(d)
      BY <1>14 DEF Drain, Claiming
    <2> QED BY <1>0, <2>1, KeepTenure
  <1>15. ASSUME NEW d \in Proc, RmSock(d) PROVE Tenure'
    BY <1>15, <1>10 DEF RmSock
  <1>16. ASSUME NEW d \in Proc, ReadPid(d) PROVE Tenure'
    <2>1. st[d] = "readpid" /\ Claiming(d) /\ pidFile' = pidFile /\ sock' = sock
      BY <1>16 DEF ReadPid, Claiming
    <2>2. pidFile # None /\ Claimed(pidFile) = d
      BY <1>0, <2>1 DEF Tenure, Claimed
    <2>3. To(d, "rmpid")
      BY <1>16, <2>2 DEF ReadPid
    <2> QED BY <1>0, <2>1, <2>3, KeepTenure
  <1>17. ASSUME NEW d \in Proc, RmPid(d) PROVE Tenure'
    <2>1. /\ st[d] = "rmpid" /\ st'[d] = "rmdir" /\ (\A e \in Proc : e # d => st'[e] = st[e])
          /\ pidFile' = None /\ sock' = sock
      BY <1>17 DEF RmPid, To, TypeOK
    <2>2. \A e \in Proc : e # d => ~Claiming(e)
      BY <1>0, <2>1 DEF Tenure, Claiming
    <2> QED BY <1>0, <2>1, <2>2 DEF Tenure, Claiming, Accepting
  <1>18. ASSUME NEW d \in Proc, RmDir(d) PROVE Tenure'
    BY <1>0, <1>18, ExitTenure DEF RmDir
  <1>19. ASSUME NEW d \in Proc, Kill(d) PROVE Tenure'
    BY <1>0, <1>19, ExitTenure DEF Kill
  <1>20. ASSUME NEW d \in Proc, Unlink(d) PROVE Tenure'
    BY <1>20, <1>10 DEF Unlink
  <1>21. ASSUME NEW d \in Proc, Spawn(d) PROVE Tenure'
    <2>1. To(d, "mkdir") /\ pidFile' = pidFile /\ sock' = sock /\ st[d] = "off" /\ ~Claiming(d)
      BY <1>21 DEF Spawn, Claiming
    <2> QED BY <1>0, <2>1, KeepTenure
  <1> QED
    BY ONLY [Next]_vars, <1>1, <1>2, <1>3, <1>4, <1>5, <1>6, <1>7, <1>8, <1>9, <1>11, <1>12, <1>13, <1>14,
       <1>15, <1>16, <1>17, <1>18, <1>19, <1>20, <1>21 DEF Next, Advance, Stop, Retire

\* The files, the processes and the counters keep their types, and the
\* directory stays as long as something is in it (all of SksdDaemon).
THEOREM DaemonTypes == Spec => []TypeOK
  BY InitTypeOK, NextTypeOK, PTL DEF Spec

\* Initially nobody claims anything.
LEMMA InitTenure == Init => Tenure
  BY DEF Init, Tenure, Claiming, Accepting

\* The inductive invariant: types, and the claim of an unrobbed project.
THEOREM DaemonInvariant == Spec => []DaemonInv
  <1>1. Init => DaemonInv
    BY InitTypeOK, InitTenure DEF DaemonInv
  <1>2. DaemonInv /\ [Next]_vars => DaemonInv'
    BY NextTypeOK, NextTenure DEF DaemonInv
  <1> QED BY <1>1, <1>2, PTL DEF Spec

\* One daemon, which holds the claim and the path, unless a starter removed a
\* live claim (claimPidFile against cleanupRuntimeArtifacts, any interleaving).
THEOREM OneDaemon == Spec => []OneDaemonUnlessRobbed
  <1>1. DaemonInv => OneDaemonUnlessRobbed
    <2> SUFFICES ASSUME Tenure PROVE OneDaemonUnlessRobbed
      BY DEF DaemonInv, OneDaemonUnlessRobbed
    <2>1. \A d, e \in Proc : Claiming(d) /\ Claiming(e) => d = e
      BY DEF Tenure
    <2>2. \A d \in Proc : st[d] = "serve" => Reachable(d) /\ pidFile # None /\ Claimed(pidFile) = d
      BY DEF Tenure, Claiming, Accepting, Reachable, Claimed
    <2> QED BY <2>1, <2>2 DEF OneDaemonUnlessRobbed
  <1> QED BY <1>1, DaemonInvariant, PTL

-----------------------------------------------------------------------------
(* What the callers see. *)

status == [d \in Proc |-> Status(d)]

\* A step after which one process has another status is a step of that status.
LEMMA OneStatus ==
    ASSUME NEW d \in Proc, NEW s, \A e \in Proc : e # d => Status(e)' = Status(e), Status(d)' = s
    PROVE  status' = [status EXCEPT ![d] = s]
  BY DEF status

\* A step that changes the place of one process, and no path.
LEMMA OthersKeep ==
    ASSUME TypeOK, NEW d \in Proc, NEW s, To(d, s), sock' = sock
    PROVE  st'[d] = s /\ \A e \in Proc : e # d => Status(e)' = Status(e)
  BY DEF To, TypeOK, Status, Reachable, Accepting

\* Such a step inside of start, or inside of close, is invisible.
LEMMA Invisible ==
    ASSUME TypeOK, NEW d \in Proc, NEW s, To(d, s), sock' = sock, UNCHANGED <<ver, installed>>,
           \/ st[d] \in Starting \ {"harden"} /\ s \in Starting \ {"harden"}
           \/ Accepting(d) /\ s \in {"harden", "serve"}
           \/ st[d] \in Closing /\ s \in Closing
    PROVE  UNCHANGED <<status, ver, installed>>
  <1>1. Status(d)' = Status(d)
    BY OthersKeep DEF Status, Reachable, Accepting, Starting, Closing
  <1> QED BY <1>1, OthersKeep DEF status

\* A process ends.
LEMMA ExitEnds ==
    ASSUME TypeOK, NEW d \in Proc, Alive(d), Exit(d, pidFile, sock), UNCHANGED <<ver, installed>>
    PROVE  Service!End(d)
  <1>1. st'[d] = "off" /\ \A e \in Proc : e # d => st'[e] = st[e] /\ (sock' = e <=> sock = e)
    BY NamesAssumption DEF Exit, To, TypeOK
  <1>2. Status(d)' = "off" /\ Status(d) # "off"
    BY <1>1 DEF Status, Alive
  <1>3. \A e \in Proc : e # d => Status(e)' = Status(e)
    BY <1>1 DEF Status, Reachable, Accepting
  <1> QED BY <1>2, <1>3, OneStatus DEF Service!End, Service!Becomes, status

\* The path is removed: whoever was reachable leaves.
LEMMA PathRemoved ==
    ASSUME TypeOK, NEW d \in Proc, NEW s, To(d, s), sock' = None, UNCHANGED <<ver, installed>>,
           \/ st[d] = "unlink" /\ s = "listen"
           \/ st[d] \in {"harden", "serve", "rmsock"} /\ s \in Closing
    PROVE  Service!ServiceNext \/ UNCHANGED <<status, ver, installed>>
  <1>1. st'[d] = s /\ \A e \in Proc : e # d => st'[e] = st[e]
    BY DEF To, TypeOK
  <1>2. \A e \in Proc : sock' # e
    BY NamesAssumption
  <1>3. \A e \in Proc : ~Reachable(e) => Status(e)' = Status(e)
    BY <1>1, <1>2 DEF Status, Reachable, Accepting, Starting, Closing
  <1>4. \A e \in Proc : Reachable(e) => Status(e) = "up" /\ Status(e)' = "leaving"
    BY <1>1, <1>2 DEF Status, Reachable, Accepting, Starting, Closing
  <1>5. CASE \A e \in Proc : ~Reachable(e)
    BY <1>3, <1>5 DEF status
  <1>6. CASE \E e \in Proc : Reachable(e)
    <2>1. PICK e \in Proc : Reachable(e)
      BY <1>6
    <2>2. \A f \in Proc : f # e => Status(f)' = Status(f)
      BY <1>3, <2>1 DEF Reachable
    <2>3. Service!Leave(e)
      BY <1>4, <2>1, <2>2, OneStatus DEF Service!Leave, Service!Becomes, status
    <2> QED BY <2>3 DEF Service!ServiceNext
  <1> QED BY <1>5, <1>6

\* Every step of the daemons is a step of the service or invisible to it.
LEMMA StepServes == TypeOK /\ [Next]_vars => [Service!ServiceNext]_<<status, ver, installed>>
  <1> SUFFICES ASSUME TypeOK, [Next]_vars PROVE Service!ServiceNext \/ UNCHANGED <<status, ver, installed>>
    OBVIOUS
  <1> DEFINE Goal == Service!ServiceNext \/ UNCHANGED <<status, ver, installed>>
  <1>1. CASE UNCHANGED vars
    BY <1>1 DEF vars, status, Status, Reachable, Accepting
  <1>2. CASE Update
    BY <1>2 DEF Update, status, Status, Reachable, Accepting, Service!ServiceNext, Service!Update
  <1>3. ASSUME NEW d \in Proc, MkDir(d) PROVE Goal
    BY <1>3, Invisible DEF MkDir, Starting
  <1>4. ASSUME NEW d \in Proc, Judge(d) PROVE Goal
    <2>1. sock' = sock /\ UNCHANGED <<ver, installed>> /\ st[d] = "judge"
      BY <1>4 DEF Judge
    <2>2. To(d, "create") \/ To(d, "unclaim") \/ To(d, "check")
      BY <1>4 DEF Judge
    <2> QED BY <2>1, <2>2, Invisible DEF Starting
  <1>5. ASSUME NEW d \in Proc, Exit(d, pidFile, sock), Alive(d), UNCHANGED <<ver, installed>> PROVE Goal
    BY <1>5, ExitEnds DEF Service!ServiceNext
  <1>6. ASSUME NEW d \in Proc, Check(d) PROVE Goal
    <2>1. CASE saw[d] \in Proc
      BY <1>6, <2>1, <1>5 DEF Check, Alive
    <2>2. CASE saw[d] \notin Proc
      BY <1>6, <2>2, Invisible DEF Check, Starting
    <2> QED BY <2>1, <2>2
  <1>7. ASSUME NEW d \in Proc, Unclaim(d) PROVE Goal
    BY <1>7, Invisible DEF Unclaim, Starting
  <1>8. ASSUME NEW d \in Proc, Create(d) PROVE Goal
    <2>1. CASE MayCreate(pidFile)
      BY <1>8, <2>1, Invisible DEF Create, Starting
    <2>2. CASE ~MayCreate(pidFile)
      BY <1>8, <2>2, <1>5 DEF Create, Alive
    <2> QED BY <2>1, <2>2
  <1>9. ASSUME NEW d \in Proc, Write(d) PROVE Goal
    BY <1>9, Invisible DEF Write, Starting
  <1>10. ASSUME NEW d \in Proc, Look(d) PROVE Goal
    <2>1. sock' = sock /\ UNCHANGED <<ver, installed>> /\ st[d] = "look" /\ (To(d, "listen") \/ To(d, "unlink"))
      BY <1>10 DEF Look
    <2> QED BY <2>1, Invisible DEF Starting
  <1>11. ASSUME NEW d \in Proc, Unlink(d) PROVE Goal
    BY <1>11, PathRemoved DEF Unlink
  <1>12. ASSUME NEW d \in Proc, Listen(d) PROVE Goal
    <2>1. st[d] = "listen" /\ Status(d) = "starting" /\ UNCHANGED <<ver, installed>>
      BY <1>12 DEF Listen, Status, Starting
    <2>2. CASE MayBind(sock)
      <3>1. sock = None /\ sock' = d /\ st'[d] = "harden" /\ (\A e \in Proc : e # d => st'[e] = st[e])
        BY <1>12, <2>2 DEF Listen, MayBind, To, TypeOK
      <3>2. \A e \in Proc : Status(e) # "up"
        BY <3>1, NamesAssumption DEF Status, Reachable, Starting
      <3>3. Status(d)' = "up" /\ \A e \in Proc : e # d => Status(e)' = Status(e)
        BY <3>1, NamesAssumption DEF Status, Reachable, Accepting, Starting
      <3>4. Service!Up(d)
        BY <2>1, <3>2, <3>3, OneStatus DEF Service!Up, Service!Becomes, status
      <3> QED BY <3>4 DEF Service!ServiceNext
    <2>3. CASE ~MayBind(sock)
      <3>1. sock' = sock /\ To(d, "rmsock")
        BY <1>12, <2>3 DEF Listen
      <3>2. Status(d)' = "leaving" /\ \A e \in Proc : e # d => Status(e)' = Status(e)
        BY <3>1, OthersKeep DEF Status, Reachable, Accepting, Starting
      <3>3. Service!Leave(d)
        BY <2>1, <3>2, OneStatus DEF Service!Leave, Service!Becomes, status
      <3> QED BY <3>3 DEF Service!ServiceNext
    <2> QED BY <2>2, <2>3
  <1>13. ASSUME NEW d \in Proc, Harden(d) PROVE Goal
    <2>1. CASE sock = None
      BY <1>13, <2>1, PathRemoved DEF Harden, StopListening, Closing
    <2>2. CASE sock # None
      BY <1>13, <2>2, Invisible DEF Harden, Accepting
    <2> QED BY <2>1, <2>2
  <1>14. ASSUME NEW d \in Proc, Close(d) PROVE Goal
    BY <1>14, PathRemoved DEF Close, StopListening, Closing, Accepting
  <1>15. ASSUME NEW d \in Proc, Drain(d) PROVE Goal
    BY <1>15, Invisible DEF Drain, Closing
  <1>16. ASSUME NEW d \in Proc, RmSock(d) PROVE Goal
    BY <1>16, PathRemoved DEF RmSock, Closing
  <1>17. ASSUME NEW d \in Proc, ReadPid(d) PROVE Goal
    <2>1. sock' = sock /\ UNCHANGED <<ver, installed>> /\ st[d] = "readpid" /\ (To(d, "rmpid") \/ To(d, "rmdir"))
      BY <1>17 DEF ReadPid
    <2> QED BY <2>1, Invisible DEF Closing
  <1>18. ASSUME NEW d \in Proc, RmPid(d) PROVE Goal
    BY <1>18, Invisible DEF RmPid, Closing
  <1>19. ASSUME NEW d \in Proc, RmDir(d) PROVE Goal
    BY <1>19, <1>5 DEF RmDir, Alive
  <1>20. ASSUME NEW d \in Proc, Kill(d) PROVE Goal
    BY <1>20, <1>5 DEF Kill
  <1>21. ASSUME NEW d \in Proc, Spawn(d) PROVE Goal
    <2>1. To(d, "mkdir") /\ sock' = sock /\ Status(d) = "off" /\ ver' = [ver EXCEPT ![d] = installed] /\ installed' = installed
      BY <1>21 DEF Spawn, Status
    <2>2. Status(d)' = "starting" /\ \A e \in Proc : e # d => Status(e)' = Status(e)
      BY <2>1, OthersKeep DEF Status, Starting
    <2>3. Service!Start(d)
      BY <2>1, <2>2, OneStatus DEF Service!Start, status
    <2> QED BY <2>3 DEF Service!ServiceNext
  <1> QED
    BY ONLY [Next]_vars, <1>1, <1>2, <1>3, <1>4, <1>6, <1>7, <1>8, <1>9, <1>10, <1>11, <1>12, <1>13, <1>14,
       <1>15, <1>16, <1>17, <1>18, <1>19, <1>20, <1>21 DEF Next, Advance, Stop, Retire, Goal

\* The daemons keep the promise of HookService to their callers.
THEOREM DaemonsServe == Spec => ImplementsHookService
  <1>1. Init => Service!ServiceInit
    BY DEF Init, Service!ServiceInit, Status
  <1>2. TypeOK /\ [Next]_vars => [Service!ServiceNext]_Service!serviceVars
    BY StepServes DEF status, Service!serviceVars
  <1> QED BY <1>1, <1>2, DaemonTypes, PTL DEF Spec, ImplementsHookService, Service!ServiceSpec
=============================================================================
