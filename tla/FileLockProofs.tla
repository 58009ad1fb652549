--------------------------- MODULE FileLockProofs ---------------------------
(***************************************************************************)
(* Theorems about FileLock, for any number of calls and processes.         *)
(*                                                                         *)
(*   TypeCorrect      the type invariant, with nothing assumed;            *)
(*   LockIsExclusive, ReleaseIsConfined, ReclaimIsSafe, LockImplementsMutex*)
(*                    if, wherever a process with calls dies, one call at  *)
(*                    most is left (OneSurvives);                          *)
(*   ProtectedChildHoldsLock, ReleaseLeavesNothing                         *)
(*                    under the same assumption, unless a heartbeat write  *)
(*                    came too late (the history variable late).           *)
(*                                                                         *)
(* All but the first assume that no live call is paused for a stale window *)
(* at the places Paused names.  Heartbeat writes may be as late as they    *)
(* like before they open their file.  No assumption can be dropped: two    *)
(* waiters that recover the lock of a dead third exclude nobody,           *)
(* Timely = FALSE lets a waiter take a lock that is in use, and a late     *)
(* heartbeat forgets the child protected after it began, or puts a file    *)
(* into the directory that is being removed.                               *)
(***************************************************************************)
EXTENDS FileLock, TLAPS

USE PidOfAssumption, ChildAssumption, NoneAssumption, TimelyAssumption

-----------------------------------------------------------------------------
(***************************************************************************)
(* What the steps on the directory do to its type                          *)
(***************************************************************************)

\* Opening a temporary owner file in a directory that is there.
LEMMA AddTmpTypes ==
    ASSUME DirTypeOK, maker # None, NEW a \in Actor, NEW k \in {"call", "beat"},
           AddTmp(<<a, k>>)
    PROVE  DirTypeOK'
<1>1. tmps' \in SUBSET Files
  BY DEF DirTypeOK, AddTmp, Files
<1>2. aged' \in BOOLEAN
  BY DEF AddTmp
<1> QED
  BY <1>1, <1>2 DEF DirTypeOK, AddTmp

\* Renaming it onto owner.json.
LEMMA PutOwnerTypes ==
    ASSUME DirTypeOK, NEW a \in Actor, NEW k \in {"call", "beat"},
           NEW protected \in SUBSET Child,
           <<a, k>> \in tmps, PutOwner(a, <<a, k>>, protected)
    PROVE  DirTypeOK'
BY DEF DirTypeOK, PutOwner

\* A directory that nobody touches.
LEMMA SameDirTypes == ASSUME DirTypeOK, UNCHANGED dirVars PROVE DirTypeOK'
BY DEF DirTypeOK, dirVars

\* No directory.
LEMMA NoDirTypes == ASSUME Dir(None, None, {}, {}, FALSE) PROVE DirTypeOK'
BY DEF DirTypeOK, Dir

\* The variables keep their types and an absent directory is empty, whatever
\* the processes do: every file-system step of file-lock.ts, crashes included.
THEOREM TypeCorrect == Spec => []TypeOK
<1>1. Init => TypeOK
  BY DEF Init, TypeOK, DirTypeOK, PCs
<1>2. TypeOK /\ [Next]_vars => TypeOK'
  <2> SUFFICES ASSUME TypeOK, [Next]_vars PROVE TypeOK'
    OBVIOUS
  <2> USE DEF TypeOK, PCs, Goto
  <2>1. ASSUME NEW a \in Actor, Acquiring(a) PROVE TypeOK'
    <3>1. CASE Mkdir(a)
      BY <3>1, SameDirTypes DEF Mkdir, Dir, DirTypeOK, beatVars
    <3>2. CASE MkdirExists(a)
      BY <3>2, SameDirTypes DEF MkdirExists, beatVars
    <3>3. CASE OpenOwner(a)
      BY <3>3, AddTmpTypes, SameDirTypes DEF OpenOwner, beatVars
    <3>4. CASE RenameOwner(a)
      BY <3>4, PutOwnerTypes, SameDirTypes DEF RenameOwner, beatVars
    <3>5. CASE JudgeOwner(a)
      BY <3>5, SameDirTypes DEF JudgeOwner, beatVars
    <3>6. CASE OwnerMissing(a)
      BY <3>6, SameDirTypes DEF OwnerMissing, beatVars
    <3>7. CASE JudgeMtime(a)
      BY <3>7, SameDirTypes DEF JudgeMtime, beatVars
    <3>8. CASE Quarantine(a)
      BY <3>8, NoDirTypes, SameDirTypes DEF Quarantine, beatVars
    <3>9. CASE Retry(a)
      BY <3>9, SameDirTypes DEF Retry, beatVars
    <3> QED
      BY <2>1, <3>1, <3>2, <3>3, <3>4, <3>5, <3>6, <3>7, <3>8, <3>9 DEF Acquiring
  <2>2. ASSUME NEW a \in Actor, Releasing(a) PROVE TypeOK'
    <3>1. CASE BeginRelease(a)
      BY <3>1, SameDirTypes DEF BeginRelease, beatVars
    <3>2. CASE ReleaseRead(a)
      BY <3>2, SameDirTypes DEF ReleaseRead, beatVars
    <3>3. CASE RemoveEntries(a)
      BY <3>3 DEF RemoveEntries, DirTypeOK, beatVars
    <3>4. CASE RemoveDir(a)
      BY <3>4, NoDirTypes, SameDirTypes DEF RemoveDir, beatVars
    <3> QED
      BY <2>2, <3>1, <3>2, <3>3, <3>4 DEF Releasing
  <2>3. ASSUME NEW a \in Actor, Protecting(a) \/ HeartbeatWrite(a) PROVE TypeOK'
    <3>1. CASE ProtectOpen(a)
      BY <3>1, AddTmpTypes, SameDirTypes DEF ProtectOpen, beatVars
    <3>2. CASE ProtectRename(a)
      BY <3>2, PutOwnerTypes, SameDirTypes DEF ProtectRename, beatVars
    <3>3. CASE BeatOpen(a)
      BY <3>3, AddTmpTypes, SameDirTypes DEF BeatOpen, callVars
    <3>4. CASE BeatRename(a)
      BY <3>4, PutOwnerTypes, SameDirTypes DEF BeatRename, callVars
    <3> QED
      BY <2>3, <3>1, <3>2, <3>3, <3>4 DEF Protecting, HeartbeatWrite
  <2>4. ASSUME NEW a \in Actor, GiveUp(a) \/ Beat(a) PROVE TypeOK'
    BY <2>4, SameDirTypes DEF GiveUp, Beat, callVars, beatVars
  <2>5. ASSUME NEW a \in Actor, NEW c \in Child, Protect(a, c) PROVE TypeOK'
    BY <2>5, SameDirTypes DEF Protect, beatVars
  <2>6. ASSUME NEW p \in Pid, Die(p) PROVE TypeOK'
    BY <2>6, SameDirTypes DEF Die, callVars, beatVars
  <2>7. CASE Age
    BY <2>7 DEF Age, DirTypeOK, callVars, beatVars
  <2>8. CASE UNCHANGED vars
    BY <2>8, SameDirTypes DEF vars, callVars, beatVars
  <2> QED
    BY <2>1, <2>2, <2>3, <2>4, <2>5, <2>6, <2>7, <2>8 DEF Next
<1> QED
  BY <1>1, <1>2, PTL DEF Spec

-----------------------------------------------------------------------------
(***************************************************************************)
(* While every call lives.  The argument: the call that made the directory *)
(* is the only one past mkdir; a directory without an owner record is      *)
(* being worked on by a call that is not paused, or by a heartbeat write,  *)
(* so it is fresh; a record always names a call of a live process.  Hence  *)
(* no waiter ever finds the lock stale, and nobody renames it away.        *)
(***************************************************************************)
PastMkdir == {"open", "rename", "critical", "popen", "prename",
              "relread", "unlink", "rmdir"}

MakerAlone == \A a \in Actor : pc[a] \in PastMkdir => maker = a

NobodyReclaims == \A a \in Actor : pc[a] # "quarantine"

EveryoneLives == \A a \in Actor : PidOf[a] \in alive

CallFiles ==
    \A a \in Actor :
        /\ pc[a] = "rename" => <<a, "call">> \in tmps
        /\ <<a, "call">> \in tmps => pc[a] \in {"rename", "prename"}

BeatFiles == \A a \in Actor : <<a, "beat">> \in tmps => hb[a] = "rename"

FreshUnlessNamed ==
    /\ owner = None => ~aged
    /\ \A a \in Actor : pc[a] = "stat" => ~aged

Attended ==
    maker # None /\ owner = None =>
        \/ pc[maker] \in {"open", "rename", "rmdir"}
        \/ \E a \in Actor : <<a, "beat">> \in tmps

LockInv ==
    /\ TypeOK
    /\ MakerAlone
    /\ NobodyReclaims
    /\ EveryoneLives
    /\ CallFiles
    /\ BeatFiles
    /\ FreshUnlessNamed
    /\ Attended

\* At the start there is no directory and no call has one.
LEMMA LockInvInit == Init => LockInv
BY DEF Init, LockInv, TypeOK, DirTypeOK, PCs, PastMkdir, MakerAlone,
       NobodyReclaims, EveryoneLives, CallFiles, BeatFiles, FreshUnlessNamed,
       Attended

\* Each step that no call dies of keeps it; its type part is TypeCorrect's.
LEMMA LockInvStep ==
    ASSUME Timely, LockInv, [Next]_vars, TypeOK', EveryoneLives'
    PROVE  LockInv'
<1> USE DEF LockInv, TypeOK, DirTypeOK, PCs, Files, PastMkdir, MakerAlone,
        NobodyReclaims, EveryoneLives, CallFiles, BeatFiles, FreshUnlessNamed,
        Attended, Goto, At, Live
<1>1. ASSUME NEW a \in Actor, Acquiring(a) PROVE LockInv'
  <2>1. CASE Mkdir(a)
    BY <2>1 DEF Mkdir, Dir, beatVars
  <2>2. CASE MkdirExists(a)
    BY <2>2 DEF MkdirExists, beatVars, dirVars
  <2>3. CASE OpenOwner(a)
    BY <2>3 DEF OpenOwner, AddTmp, beatVars, dirVars
  <2>4. CASE RenameOwner(a)
    BY <2>4 DEF RenameOwner, PutOwner, beatVars, dirVars
  <2>5. CASE JudgeOwner(a)
    BY <2>5 DEF JudgeOwner, OwnerHasLivePid, beatVars, dirVars
  <2>6. CASE OwnerMissing(a)
    BY ZenonT(60), <2>6 DEF OwnerMissing, beatVars, dirVars
  <2>7. CASE JudgeMtime(a)
    BY ZenonT(60), <2>7 DEF JudgeMtime, beatVars, dirVars
  <2>8. CASE Quarantine(a)
    BY <2>8 DEF Quarantine
  <2>9. CASE Retry(a)
    BY <2>9 DEF Retry, beatVars, dirVars
  <2> QED
    BY <1>1, <2>1, <2>2, <2>3, <2>4, <2>5, <2>6, <2>7, <2>8, <2>9 DEF Acquiring
<1>2. ASSUME NEW a \in Actor, Releasing(a) PROVE LockInv'
  <2>1. CASE BeginRelease(a)
    BY ZenonT(60), <2>1 DEF BeginRelease, beatVars, dirVars
  <2>2. CASE ReleaseRead(a)
    BY ZenonT(40), <2>2 DEF ReleaseRead, beatVars, dirVars
  <2>3. CASE RemoveEntries(a)
    BY <2>3 DEF RemoveEntries, beatVars
  <2>4. CASE RemoveDir(a)
    <3>1. CASE owner = None /\ tmps = {}
      BY <2>4, <3>1 DEF RemoveDir, Dir, beatVars
    <3>2. CASE ~(owner = None /\ tmps = {})
      <4>1. owner = None => \E b \in Actor : <<b, "beat">> \in tmps
        <5>1. ASSUME NEW b \in Actor, <<b, "call">> \in tmps PROVE FALSE
          BY <5>1, <2>4 DEF RemoveDir
        <5>2. ASSUME owner = None PROVE \E b \in Actor : <<b, "beat">> \in tmps
          <6>1. PICK t \in tmps : TRUE
            BY <3>2, <5>2
          <6>2. PICK b \in Actor, k \in {"call", "beat"} : t = <<b, k>>
            BY <6>1
          <6> QED
            BY <5>1, <6>1, <6>2
        <5> QED
          BY <5>2
      <4>2. UNCHANGED dirVars
        BY <2>4, <3>2 DEF RemoveDir
      <4> QED
        BY ZenonT(40), <2>4, <4>1, <4>2 DEF RemoveDir, beatVars, dirVars
    <3> QED
      BY <3>1, <3>2
  <2> QED
    BY <1>2, <2>1, <2>2, <2>3, <2>4 DEF Releasing
<1>3. ASSUME NEW a \in Actor, Protecting(a) PROVE LockInv'
  <2>1. CASE ProtectOpen(a)
    <3>1. MakerAlone' /\ NobodyReclaims' /\ EveryoneLives'
      BY <2>1 DEF ProtectOpen, AddTmp, beatVars, dirVars
    <3>2. CallFiles'
      <4>1. ASSUME NEW b \in Actor, b # a
            PROVE  /\ pc'[b] = pc[b]
                   /\ <<b, "call">> \in tmps' <=> <<b, "call">> \in tmps
        BY <2>1, <4>1 DEF ProtectOpen, AddTmp, dirVars
      <4>2. pc'[a] # "rename" /\ (<<a, "call">> \in tmps' => pc'[a] = "prename")
        BY <2>1 DEF ProtectOpen, AddTmp, dirVars
      <4> QED
        BY <4>1, <4>2
    <3>3. BeatFiles'
      BY <2>1 DEF ProtectOpen, AddTmp, beatVars, dirVars
    <3>4. FreshUnlessNamed'
      BY <2>1 DEF ProtectOpen, AddTmp, beatVars, dirVars
    <3>5. Attended'
      BY <2>1 DEF ProtectOpen, AddTmp, beatVars, dirVars
    <3> QED
      BY <3>1, <3>2, <3>3, <3>4, <3>5 DEF LockInv
  <2>2. CASE ProtectRename(a)
    <3>1. MakerAlone' /\ NobodyReclaims' /\ EveryoneLives'
      BY <2>2 DEF ProtectRename, PutOwner, beatVars, dirVars
    <3>2. CallFiles'
      <4>1. ASSUME NEW b \in Actor, b # a
            PROVE  /\ pc'[b] = pc[b]
                   /\ <<b, "call">> \in tmps' <=> <<b, "call">> \in tmps
        BY <2>2, <4>1 DEF ProtectRename, PutOwner, dirVars
      <4>2. pc'[a] # "rename" /\ (<<a, "call">> \in tmps' => pc'[a] = "prename")
        BY <2>2 DEF ProtectRename, PutOwner, dirVars
      <4> QED
        BY <4>1, <4>2
    <3>3. BeatFiles'
      BY <2>2 DEF ProtectRename, PutOwner, beatVars, dirVars
    <3>4. FreshUnlessNamed'
      BY <2>2 DEF ProtectRename, PutOwner, beatVars, dirVars
    <3>5. Attended'
      BY <2>2 DEF ProtectRename, PutOwner, beatVars, dirVars
    <3> QED
      BY <3>1, <3>2, <3>3, <3>4, <3>5 DEF LockInv
  <2> QED
    BY <1>3, <2>1, <2>2 DEF Protecting
<1>4. ASSUME NEW a \in Actor, HeartbeatWrite(a) PROVE LockInv'
  <2>1. CASE BeatOpen(a)
    BY <2>1 DEF BeatOpen, AddTmp, callVars, dirVars
  <2>2. CASE BeatRename(a)
    <3>1. MakerAlone' /\ NobodyReclaims' /\ EveryoneLives'
      BY <2>2 DEF BeatRename, PutOwner, callVars, dirVars
    <3>2. CallFiles'
      BY ZenonT(40), <2>2 DEF BeatRename, PutOwner, callVars, dirVars
    <3>3. BeatFiles'
      BY <2>2 DEF BeatRename, PutOwner, callVars, dirVars
    <3>4. FreshUnlessNamed'
      BY <2>2 DEF BeatRename, PutOwner, callVars, dirVars
    <3>5. Attended'
      <4>1. CASE <<a, "beat">> \in tmps
        BY ONLY <2>2, <4>1, NoneAssumption DEF BeatRename, PutOwner, Attended
      <4>2. CASE <<a, "beat">> \notin tmps
        BY ONLY LockInv, <2>2, <4>2 DEF LockInv, BeatRename, Attended, callVars, dirVars
      <4> QED
        BY ONLY <4>1, <4>2
    <3> QED
      BY <3>1, <3>2, <3>3, <3>4, <3>5 DEF LockInv
  <2> QED
    BY <1>4, <2>1, <2>2 DEF HeartbeatWrite
<1>5. ASSUME NEW a \in Actor, GiveUp(a) \/ Beat(a) PROVE LockInv'
  <2>1. CASE GiveUp(a)
    BY ZenonT(60), <2>1 DEF GiveUp, beatVars, dirVars
  <2>2. CASE Beat(a)
    BY ZenonT(60), <2>2 DEF Beat, callVars, dirVars
  <2> QED
    BY <1>5, <2>1, <2>2
<1>6. ASSUME NEW a \in Actor, NEW c \in Child, Protect(a, c) PROVE LockInv'
  BY ZenonT(40), <1>6 DEF Protect, beatVars, dirVars
<1>7. ASSUME NEW p \in Pid, Die(p) PROVE LockInv'
  <2>1. UNCHANGED <<pc, hb, dirVars>>
    BY <1>7 DEF Die, callVars, beatVars
  <2> QED
    BY <2>1 DEF dirVars
<1>8. CASE Age
  <2>1. \A a \in Actor : ~Paused(a)
    BY <1>8 DEF Age
  <2>2. owner # None
    BY <1>8, <2>1 DEF Age, Paused
  <2> QED
    BY <1>8, <2>1, <2>2 DEF Age, Paused, callVars, beatVars
<1>9. CASE UNCHANGED vars
  BY <1>9 DEF vars, callVars, beatVars, dirVars
<1> QED
  BY <1>1, <1>2, <1>3, <1>4, <1>5, <1>6, <1>7, <1>8, <1>9 DEF Next

-----------------------------------------------------------------------------
(***************************************************************************)
(* Crashes.  While every call lives, what is above holds.  Once some died, *)
(* one call is left: it alone takes steps, and the lock it may rename away *)
(* was made by a dead call, as its own is past renaming.                   *)
(***************************************************************************)
\* Beside a process with calls that may die there is one call at most: it alone is
\* left to reclaim. (No call's process dying is a case of it.)
OneSurvives ==
    \A d, a, b \in Actor :
        PidOf[d] \in MayDie /\ PidOf[a] # PidOf[d] /\ PidOf[b] # PidOf[d] => a = b

SurvivorsLive == \A p \in Pid \ MayDie : p \in alive

LiveMakerAlone == \A a \in Actor : Live(a) /\ pc[a] \in PastMkdir => maker = a

\* Whose directory it is works on it or has left it behind.
MakerPast == maker # None => pc[maker] \in PastMkdir \cup {"done"}

SafeInv ==
    /\ TypeOK
    /\ SurvivorsLive
    /\ LiveMakerAlone
    /\ MakerPast
    /\ EveryoneLives => LockInv

\* When some call is dead, one at most is left.
LEMMA OneLeft ==
    ASSUME OneSurvives, TypeOK, SurvivorsLive, ~EveryoneLives,
           NEW a \in Actor, NEW b \in Actor, Live(a), Live(b)
    PROVE  a = b
<1>1. PICK d \in Actor : PidOf[d] \notin alive
  BY DEF EveryoneLives
<1>2. PidOf[d] \in MayDie
  BY <1>1 DEF SurvivorsLive
<1> QED
  BY <1>1, <1>2 DEF OneSurvives, Live

\* Processes only die.
LEMMA OnlyDie ==
    ASSUME [Next]_vars
    PROVE  /\ alive' = alive \/ \E p \in MayDie : alive' = alive \ {p}
           /\ alive' # alive => UNCHANGED <<callVars, beatVars, dirVars>>
BY DEF Next, Acquiring, Mkdir, MkdirExists, OpenOwner, RenameOwner, JudgeOwner,
   OwnerMissing, JudgeMtime, Quarantine, Retry, Releasing, BeginRelease,
   ReleaseRead, RemoveEntries, RemoveDir, Protecting, ProtectOpen, ProtectRename,
   HeartbeatWrite, BeatOpen, BeatRename, GiveUp, Beat, Protect, Die, Age, vars

\* A call goes to its next place; only the maker of the directory is past mkdir.
Turned(a, to) ==
    /\ Live(a) /\ pc[a] # "done" /\ pc' = [pc EXCEPT ![a] = to]
    /\ \/ /\ maker' = maker
          /\ pc[a] \in PastMkdir => to \in PastMkdir \cup {"done"}
          /\ to \in PastMkdir => pc[a] \in PastMkdir
       \/ maker' = a /\ pc[a] = "mkdir" /\ to = "open"
       \/ maker' = None /\ pc[a] = "quarantine" /\ to = "mkdir"
       \/ maker' = None /\ pc[a] = "rmdir" /\ to = "done"

\* The steps of the calls are of that kind, but those that leave the call where it is.
LEMMA Turn ==
    ASSUME [Next]_vars
    PROVE  UNCHANGED <<pc, maker>> \/ \E a \in Actor, to \in PCs : Turned(a, to)
<1> USE DEF Turned, At, Goto, Dir, PCs, PastMkdir
<1>1. ASSUME NEW a \in Actor, Acquiring(a) PROVE \E to \in PCs : Turned(a, to)
  <2>1. CASE Mkdir(a)
    BY <2>1 DEF Mkdir
  <2>2. CASE MkdirExists(a)
    BY <2>2 DEF MkdirExists, dirVars
  <2>3. CASE OpenOwner(a)
    BY <2>3 DEF OpenOwner, AddTmp, dirVars
  <2>4. CASE RenameOwner(a)
    BY <2>4 DEF RenameOwner, PutOwner, dirVars
  <2>5. CASE JudgeOwner(a) \/ OwnerMissing(a) \/ JudgeMtime(a)
    BY <2>5 DEF JudgeOwner, OwnerMissing, JudgeMtime, dirVars
  <2>6. CASE Quarantine(a)
    BY <2>6 DEF Quarantine, dirVars
  <2>7. CASE Retry(a)
    BY <2>7 DEF Retry, dirVars
  <2> QED
    BY <1>1, <2>1, <2>2, <2>3, <2>4, <2>5, <2>6, <2>7 DEF Acquiring
<1>2. ASSUME NEW a \in Actor, Releasing(a) PROVE \E to \in PCs : Turned(a, to)
  <2>1. CASE BeginRelease(a) \/ ReleaseRead(a) \/ RemoveEntries(a)
    BY <2>1 DEF BeginRelease, ReleaseRead, RemoveEntries, dirVars
  <2>2. CASE RemoveDir(a)
    BY <2>2 DEF RemoveDir, dirVars
  <2> QED
    BY <1>2, <2>1, <2>2 DEF Releasing
<1>3. ASSUME NEW a \in Actor, Protecting(a) \/ GiveUp(a) \/ \E c \in Child : Protect(a, c)
      PROVE  \E to \in PCs : Turned(a, to)
  <2>1. CASE ProtectOpen(a)
    BY <2>1 DEF ProtectOpen, AddTmp, dirVars
  <2>2. CASE ProtectRename(a)
    BY <2>2 DEF ProtectRename, PutOwner, dirVars
  <2>3. CASE GiveUp(a) \/ \E c \in Child : Protect(a, c)
    BY <2>3 DEF GiveUp, Protect, dirVars
  <2> QED
    BY <1>3, <2>1, <2>2, <2>3 DEF Protecting
<1>4. ASSUME \/ \E a \in Actor : HeartbeatWrite(a) \/ Beat(a)
             \/ \E p \in Pid : Die(p)
             \/ Age
             \/ UNCHANGED vars
      PROVE  UNCHANGED <<pc, maker>>
  BY <1>4 DEF HeartbeatWrite, BeatOpen, BeatRename, AddTmp, PutOwner, Beat, Die, Age,
     vars, callVars, dirVars
<1> QED
  BY ONLY [Next]_vars, <1>1, <1>2, <1>3, <1>4 DEF Next

\* At the start every call lives and there is no directory.
LEMMA SafeInit == Init => SafeInv
BY LockInvInit DEF Init, SafeInv, TypeOK, DirTypeOK, PCs, PastMkdir, SurvivorsLive,
   LiveMakerAlone, MakerPast

\* Every step keeps the invariant, whoever takes it and whoever dies.
LEMMA SafeStep ==
    ASSUME OneSurvives, Timely, SafeInv, [Next]_vars, TypeOK'
    PROVE  SafeInv'
<1>1. /\ alive' = alive \/ \E p \in MayDie : alive' = alive \ {p}
      /\ alive' # alive => UNCHANGED <<pc, maker>>
  BY OnlyDie DEF callVars, dirVars
<1>2. SurvivorsLive'
  BY <1>1 DEF SafeInv, SurvivorsLive
<1>3. EveryoneLives' => EveryoneLives /\ LockInv'
  <2>1. EveryoneLives' => EveryoneLives
    BY <1>1 DEF EveryoneLives
  <2> QED
    BY <2>1, LockInvStep DEF SafeInv
<1>4. MakerPast'
  <2>1. ASSUME NEW a \in Actor, NEW to \in PCs, Turned(a, to) PROVE MakerPast'
    BY <2>1 DEF SafeInv, TypeOK, DirTypeOK, MakerPast, Turned, PastMkdir
  <2>2. CASE UNCHANGED <<pc, maker>>
    BY <2>2 DEF SafeInv, MakerPast
  <2> QED
    BY <2>1, <2>2, Turn
<1>5. LiveMakerAlone'
  <2>1. CASE EveryoneLives'
    BY <1>3, <2>1 DEF LockInv, MakerAlone, LiveMakerAlone
  <2>2. CASE UNCHANGED <<pc, maker>>
    BY <1>1, <2>2 DEF SafeInv, LiveMakerAlone, Live
  <2>3. ASSUME ~EveryoneLives', NEW a \in Actor, NEW to \in PCs, Turned(a, to), UNCHANGED alive
        PROVE  LiveMakerAlone'
    <3>1. Live(a) /\ ~EveryoneLives
      BY <2>3 DEF Turned, EveryoneLives
    <3>2. \A b \in Actor : Live(b)' => b = a
      BY <2>3, <3>1, OneLeft DEF SafeInv, Live
    <3> QED
      BY <2>3, <3>1, <3>2 DEF SafeInv, TypeOK, LiveMakerAlone, Turned, PastMkdir
  <2> QED
    BY <1>1, <2>1, <2>2, <2>3, Turn
<1> QED
  BY <1>2, <1>3, <1>4, <1>5 DEF SafeInv

\* The invariant holds in every reachable state.
THEOREM SafeInvariant ==
    ASSUME OneSurvives, Timely
    PROVE  Spec => []SafeInv
<1>1. Init => SafeInv
  BY SafeInit
<1>2. SafeInv /\ [Next]_vars /\ TypeOK' => SafeInv'
  BY SafeStep
<1> QED
  BY <1>1, <1>2, TypeCorrect, PTL DEF Spec

\* Two calls of withFileLock are never in their critical sections together, for
\* any number of calls and processes and any delay of their heartbeats, wherever
\* the process that may die is killed.
THEOREM LockIsExclusive ==
    ASSUME OneSurvives, Timely
    PROVE  Spec => []MutualExclusion
<1>1. SafeInv => MutualExclusion
  BY DEF SafeInv, LiveMakerAlone, PastMkdir, MutualExclusion, Holding, InSection
<1> QED
  BY <1>1, SafeInvariant, PTL

\* Under the same assumptions a release touches no directory but its own.
THEOREM ReleaseIsConfined ==
    ASSUME OneSurvives, Timely
    PROVE  Spec => ReleaseSparesSuccessor
<1>1. SafeInv /\ [Next]_vars =>
        [\A a \in Actor : RemoveEntries(a) \/ RemoveDir(a) =>
            UNCHANGED <<maker, owner>> \/ maker = a]_vars
  BY DEF SafeInv, LiveMakerAlone, PastMkdir, RemoveEntries, RemoveDir, At
<1> QED
  BY <1>1, SafeInvariant, PTL DEF Spec, ReleaseSparesSuccessor

\* A waiter renames away only what a dead process or a call that is over left
\* behind, though a late heartbeat of the dead may have put its name there
\* (recoverStaleLock).
THEOREM ReclaimIsSafe ==
    ASSUME OneSurvives, Timely
    PROVE  Spec => ReclaimsOnlyAbandoned
<1>1. SafeInv /\ [Next]_vars =>
        [\A a \in Actor : Quarantine(a) /\ maker # None =>
            ~Live(maker) \/ pc[maker] = "done"]_vars
  <2> SUFFICES ASSUME SafeInv, NEW a \in Actor, Quarantine(a), maker # None
               PROVE  ~Live(maker)
    OBVIOUS
  <2>1. pc[a] = "quarantine" /\ Live(a)
    BY DEF Quarantine, At
  <2>2. ~EveryoneLives
    BY <2>1 DEF SafeInv, LockInv, NobodyReclaims
  <2>3. maker # a /\ maker \in Actor
    BY <2>1 DEF SafeInv, MakerPast, PastMkdir, TypeOK, DirTypeOK
  <2> QED
    BY <2>1, <2>2, <2>3, OneLeft DEF SafeInv
<1> QED
  BY <1>1, SafeInvariant, PTL DEF Spec, ReclaimsOnlyAbandoned

-----------------------------------------------------------------------------
(***************************************************************************)
(* FileLock implements Mutex: a step in which the set of holders does not  *)
(* change is a stutter; the rename of owner.json takes the lock, the end   *)
(* of the critical section, or the death of the process, lets it go.       *)
(***************************************************************************)
\* With at most one holder, TheHolder is that one.
LEMMA HolderUnique ==
    ASSUME MutualExclusion, NEW a \in Actor, Holding(a)
    PROVE  TheHolder = a
BY DEF MutualExclusion, TheHolder

\* The same, in the next state.
LEMMA HolderUniqueNext ==
    ASSUME MutualExclusion', NEW a \in Actor, Holding(a)'
    PROVE  TheHolder' = a
BY DEF MutualExclusion, TheHolder

\* A step that leaves the holders alone leaves TheHolder alone.
LEMMA HolderStutters ==
    ASSUME MutualExclusion, MutualExclusion',
           \A a \in Actor : Holding(a)' <=> Holding(a)
    PROVE  TheHolder' = TheHolder
<1>1. CASE \E a \in Actor : Holding(a)
  BY <1>1, HolderUnique, HolderUniqueNext
<1>2. CASE ~\E a \in Actor : Holding(a)
  BY <1>2 DEF TheHolder
<1> QED
  BY <1>1, <1>2

\* One step of FileLock, seen as a step of Mutex.
LEMMA MutexStep ==
    ASSUME SafeInv, MutualExclusion, MutualExclusion', [Next]_vars
    PROVE  [Abstract!Next]_TheHolder
<1>1. ASSUME NEW a \in Actor, RenameOwner(a), pc'[a] = "critical"
      PROVE  Abstract!Acquire(a)
  <2>1. \A b \in Actor : ~Holding(b)
    BY <1>1 DEF RenameOwner, At, SafeInv, LiveMakerAlone, PastMkdir, Holding, InSection
  <2>2. Holding(a)'
    BY <1>1 DEF RenameOwner, At, Live, Holding, InSection
  <2> QED
    BY <2>1, <2>2, HolderUniqueNext DEF Abstract!Acquire, TheHolder
<1>2. ASSUME NEW a \in Actor, BeginRelease(a) PROVE Abstract!LetGo(a)
  <2>1. Holding(a)
    BY <1>2 DEF BeginRelease, At, Holding, InSection
  <2>2. pc' = [pc EXCEPT ![a] = "relread"] /\ alive' = alive
    BY <1>2 DEF BeginRelease, Goto
  <2>3. \A b \in Actor : ~Holding(b)'
    BY <2>1, <2>2 DEF Holding, InSection, Live, MutualExclusion, SafeInv, TypeOK
  <2> QED
    BY <2>1, <2>3, HolderUnique DEF Abstract!LetGo, TheHolder
<1>3. ASSUME UNCHANGED alive,
             \A b \in Actor : pc'[b] \in InSection <=> pc[b] \in InSection
      PROVE  TheHolder' = TheHolder
  BY <1>3, HolderStutters DEF Holding, Live
<1>4. ASSUME NEW p \in Pid, Die(p) PROVE [Abstract!Next]_TheHolder
  <2>1. \A b \in Actor : Holding(b)' <=> Holding(b) /\ PidOf[b] # p
    BY <1>4 DEF Die, Holding, Live, callVars
  <2>2. ASSUME NEW a \in Actor, Holding(a), PidOf[a] = p PROVE Abstract!LetGo(a)
    <3>1. \A b \in Actor : ~Holding(b)'
      BY <2>1, <2>2 DEF MutualExclusion
    <3> QED
      BY <2>2, <3>1, HolderUnique DEF Abstract!LetGo, TheHolder
  <2>3. ASSUME \A a \in Actor : Holding(a) => PidOf[a] # p PROVE TheHolder' = TheHolder
    BY <2>1, <2>3, HolderStutters
  <2> QED
    BY <2>2, <2>3 DEF Abstract!Next
<1>5. ASSUME NEW a \in Actor,
             Acquiring(a), ~(RenameOwner(a) /\ pc'[a] = "critical")
      PROVE  \A b \in Actor : pc'[b] \in InSection <=> pc[b] \in InSection
  BY <1>5 DEF Acquiring, Mkdir, MkdirExists, OpenOwner, RenameOwner, JudgeOwner,
     OwnerMissing, JudgeMtime, Quarantine, Retry, Goto, At, InSection, SafeInv, TypeOK
<1>6. ASSUME NEW a \in Actor, Releasing(a), ~BeginRelease(a)
      PROVE  \A b \in Actor : pc'[b] \in InSection <=> pc[b] \in InSection
  BY <1>6 DEF Releasing, ReleaseRead, RemoveEntries, RemoveDir, Goto, At,
     InSection, SafeInv, TypeOK
<1>7. ASSUME NEW a \in Actor, Protecting(a) \/ GiveUp(a) \/ \E c \in Child : Protect(a, c)
      PROVE  \A b \in Actor : pc'[b] \in InSection <=> pc[b] \in InSection
  BY <1>7 DEF Protecting, ProtectOpen, ProtectRename, GiveUp, Protect, Goto, At,
     InSection, SafeInv, TypeOK
<1>8. ASSUME \/ \E a \in Actor : HeartbeatWrite(a) \/ Beat(a)
             \/ Age
             \/ UNCHANGED vars
      PROVE  UNCHANGED <<pc, alive>>
  BY <1>8 DEF HeartbeatWrite, BeatOpen, BeatRename, Beat, Age, vars, callVars
<1>9. (\E p \in Pid : Die(p)) \/ UNCHANGED alive
  BY DEF Next, Acquiring, Mkdir, MkdirExists, OpenOwner, RenameOwner, JudgeOwner,
     OwnerMissing, JudgeMtime, Quarantine, Retry, Releasing, BeginRelease,
     ReleaseRead, RemoveEntries, RemoveDir, Protecting, ProtectOpen, ProtectRename,
     HeartbeatWrite, BeatOpen, BeatRename, GiveUp, Beat, Protect, Age, vars
<1> QED
  BY <1>1, <1>2, <1>3, <1>4, <1>5, <1>6, <1>7, <1>8, <1>9
     DEF Next, Abstract!Next, Releasing

\* withFileLock implements the mutex its callers count on, under the
\* assumptions of LockIsExclusive.
THEOREM LockImplementsMutex ==
    ASSUME OneSurvives, Timely
    PROVE  Spec => ImplementsMutex
<1>1. Init => Abstract!Init
  BY DEF Init, Abstract!Init, TheHolder, Holding, InSection
<1> QED
  BY <1>1, MutexStep, SafeInvariant, LockIsExclusive, PTL
     DEF Spec, ImplementsMutex, Abstract!Spec

-----------------------------------------------------------------------------
(***************************************************************************)
(* What the record says.  As long as no heartbeat write came too late, the *)
(* owner record of a directory is its maker's, and that of a maker in its  *)
(* critical section names every child that protectPid returned for; so no  *)
(* waiter judges the lock of such a child stale, and whoever releases      *)
(* finds its own record and empties the directory for good.  A heartbeat   *)
(* in flight disturbs neither: its call holds the lock, hence made the     *)
(* directory the write goes to.                                            *)
(***************************************************************************)
\* protectPid has returned for a child that still runs.
ChildLives(a) == pc[a] = "critical" /\ prot[a] \cap alive # {}

Recorded ==
    /\ owner \in {None, maker}
    /\ \A a \in Actor : (Live(a) /\ pc[a] = "critical") \/ ChildLives(a) =>
          maker = a /\ owner = a /\ guarded = prot[a]

CallFileThere ==
    \A a \in Actor : Live(a) /\ pc[a] \in {"rename", "prename"} => <<a, "call">> \in tmps

NotJudged ==
    \A a, b \in Actor : Live(a) /\ ChildLives(b) =>
        pc[a] # "quarantine" /\ (pc[a] = "stat" => ~aged)

Emptied == maker # None /\ pc[maker] = "rmdir" => owner = None /\ tmps = {}

\* A lock that is there is being worked on, or its maker is dead. (One that a live process
\* left behind no waiter would ever reclaim: its record names a process that lives.)
NoLockOutlivesItsCall ==
    maker # None => ~Live(maker) \/ pc[maker] \in PastMkdir

RecordInv ==
    ~late => Recorded /\ CallFileThere /\ NotJudged /\ Emptied /\ NoLockOutlivesItsCall

\* At the start there is no lock.
LEMMA RecordInit == Init => RecordInv
BY DEF Init, RecordInv, Recorded, CallFileThere, NotJudged, Emptied,
       NoLockOutlivesItsCall, ChildLives

\* While a waiter is about to rename a lock away it is the only call left.
LEMMA LastOne ==
    ASSUME OneSurvives, SafeInv, NEW a \in Actor, Live(a), pc[a] = "quarantine",
           NEW b \in Actor, Live(b)
    PROVE  b = a
<1>1. ~EveryoneLives
  BY DEF SafeInv, LockInv, NobodyReclaims
<1> QED
  BY <1>1, OneLeft DEF SafeInv

\* Every step keeps it.
LEMMA RecordStep ==
    ASSUME OneSurvives, Timely, SafeInv, RecordInv, [Next]_vars
    PROVE  RecordInv'
<1> SUFFICES ASSUME ~late'
             PROVE  Recorded' /\ CallFileThere' /\ NotJudged' /\ Emptied' /\ NoLockOutlivesItsCall'
  BY DEF RecordInv
<1> DEFINE Inv == Recorded /\ CallFileThere /\ NotJudged /\ Emptied /\ NoLockOutlivesItsCall
<1>1. ~late
  BY DEF Next, Acquiring, Mkdir, MkdirExists, OpenOwner, RenameOwner, JudgeOwner,
     OwnerMissing, JudgeMtime, Quarantine, Retry, Releasing, BeginRelease,
     ReleaseRead, RemoveEntries, RemoveDir, Protecting, ProtectOpen, ProtectRename,
     HeartbeatWrite, BeatOpen, BeatRename, GiveUp, Beat, Protect, Die, Age, vars, beatVars
<1>2. Inv
  BY <1>1 DEF RecordInv
<1>3. /\ TypeOK /\ LiveMakerAlone /\ MakerPast
      /\ \A a, b \in Actor : Live(a) /\ Live(b) /\ pc[a] = "quarantine" => a = b
  BY LastOne DEF SafeInv
<1> USE DEF TypeOK, DirTypeOK, PCs, Files, PastMkdir, LiveMakerAlone, MakerPast, Goto, At, Live,
        Recorded, CallFileThere, NotJudged, Emptied, NoLockOutlivesItsCall, ChildLives
<1>4. ASSUME NEW a \in Actor, Mkdir(a) PROVE Inv'
  BY <1>2, <1>3, <1>4 DEF Mkdir, Dir, beatVars, dirVars
<1>5. ASSUME NEW a \in Actor, MkdirExists(a) PROVE Inv'
  BY <1>2, <1>3, <1>5 DEF MkdirExists, beatVars, dirVars
<1>6. ASSUME NEW a \in Actor, OpenOwner(a) PROVE Inv'
  BY <1>2, <1>3, <1>6 DEF OpenOwner, AddTmp, beatVars, dirVars
<1>7. ASSUME NEW a \in Actor, RenameOwner(a) PROVE Inv'
  BY <1>2, <1>3, <1>7 DEF RenameOwner, PutOwner, beatVars, dirVars
<1>8. ASSUME NEW a \in Actor, JudgeOwner(a) PROVE Inv'
  BY <1>2, <1>3, <1>8 DEF JudgeOwner, OwnerHasLivePid, beatVars, dirVars
<1>9. ASSUME NEW a \in Actor, OwnerMissing(a) PROVE Inv'
  BY <1>2, <1>3, <1>9 DEF OwnerMissing, beatVars, dirVars
<1>10. ASSUME NEW a \in Actor, JudgeMtime(a) PROVE Inv'
  BY <1>2, <1>3, <1>10 DEF JudgeMtime, beatVars, dirVars
<1>11. ASSUME NEW a \in Actor, Quarantine(a) PROVE Inv'
  BY <1>2, <1>3, <1>11 DEF Quarantine, Dir, beatVars, dirVars
<1>12. ASSUME NEW a \in Actor, Retry(a) PROVE Inv'
  BY <1>2, <1>3, <1>12 DEF Retry, beatVars, dirVars
<1>13. ASSUME NEW a \in Actor, BeginRelease(a) PROVE Inv'
  BY <1>2, <1>3, <1>13 DEF BeginRelease, beatVars, dirVars
<1>14. ASSUME NEW a \in Actor, ReleaseRead(a) PROVE Inv'
  BY <1>2, <1>3, <1>14 DEF ReleaseRead, beatVars, dirVars
<1>15. ASSUME NEW a \in Actor, RemoveEntries(a) PROVE Inv'
  BY <1>2, <1>3, <1>15 DEF RemoveEntries, beatVars, dirVars
<1>16. ASSUME NEW a \in Actor, RemoveDir(a) PROVE Inv'
  BY <1>2, <1>3, <1>16 DEF RemoveDir, Dir, beatVars, dirVars
<1>17. ASSUME NEW a \in Actor, ProtectOpen(a) PROVE Inv'
  BY <1>2, <1>3, <1>17 DEF ProtectOpen, AddTmp, beatVars, dirVars
<1>18. ASSUME NEW a \in Actor, ProtectRename(a) PROVE Inv'
  BY <1>2, <1>3, <1>18 DEF ProtectRename, PutOwner, beatVars, dirVars
<1>19. ASSUME NEW a \in Actor, BeatOpen(a) PROVE Inv'
  <2>1. CASE maker # None
    <3>1. /\ pc[a] \in InSection /\ maker = a
          /\ AddTmp(<<a, "beat">>) /\ UNCHANGED <<pc, prot, alive>>
      BY <1>3, <1>19, <2>1 DEF BeatOpen, Holding, InSection, callVars
    <3>2. Recorded' /\ CallFileThere'
      BY <1>2, <1>3, <3>1 DEF AddTmp
    <3>3. NotJudged'
      BY <1>2, <1>3, <3>1 DEF AddTmp
    <3>4. Emptied' /\ NoLockOutlivesItsCall'
      BY <1>2, <1>3, <3>1 DEF AddTmp, InSection
    <3> QED
      BY <3>2, <3>3, <3>4
  <2>2. CASE maker = None
    BY <1>2, <1>3, <1>19, <2>2 DEF BeatOpen, callVars, dirVars
  <2> QED
    BY <2>1, <2>2
<1>20. ASSUME NEW a \in Actor, BeatRename(a) PROVE Inv'
  <2>1. CASE <<a, "beat">> \in tmps
    <3>1. /\ pc[a] \in InSection /\ maker = a /\ (pc[a] = "critical" => hbProt[a] = prot[a])
          /\ PutOwner(a, <<a, "beat">>, hbProt[a]) /\ UNCHANGED <<pc, prot, alive>>
      BY <1>1, <1>2, <1>3, <1>20, <2>1 DEF BeatRename, Overtaken, Holding, InSection, callVars
    <3>2. Recorded'
      BY <1>2, <1>3, <3>1 DEF PutOwner
    <3>3. CallFileThere'
      BY <1>2, <1>3, <3>1 DEF PutOwner
    <3>4. NotJudged' /\ Emptied' /\ NoLockOutlivesItsCall'
      BY <1>2, <1>3, <3>1 DEF PutOwner, InSection
    <3> QED
      BY <3>2, <3>3, <3>4
  <2>2. CASE <<a, "beat">> \notin tmps
    BY <1>2, <1>3, <1>20, <2>2 DEF BeatRename, callVars, dirVars
  <2> QED
    BY <2>1, <2>2
<1>21. ASSUME NEW a \in Actor, GiveUp(a) PROVE Inv'
  BY <1>2, <1>3, <1>21 DEF GiveUp, beatVars, dirVars
<1>22. ASSUME NEW a \in Actor, Beat(a) PROVE Inv'
  BY <1>2, <1>3, <1>22 DEF Beat, callVars, beatVars, dirVars
<1>23. ASSUME NEW a \in Actor, NEW c \in Child, Protect(a, c) PROVE Inv'
  BY <1>2, <1>3, <1>23 DEF Protect, beatVars, dirVars
<1>24. ASSUME NEW p \in Pid, Die(p) PROVE Inv'
  BY <1>2, <1>3, <1>24 DEF Die, callVars, beatVars, dirVars
<1>25. ASSUME Age PROVE Inv'
  BY <1>2, <1>3, <1>25 DEF Age, Paused, callVars, beatVars
<1>26. CASE UNCHANGED vars
  BY <1>2, <1>26 DEF vars, callVars, beatVars, dirVars
<1> QED
  BY <1>4, <1>5, <1>6, <1>7, <1>8, <1>9, <1>10, <1>11, <1>12, <1>13, <1>14, <1>15, <1>16, <1>17, <1>18, <1>19, <1>20, <1>21, <1>22, <1>23, <1>24, <1>25, <1>26
     DEF Next, Acquiring, Releasing, Protecting, HeartbeatWrite

\* The invariant holds in every reachable state.
THEOREM RecordInvariant ==
    ASSUME OneSurvives, Timely
    PROVE  Spec => []RecordInv
<1>1. Init => RecordInv
  BY RecordInit
<1>2. SafeInv /\ RecordInv /\ [Next]_vars => RecordInv'
  BY RecordStep
<1> QED
  BY <1>1, <1>2, SafeInvariant, PTL DEF Spec

\* Under the assumptions of LockIsExclusive, and with heartbeats running, nobody else is
\* in its critical section while a child that protectPid returned for runs, though the
\* call that started it is dead; unless a heartbeat write came too late.
THEOREM ProtectedChildHoldsLock ==
    ASSUME OneSurvives, Timely
    PROVE  Spec => []ProtectedChildBlocksReclaim
<1>1. SafeInv /\ RecordInv => ProtectedChildBlocksReclaim
  BY DEF SafeInv, RecordInv, Recorded, ChildLives, LiveMakerAlone, ProtectedChildBlocksReclaim,
     Holding, InSection, PastMkdir
<1> QED
  BY <1>1, SafeInvariant, RecordInvariant, PTL

\* releaseIfOwned removes the directory (the error that its rm swallows does not occur),
\* and no live call leaves a lock behind, unless a heartbeat write came too late.
THEOREM ReleaseLeavesNothing ==
    ASSUME OneSurvives, Timely
    PROVE  Spec => [](~late => NoLockOutlivesItsCall)
<1>1. RecordInv => (~late => NoLockOutlivesItsCall)
  BY DEF RecordInv
<1> QED
  BY <1>1, RecordInvariant, PTL
=============================================================================
