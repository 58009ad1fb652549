-------------------------- MODULE AlignSwapProofs --------------------------
(***************************************************************************)
(* Theorems about AlignSwap, for any surfaces, records and number of runs: *)
(*                                                                         *)
(*   AlignTypes           the type invariant, with nothing assumed;        *)
(*   CanonicalMemoryKept  no stored record is lost, when no run is killed  *)
(*                        while it moves surfaces aside or rolls back      *)
(*                        (SafeKills), the wiki's move aside reaches the   *)
(*                        mutation ledger and its rename back succeeds     *)
(*                        (WikiComesBack); every other call may fail;      *)
(*   AlignIsAtomic        the refinement of SurfaceSwap, when in addition  *)
(*                        no run is killed between the promotion and its   *)
(*                        journal entry, every rename of the swap is       *)
(*                        recorded and no rename of a rollback fails.      *)
(*                                                                         *)
(* No assumption of CanonicalMemoryKept can be dropped: the run            *)
(* align_crash_moving is the counterexample for the first, the README has  *)
(* the constants for the others.                                           *)
(***************************************************************************)
EXTENDS AlignSwap, TLAPS

USE SurfaceAssumption, RunsAssumption, FailAssumption, NoneAssumption

StagingMade == pc \in SwapPCs \cup RollbackPCs \cup {"remove"} => staged

\* A surface as an earlier version of SKS, or a compile, leaves it.
LEMMA EmptyIsContent == [gen |-> 0, canon |-> {}] \in Content
BY DEF Content, Gen

\* A wiki with one more record is a wiki, with that record.
LEMMA WithRecordIsWiki ==
    ASSUME TypeOK, NEW r \in Record
    PROVE  /\ WithRecord(active[Wiki], r) \in Content
           /\ CanonOf(WithRecord(active[Wiki], r)) = CanonOf(active[Wiki]) \cup {r}
<1>1. WithRecord(active[Wiki], r) \in Content
  BY DEF TypeOK, WithRecord, CanonOf, Content, Gen
<1> QED
  BY <1>1 DEF WithRecord, CanonOf

\* The variables keep their types and a staging directory that is not there is
\* empty, wherever runs are killed and whatever fails.
THEOREM AlignTypes == Spec => []TypeOK
<1> DEFINE Inv == TypeOK /\ StagingMade
<1> USE DEF TypeOK, StagingMade, PCs, SwapPCs, RollbackPCs, memVars, diskVars
<1>1. Init => Inv
  <2> SUFFICES ASSUME Init PROVE Inv
    OBVIOUS
  <2>2. active \in [Surface -> Content \cup {None}]
    BY EmptyIsContent DEF Init
  <2>3. prior \in [Surface -> Content \cup {None}]
    BY DEF Init, Absent
  <2>4. runs \in Gen
    BY DEF Init, Gen
  <2> QED
    BY <2>2, <2>3, <2>4 DEF Init
<1>2. Inv /\ [Next]_vars => Inv'
  <2> SUFFICES ASSUME Inv, [Next]_vars PROVE Inv'
    OBVIOUS
  <2>1. CASE StartAlign
    BY <2>1 DEF StartAlign, StateLock!Acquire, Gen
  <2>2. ASSUME NEW s \in Surface, RecoverSurface(s) PROVE Inv'
    BY <2>2 DEF RecoverSurface, RestoreOrDrop, First, Present, Absent
  <2>3. CASE RecoverDone
    BY <2>3 DEF RecoverDone, NoStaging, Absent
  <2>4. CASE Compile
    BY <2>4 DEF Compile
  <2>5. CASE StageWiki
    <3>1. CanonOf(active[Wiki]) \subseteq Record
      BY DEF CanonOf, Content
    <3> QED
      BY <2>5, <3>1 DEF StageWiki, Content
  <2>6. CASE JournalPrepared
    BY <2>6 DEF JournalPrepared, Present
  <2>7. ASSUME NEW s \in Surface, MovePrior(s) \/ MoveUnrecorded(s) PROVE Inv'
    BY <2>7 DEF MovePrior, MoveUnrecorded, RenameAside
  <2>8. CASE JournalMoved \/ JournalPromoted \/ Commit \/ Restored \/ Throw
    BY <2>8 DEF JournalMoved, JournalPromoted, Commit, Restored, Throw, NoMemory
  <2>9. CASE Promote \/ PromoteUnrecorded
    BY <2>9 DEF Promote, PromoteUnrecorded, RenameNew
  <2>10. CASE Unpromote
    BY <2>10 DEF Unpromote
  <2>11. ASSUME NEW s \in Surface, Restore(s) PROVE Inv'
    BY <2>11 DEF Restore, PutBack
  <2>12. CASE ThrowEarly \/ RemoveFails \/ Crash
    BY <2>12 DEF ThrowEarly, RemoveFails, Crash, EndRun, StateLock!LetGo, NoMemory
  <2>13. CASE RemoveEntry
    BY <2>13 DEF RemoveEntry
  <2>14. CASE Finish
    BY <2>14 DEF Finish, EndRun, StateLock!LetGo, NoMemory, NoStaging, Absent
  <2>15. ASSUME NEW r \in Record, WriteRecord(r) PROVE Inv'
    BY <2>15, WithRecordIsWiki DEF WriteRecord, AddRecord
  <2>16. ASSUME NEW s \in Surface, CompileContextGraph(s) PROVE Inv'
    BY <2>16, EmptyIsContent DEF CompileContextGraph
  <2>17. CASE UNCHANGED vars
    BY <2>17 DEF vars
  <2> QED
    BY <2>1, <2>2, <2>3, <2>4, <2>5, <2>6, <2>7, <2>8, <2>9, <2>10, <2>11,
       <2>12, <2>13, <2>14, <2>15, <2>16, <2>17 DEF Next
<1> QED
  BY <1>1, <1>2, PTL DEF Spec

-----------------------------------------------------------------------------
(***************************************************************************)
(* What every state of a run has to do with the surfaces it began with.    *)
(***************************************************************************)
SafeKills ==
    /\ CrashAt \cap {"move", "unpromote", "restore"} = {}
    /\ "promote" \in CrashAt => ~LateWriters

\* The wiki's move aside is recorded and its rename back does not fail.  Those of
\* the other surfaces may, and so may every other call.
WikiComesBack == Wiki \notin Unrecorded \cup RestoreFails

LockHeld == lock = None <=> pc = "idle"

Quiet ==
    pc \in {"idle", "recover", "compile", "stage", "journal", "remove"} =>
        moved = {} /\ todo = {} /\ ~promoted

\* The wiki the run puts in place of the one it found.
NewWiki == [gen |-> runs, canon |-> CanonOf(Undone(Wiki))]

StagedWiki ==
    /\ pc \in {"journal", "move", "promote"} => stageWiki = NewWiki
    /\ promoted => active[Wiki] = NewWiki

MovedAside ==
    /\ pc \in {"move", "promote", "journal3", "project"} =>
        \A s \in Surface : s \in moved <=> prior[s] # None
    /\ pc = "unpromote" =>
        \A s \in Surface :
            /\ s \in moved => prior[s] # None
            /\ prior[s] # None => s \in moved \cup Unrecorded

Before == pc = "compile" => ~staged

BeforeMove == pc \in {"stage", "journal"} => prior = Absent /\ journal = "none"

Moving ==
    pc = "move" =>
        /\ journal = "prepared" /\ ~promoted /\ moved \cap todo = {}
        /\ \A s \in Surface : active[s] # None <=> s \in todo

AllMoved ==
    pc = "promote" =>
        journal = "prior_moved" /\ ~promoted /\ \A s \in Surface : active[s] = None

Promoted ==
    pc \in {"journal3", "project"} =>
        /\ promoted
        /\ journal = IF pc = "journal3" THEN "prior_moved" ELSE "promoted"
        /\ \A s \in Surface : s # Wiki => active[s] = None

\* A surface still to be put back is in the staging directory; only the wiki may
\* be in the workspace too, and then with the same records.
Unpromoting ==
    pc = "unpromote" =>
        \A s \in moved : active[s] # None => s = Wiki /\ CanonOf(active[s]) = CanonOf(prior[s])

\* What the rollback has gone through is in the workspace again, if its move aside
\* was recorded and its rename back does not fail.
PutBackOrNew == \A s \in Surface \ (moved \cup Unrecorded \cup RestoreFails) :
                    prior[s] # None => active[s] # None

Restoring ==
    pc = "restore" =>
        /\ ~promoted
        /\ \A s \in moved :
            /\ prior[s] # None
            /\ active[s] # None => s = Wiki /\ CanonOf(active[s]) = CanonOf(prior[s])
        /\ PutBackOrNew

\* A removal that is cut short leaves nothing that recovery would put back.
Removing ==
    pc = "remove" /\ journal = "prior_moved" => PutBackOrNew

\* A writer never finds the wiki absent because recovery has yet to restore it.
NoLateWriter ==
    pc \in {"idle", "recover", "compile"} /\ "promote" \notin CrashAt
        /\ journal = "prior_moved" /\ prior[Wiki] # None => active[Wiki] # None

SwapInv ==
    /\ TypeOK /\ StagingMade /\ LockHeld /\ Quiet /\ StagedWiki /\ MovedAside
    /\ Before /\ BeforeMove /\ Moving /\ AllMoved /\ Promoted /\ Unpromoting
    /\ Restoring /\ Removing /\ NoLateWriter

Kept == records \subseteq CanonOf(Settled(Wiki))

\* The new wiki is a wiki, with the records of the one that was found.
LEMMA NewWikiIsWiki ==
    ASSUME TypeOK
    PROVE  NewWiki # None /\ CanonOf(NewWiki) = CanonOf(Undone(Wiki))
<1>1. CanonOf(Undone(Wiki)) \subseteq Record
  BY DEF TypeOK, Undone, CanonOf, Content
<1>2. NewWiki \in Content
  BY <1>1 DEF NewWiki, TypeOK, Content
<1> QED
  BY <1>2 DEF NewWiki, CanonOf

\* The facts are inductive together with the type invariant.
LEMMA SwapInvInit == ASSUME Init, TypeOK PROVE SwapInv
BY DEF Init, SwapInv, TypeOK, StagingMade, LockHeld, Quiet, StagedWiki, MovedAside,
   Before, BeforeMove, Moving, AllMoved, Promoted, Unpromoting, Restoring,
   Removing, NoLateWriter, SwapPCs, RollbackPCs

\* Every step of a run, of its recovery and of the other lock holders keeps them.
LEMMA SwapInvStep ==
    ASSUME SafeKills, WikiComesBack, SwapInv, TypeOK', [Next]_vars
    PROVE  SwapInv'
<1> USE DEF SwapInv, StagingMade, LockHeld, Quiet, StagedWiki, MovedAside,
        Before, BeforeMove, Moving, AllMoved, Promoted, Unpromoting, Restoring,
        PutBackOrNew, Removing, NoLateWriter, NewWiki, Undone, SwapPCs, RollbackPCs, memVars,
        diskVars
<1>1. CASE StartAlign
  BY <1>1 DEF StartAlign, StateLock!Acquire, TypeOK
<1>2. ASSUME NEW s \in Surface, RecoverSurface(s) PROVE SwapInv'
  BY <1>2 DEF RecoverSurface, RestoreOrDrop, First, Present, TypeOK
<1>3. CASE RecoverDone
  BY <1>3 DEF RecoverDone, NoStaging, TypeOK
<1>4. CASE Compile
  BY <1>4 DEF Compile, TypeOK
<1>5. CASE StageWiki
  BY <1>5 DEF StageWiki, TypeOK
<1>6. CASE JournalPrepared
  BY <1>6 DEF JournalPrepared, Present, Absent, TypeOK
<1>7. ASSUME NEW s \in Surface, MovePrior(s) \/ MoveUnrecorded(s) PROVE SwapInv'
  <2>1. CASE MovePrior(s)
    BY <2>1 DEF MovePrior, RenameAside, First, TypeOK
  <2>2. CASE MoveUnrecorded(s)
    BY <2>2 DEF MoveUnrecorded, RenameAside, First, TypeOK
  <2> QED
    BY <1>7, <2>1, <2>2
<1>8. CASE JournalMoved
  BY <1>8 DEF JournalMoved, TypeOK
<1>9. CASE Promote \/ PromoteUnrecorded
  <2>1. CASE Promote
    BY <2>1 DEF Promote, RenameNew, TypeOK
  <2>2. CASE PromoteUnrecorded
    <3>1. CanonOf(stageWiki) = CanonOf(Undone(Wiki))
      BY <2>2, NewWikiIsWiki DEF PromoteUnrecorded, RenameNew
    <3> QED
      BY <2>2, <3>1 DEF PromoteUnrecorded, RenameNew, TypeOK
  <2> QED
    BY <1>9, <2>1, <2>2
<1>10. CASE JournalPromoted \/ Commit \/ Restored \/ Throw
  <2>1. CASE JournalPromoted
    BY <2>1 DEF JournalPromoted, TypeOK
  <2>2. CASE Commit
    BY <2>2 DEF Commit, NoMemory, TypeOK
  <2>3. CASE Restored
    BY <2>3 DEF Restored, NoMemory, TypeOK
  <2>4. CASE Throw
    <3>1. promoted /\ Wiki \in moved => CanonOf(active[Wiki]) = CanonOf(prior[Wiki])
      BY NewWikiIsWiki
    <3>2. Unpromoting'
      BY <2>4, <3>1 DEF Throw, Absent, TypeOK
    <3> QED
      BY <2>4, <3>2 DEF Throw, Absent, TypeOK
  <2> QED
    BY <1>10, <2>1, <2>2, <2>3, <2>4
<1>11. CASE Unpromote
  <2>1. pc = "unpromote" /\ pc' = "restore" /\ ~promoted' /\ UNCHANGED <<moved, prior>>
    BY <1>11 DEF Unpromote
  <2>2. \A s \in moved : s \in Surface /\ prior[s] # None
    BY <2>1 DEF TypeOK
  <2>3. \A s \in moved : active'[s] # None => s = Wiki /\ active'[s] = active[s]
    BY <1>11, <2>2 DEF Unpromote, TypeOK
  <2>4. \A s \in moved : active'[s] # None => CanonOf(active'[s]) = CanonOf(prior[s])
    BY <2>1, <2>3
  <2>5. PutBackOrNew'
    BY <2>1
  <2>6. Restoring'
    BY <2>1, <2>2, <2>3, <2>4, <2>5
  <2>7. StagingMade' /\ LockHeld' /\ Quiet' /\ StagedWiki' /\ MovedAside' /\ Before'
    BY <1>11 DEF Unpromote, TypeOK
  <2>8. BeforeMove' /\ Moving' /\ AllMoved' /\ Promoted' /\ Unpromoting' /\ Removing' /\ NoLateWriter'
    BY <1>11 DEF Unpromote, TypeOK
  <2> QED
    BY <2>6, <2>7, <2>8
<1>12. ASSUME NEW s \in Surface, Restore(s) PROVE SwapInv'
  <2> USE <1>12 DEF Restore, PutBack, Last, TypeOK
  <2>1. StagingMade' /\ LockHeld' /\ Quiet' /\ MovedAside' /\ Before' /\ BeforeMove'
    OBVIOUS
  <2>2. Moving' /\ AllMoved' /\ Promoted' /\ Unpromoting' /\ Removing' /\ NoLateWriter'
    OBVIOUS
  <2>3. Restoring'
    OBVIOUS
  <2>4. StagedWiki'
    OBVIOUS
  <2> QED
    BY <2>1, <2>2, <2>3, <2>4
<1>13. CASE ThrowEarly \/ RemoveFails \/ Crash
  <2>1. EndRun /\ UNCHANGED diskVars
    BY <1>13 DEF ThrowEarly, RemoveFails, Crash
  <2>2. pc \in CrashAt \cup {"recover", "compile", "remove"}
    BY <1>13 DEF ThrowEarly, RemoveFails, Crash
  <2>3. NoLateWriter'
    <3>1. promoted => active[Wiki] # None
      BY NewWikiIsWiki
    <3> QED
      BY <2>1, <2>2, <3>1 DEF EndRun, NoMemory, SafeKills, WikiComesBack, Absent, TypeOK, PCs
  <2> QED
    BY <2>1, <2>3 DEF EndRun, StateLock!LetGo, NoMemory, TypeOK
<1>14. CASE RemoveEntry
  <2> USE <1>14 DEF RemoveEntry, Present, TypeOK
  <2>1. StagingMade' /\ LockHeld' /\ Quiet' /\ MovedAside' /\ Before' /\ BeforeMove'
    OBVIOUS
  <2>2. Moving' /\ AllMoved' /\ Promoted' /\ Unpromoting' /\ NoLateWriter' /\ Restoring'
    OBVIOUS
  <2>3. Removing'
    OBVIOUS
  <2>4. StagedWiki'
    OBVIOUS
  <2> QED
    BY <2>1, <2>2, <2>3, <2>4
<1>15. CASE Finish
  BY <1>15 DEF Finish, EndRun, StateLock!LetGo, NoMemory, NoStaging, TypeOK
<1>16. ASSUME NEW r \in Record, WriteRecord(r) PROVE SwapInv'
  <2>1. pc = "idle" /\ ~promoted
    BY <1>16 DEF WriteRecord
  <2>2. active'[Wiki] # None
    BY <1>16, WithRecordIsWiki DEF WriteRecord, AddRecord, TypeOK
  <2> QED
    BY <1>16, <2>1, <2>2 DEF WriteRecord, AddRecord, TypeOK
<1>17. ASSUME NEW s \in Surface, CompileContextGraph(s) PROVE SwapInv'
  <2>1. pc = "idle" /\ ~promoted /\ active[s] = None /\ active'[s] # None
    BY <1>17, EmptyIsContent DEF CompileContextGraph, TypeOK
  <2> QED
    BY <1>17, <2>1 DEF CompileContextGraph, TypeOK
<1>18. CASE UNCHANGED vars
  BY <1>18 DEF vars
<1> QED
  BY <1>1, <1>2, <1>3, <1>4, <1>5, <1>6, <1>7, <1>8, <1>9, <1>10, <1>11,
     <1>12, <1>13, <1>14, <1>15, <1>16, <1>17, <1>18 DEF Next
-----------------------------------------------------------------------------
(***************************************************************************)
(* No record is lost: every step keeps what the run will settle to.        *)
(***************************************************************************)
\* Only a write changes the records of the settled wiki, and it adds its own.
LEMMA KeptStep ==
    ASSUME SafeKills, WikiComesBack, SwapInv, TypeOK', SwapInv',
           Kept, [Next]_vars
    PROVE  Kept'
<1> USE DEF SwapInv, Kept, Settled, Recovered, Undone, SwapPCs, RollbackPCs,
        memVars, diskVars
<1>1. CASE StartAlign
  BY <1>1 DEF StartAlign, Quiet
<1>2. ASSUME NEW s \in Surface, RecoverSurface(s) PROVE Kept'
  BY <1>2 DEF RecoverSurface, RestoreOrDrop, First, Present, TypeOK
<1>3. CASE RecoverDone
  BY <1>3 DEF RecoverDone, NoStaging, Present, Absent
<1>4. CASE Compile
  BY <1>4 DEF Compile, Before, TypeOK, Absent, Quiet
<1>5. CASE StageWiki
  BY <1>5 DEF StageWiki
<1>6. CASE JournalPrepared
  BY <1>6 DEF JournalPrepared
<1>7. ASSUME NEW s \in Surface, MovePrior(s) \/ MoveUnrecorded(s) PROVE Kept'
  BY <1>7 DEF MovePrior, MoveUnrecorded, RenameAside, First, TypeOK, Moving, WikiComesBack
<1>8. CASE JournalMoved \/ JournalPromoted \/ Throw
  BY <1>8 DEF JournalMoved, JournalPromoted, Throw
<1>9. CASE Promote \/ PromoteUnrecorded
  BY <1>9, NewWikiIsWiki DEF Promote, PromoteUnrecorded, RenameNew, AllMoved,
     StagedWiki, TypeOK
<1>10. CASE Commit
  BY <1>10, NewWikiIsWiki DEF Commit, Promoted, StagedWiki
<1>11. CASE Unpromote
  BY <1>11, NewWikiIsWiki DEF Unpromote, StagedWiki, Unpromoting, TypeOK
<1>12. ASSUME NEW s \in Surface, Restore(s) PROVE Kept'
  BY <1>12 DEF Restore, PutBack, Last, Restoring, WikiComesBack, TypeOK
<1>13. CASE Restored
  BY <1>13 DEF Restored, Restoring
<1>14. CASE ThrowEarly
  BY <1>14 DEF ThrowEarly, EndRun
<1>15. CASE RemoveFails
  BY <1>15 DEF RemoveFails, EndRun, Removing, PutBackOrNew, WikiComesBack, Quiet
<1>16. CASE Crash
  BY <1>16, NewWikiIsWiki DEF Crash, EndRun, SafeKills, Removing, PutBackOrNew,
     WikiComesBack, MovedAside, BeforeMove, AllMoved, Promoted, StagedWiki, Quiet, Absent, TypeOK, PCs
<1>17. CASE RemoveEntry
  BY <1>17 DEF RemoveEntry
<1>18. CASE Finish
  BY <1>18 DEF Finish, NoStaging, EndRun, Absent
<1>19. ASSUME NEW r \in Record, WriteRecord(r) PROVE Kept'
  <2>1. Recovered(Wiki) = active[Wiki]
    BY <1>19 DEF WriteRecord, NoLateWriter, SafeKills, TypeOK, Absent, LockHeld
  <2>2. Settled(Wiki)' = active'[Wiki]
    BY <1>19, WithRecordIsWiki DEF WriteRecord, AddRecord, TypeOK, LockHeld
  <2> QED
    BY <1>19, <2>1, <2>2, WithRecordIsWiki DEF WriteRecord, AddRecord, TypeOK, LockHeld
<1>20. ASSUME NEW s \in Surface, CompileContextGraph(s) PROVE Kept'
  <2>1. pc = "idle" /\ active[s] = None
    BY <1>20 DEF CompileContextGraph, LockHeld
  <2>2. CASE s # Wiki
    BY <1>20, <2>1, <2>2 DEF CompileContextGraph, TypeOK
  <2>3. CASE s = Wiki
    <3>1. Recovered(Wiki) = None
      BY <1>20, <2>1, <2>3 DEF CompileContextGraph, NoLateWriter, SafeKills, TypeOK, Absent
    <3>2. records = {}
      BY <2>1, <3>1 DEF CanonOf
    <3> QED
      BY <1>20, <3>2 DEF CompileContextGraph
  <2> QED
    BY <2>2, <2>3
<1>21. CASE UNCHANGED vars
  BY <1>21 DEF vars
<1> QED
  BY <1>1, <1>2, <1>3, <1>4, <1>5, <1>6, <1>7, <1>8, <1>9, <1>10, <1>11, <1>12,
     <1>13, <1>14, <1>15, <1>16, <1>17, <1>18, <1>19, <1>20, <1>21 DEF Next

\* The facts hold in every state, and so no stored record is lost.
THEOREM SwapInvariant ==
    ASSUME SafeKills, WikiComesBack
    PROVE  Spec => [](SwapInv /\ Kept)
<1>1. Init /\ TypeOK => SwapInv /\ Kept
  BY SwapInvInit DEF Init, Kept
<1>2. SwapInv /\ Kept /\ TypeOK' /\ [Next]_vars => (SwapInv /\ Kept)'
  BY SwapInvStep, KeptStep
<1> QED
  BY <1>1, <1>2, AlignTypes, PTL DEF Spec

\* Canonical memory survives every run of align that throws, rolls back or is
\* killed at one of the safe places, and the recovery after it.
THEOREM CanonicalMemoryKept ==
    ASSUME SafeKills, WikiComesBack
    PROVE  Spec => []CanonicalSurvives
<1>1. SwapInv /\ Kept => CanonicalSurvives
  BY DEF SwapInv, TypeOK, Kept, CanonicalSurvives, Settled, Recovered, Absent,
     SwapPCs, RollbackPCs
<1> QED
  BY <1>1, SwapInvariant, PTL

-----------------------------------------------------------------------------
(***************************************************************************)
(* Refinement: a run takes effect when it commits (or when it is killed    *)
(* after the journal says promoted), a write when it happens, and nothing  *)
(* else shows.                                                             *)
(***************************************************************************)
\* No run is killed between the promotion and its journal entry, every rename of
\* the swap is recorded, and no rename of a rollback fails.
CleanFaults ==
    /\ SafeKills
    /\ "journal3" \notin CrashAt
    /\ FailAt \cap {"promote", "unpromote"} = {}
    /\ Unrecorded \cup RestoreFails = {}

\* When no rename of a rollback fails, what is to be put back is not there; and
\* nobody finds a surface absent because recovery has yet to restore it.
PutBackClean ==
    /\ pc = "unpromote" => \A s \in moved : active[s] = None \/ (promoted /\ s = Wiki)
    /\ pc = "restore" => \A s \in moved : active[s] = None
    /\ pc \in {"idle", "recover", "compile"} /\ "promote" \notin CrashAt
        /\ journal = "prior_moved" =>
            \A s \in Surface : prior[s] # None => active[s] # None

\* This, too, is inductive.
LEMMA PutBackCleanStep ==
    ASSUME CleanFaults, SwapInv, PutBackClean, [Next]_vars
    PROVE  PutBackClean'
<1> USE DEF PutBackClean, SwapInv, diskVars, memVars
<1>1. CASE Unpromote
  BY <1>1 DEF Unpromote, CleanFaults, TypeOK
<1>2. ASSUME NEW s \in Surface, Restore(s) PROVE PutBackClean'
  BY <1>2 DEF Restore, PutBack, Last, TypeOK
<1>3. ASSUME NEW s \in Surface, RecoverSurface(s) PROVE PutBackClean'
  BY <1>3 DEF RecoverSurface, RestoreOrDrop, First, Present, TypeOK
<1>4. CASE ThrowEarly \/ RemoveFails \/ Crash
  <2>1. pc = "remove" /\ journal = "prior_moved" =>
            \A s \in Surface : prior[s] # None => active[s] # None
    BY DEF Removing, PutBackOrNew, Quiet, CleanFaults
  <2> QED
    BY <1>4, <2>1 DEF ThrowEarly, RemoveFails, Crash, EndRun, CleanFaults, SafeKills,
       BeforeMove, Promoted, TypeOK, PCs, SwapPCs, RollbackPCs
<1>5. CASE StartAlign \/ RecoverDone \/ Finish
  BY <1>5 DEF StartAlign, RecoverDone, Finish, EndRun, NoStaging
<1>6. CASE \/ Compile \/ StageWiki \/ JournalPrepared \/ JournalMoved \/ Promote
           \/ JournalPromoted \/ Commit \/ Restored \/ RemoveEntry
           \/ \E s \in Surface : MovePrior(s)
  BY <1>6 DEF Compile, StageWiki, JournalPrepared, JournalMoved, Promote, RenameNew,
     JournalPromoted, Commit, Restored, RemoveEntry, MovePrior, RenameAside
<1>10. CASE Throw
  BY <1>10 DEF Throw, Quiet, Moving, MovedAside, AllMoved, Promoted, SwapPCs, TypeOK
<1>11. CASE PromoteUnrecorded \/ \E s \in Surface : MoveUnrecorded(s)
  BY <1>11 DEF PromoteUnrecorded, MoveUnrecorded, CleanFaults
<1>7. ASSUME NEW r \in Record, WriteRecord(r) PROVE PutBackClean'
  BY <1>7, WithRecordIsWiki DEF WriteRecord, AddRecord, LockHeld, TypeOK
<1>8. ASSUME NEW s \in Surface, CompileContextGraph(s) PROVE PutBackClean'
  BY <1>8, EmptyIsContent DEF CompileContextGraph, LockHeld, TypeOK
<1>9. CASE UNCHANGED vars
  BY <1>9 DEF vars
<1> QED
  BY <1>1, <1>2, <1>3, <1>4, <1>5, <1>6, <1>7, <1>8, <1>9, <1>10, <1>11 DEF Next

\* The new surfaces in place of the old ones.
LEMMA CommitReplaces ==
    ASSUME SwapInv, pc = "project",
           \A s \in Surface : Settled(s)' = active[s]
    PROVE  Abstract!Replace(runs)
<1>1. Settled(Wiki)' = [gen |-> runs, canon |-> CanonOf(Settled(Wiki))]
  BY DEF SwapInv, Promoted, StagedWiki, NewWiki, Settled, SwapPCs
<1>2. \A s \in Surface : s # Wiki => Settled(s)' = None
  BY DEF SwapInv, Promoted
<1> QED
  BY <1>1, <1>2 DEF Abstract!Replace, Abstract!CanonOf, CanonOf

\* Every step of a run is a step of SurfaceSwap or leaves its surfaces alone.
LEMMA SwapStep ==
    ASSUME CleanFaults, SwapInv, PutBackClean, SwapInv', [Next]_vars
    PROVE  \/ \A s \in Surface : Settled(s)' = Settled(s)
           \/ Abstract!Replace(runs)
           \/ \E r \in Record : Abstract!Write(r)
           \/ \E s \in Surface : Abstract!Create(s)
<1> DEFINE Same == \A s \in Surface : Settled(s)' = Settled(s)
<1> USE DEF SwapInv, Settled, Recovered, Undone, SwapPCs, RollbackPCs, memVars, diskVars
<1>1. CASE StartAlign
  BY <1>1 DEF StartAlign
<1>2. ASSUME NEW s \in Surface, RecoverSurface(s) PROVE Same
  BY <1>2 DEF RecoverSurface, RestoreOrDrop, First, Present, TypeOK
<1>3. CASE RecoverDone
  BY <1>3 DEF RecoverDone, NoStaging, Present, Absent
<1>4. CASE Compile
  BY <1>4 DEF Compile, Before, TypeOK, Absent, Quiet
<1>5. CASE StageWiki \/ JournalPrepared
  BY <1>5 DEF StageWiki, JournalPrepared
<1>6. ASSUME NEW s \in Surface, MovePrior(s) \/ MoveUnrecorded(s) PROVE Same
  BY <1>6 DEF MovePrior, MoveUnrecorded, RenameAside, CleanFaults, First, TypeOK, Moving
<1>7. CASE JournalMoved \/ JournalPromoted \/ Throw
  BY <1>7 DEF JournalMoved, JournalPromoted, Throw
<1>8. CASE Promote \/ PromoteUnrecorded
  BY <1>8 DEF Promote, PromoteUnrecorded, RenameNew, CleanFaults, AllMoved, TypeOK
<1>9. CASE Commit
  <2>1. \A s \in Surface : Settled(s)' = active[s]
    BY <1>9 DEF Commit
  <2> QED
    BY <1>9, <2>1, CommitReplaces DEF Commit
<1>10. CASE Unpromote
  BY <1>10 DEF Unpromote, CleanFaults, TypeOK
<1>11. ASSUME NEW s \in Surface, Restore(s) PROVE Same
  BY <1>11 DEF Restore, PutBack, Last, Restoring, PutBackOrNew, PutBackClean, CleanFaults, TypeOK
<1>12. CASE Restored
  BY <1>12 DEF Restored, Restoring
<1>13. CASE ThrowEarly
  BY <1>13 DEF ThrowEarly, EndRun
<1>14. CASE RemoveFails
  BY <1>14 DEF RemoveFails, EndRun, Removing, PutBackOrNew, CleanFaults, Quiet
<1>15. CASE Crash
  <2>1. CASE pc = "project"
    <3>1. \A s \in Surface : Settled(s)' = active[s]
      BY <1>15, <2>1 DEF Crash, EndRun, Promoted
    <3> QED
      BY <2>1, <3>1, CommitReplaces
  <2>2. CASE pc # "project"
    BY <1>15, <2>2 DEF Crash, EndRun, CleanFaults, SafeKills, Removing, PutBackOrNew,
       MovedAside, BeforeMove, AllMoved, Quiet, Absent, TypeOK, PCs
  <2> QED
    BY <2>1, <2>2
<1>16. CASE RemoveEntry
  BY <1>16 DEF RemoveEntry
<1>17. CASE Finish
  BY <1>17 DEF Finish, NoStaging, EndRun, Absent
<1>18. ASSUME NEW r \in Record, WriteRecord(r) PROVE Abstract!Write(r)
  <2>1. pc = "idle" /\ Settled(Wiki) = active[Wiki]
    BY <1>18 DEF WriteRecord, NoLateWriter, CleanFaults, SafeKills, TypeOK, Absent, LockHeld
  <2>2. Settled(Wiki)' = WithRecord(Settled(Wiki), r)
    BY <1>18, <2>1, WithRecordIsWiki DEF WriteRecord, AddRecord, TypeOK
  <2>3. \A s \in Surface : s # Wiki => Settled(s)' = Settled(s)
    BY <1>18, <2>1 DEF WriteRecord, AddRecord, TypeOK
  <2> HIDE DEF Settled
  <2> QED
    BY <2>2, <2>3 DEF Abstract!Write, Abstract!WithRecord, Abstract!CanonOf,
       WithRecord, CanonOf
<1>19. ASSUME NEW s \in Surface, CompileContextGraph(s) PROVE Abstract!Create(s)
  <2>1. pc = "idle" /\ Settled(s) = None
    BY <1>19 DEF CompileContextGraph, PutBackClean, CleanFaults, SafeKills, TypeOK,
       Absent, LockHeld
  <2>2. Settled(s)' = [gen |-> 0, canon |-> {}]
    BY <1>19, <2>1, EmptyIsContent DEF CompileContextGraph, TypeOK
  <2>3. \A x \in Surface : x # s => Settled(x)' = Settled(x)
    BY <1>19, <2>1 DEF CompileContextGraph, TypeOK
  <2> HIDE DEF Settled
  <2> QED
    BY <2>1, <2>2, <2>3 DEF Abstract!Create
<1>20. CASE UNCHANGED vars
  BY <1>20 DEF vars
<1> QED
  BY <1>1, <1>2, <1>3, <1>4, <1>5, <1>6, <1>7, <1>8, <1>9, <1>10, <1>11, <1>12,
     <1>13, <1>14, <1>15, <1>16, <1>17, <1>18, <1>19, <1>20 DEF Next

\* Runs of align that throw and roll back, or are killed at a clean place, are
\* invisible to the writers; a committed one replaces all surfaces at once.
THEOREM AlignIsAtomic ==
    ASSUME CleanFaults
    PROVE  Spec => ImplementsSurfaceSwap
<1> DEFINE Seen == [s \in Surface |-> Settled(s)]
<1>1. Init => Abstract!Init
  <2> SUFFICES ASSUME Init PROVE Abstract!Init
    OBVIOUS
  <2>1. Seen = active
    BY DEF Init, Settled, Recovered, Absent, SwapPCs, RollbackPCs
  <2> QED
    BY <2>1 DEF Init, Abstract!Init
<1>2. Init => PutBackClean
  BY DEF Init, PutBackClean
<1>3. SwapInv /\ SwapInv' /\ PutBackClean /\ [Next]_vars => [Abstract!Next]_Seen
  <2> SUFFICES ASSUME SwapInv, SwapInv', PutBackClean, [Next]_vars
               PROVE  [Abstract!Next]_Seen
    OBVIOUS
  <2>1. (\A s \in Surface : Settled(s)' = Settled(s)) => Seen' = Seen
    OBVIOUS
  <2>2. runs \in Gen
    BY DEF SwapInv, TypeOK
  <2> QED
    BY <2>1, <2>2, SwapStep DEF Abstract!Next
<1>4. SwapInv /\ PutBackClean /\ [Next]_vars => PutBackClean'
  BY PutBackCleanStep
<1>5. SafeKills /\ WikiComesBack
  BY DEF CleanFaults, WikiComesBack
<1> QED
  BY <1>1, <1>2, <1>3, <1>4, <1>5, SwapInvariant, PTL
     DEF Spec, ImplementsSurfaceSwap, Abstract!Spec
=============================================================================
