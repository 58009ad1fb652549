------------------------------ MODULE AlignSwap ------------------------------
(***************************************************************************)
(* The directory swap of `sks align` (core/align/code-navigation-align.ts, *)
(* runLocked) and the recovery of a swap that was killed.                  *)
(*                                                                         *)
(* A run stages a new wiki, copies the canonical memory into it, moves     *)
(* every prior surface aside, moves the new wiki into place, and deletes   *)
(* what it moved aside.  A swap journal in the staging directory says how  *)
(* far it got.  Every run first recovers the staging directory it finds.   *)
(* Runs and the other writers of the surfaces exclude each other by        *)
(* withTriWikiStateLock, whose contract is Mutex; a killed run loses the   *)
(* lock to stale recovery.                                                 *)
(***************************************************************************)
EXTENDS Naturals

CONSTANTS
    Surface,      \* ALIGN_REPLACED_SURFACES
    Rank,         \* the position of each in that table
    Wiki,         \* .sneakoscope/wiki, one of them
    Record,       \* canonical memory records
    MaxRuns,      \* bound: align runs
    CrashAt,      \* the places at which a run may be killed
    FailAt,       \* which may fail: "promote" after its rename, "unpromote", "remove"
    Unrecorded,   \* surfaces whose move aside may throw after its rename
    RestoreFails, \* surfaces whose rename back may fail
    LateWriters,  \* others write between a killed run and the next one
    None

Gen == 0 .. MaxRuns
Content == [gen : Gen, canon : SUBSET Record]

ASSUME SurfaceAssumption == Wiki \in Surface /\ Rank \in [Surface -> Nat]
ASSUME RunsAssumption == MaxRuns \in Nat
ASSUME FailAssumption == Unrecorded \cup RestoreFails \subseteq Surface
ASSUME NoneAssumption == None \notin Content /\ None # "align"

VARIABLES
    active,     \* the surfaces in the workspace
    staged,     \* the staging directory exists
    stageWiki,  \* the new wiki in it
    prior,      \* the prior surfaces moved into it
    journal,    \* swap-journal.json: its phase, or "none"
    pc,         \* where the run stands
    todo,       \* surfaces still to move aside
    moved,      \* movedPrior of the run
    promoted,   \* the run has moved the new wiki into place
    lock,       \* holder of the TriWiki state lock
    runs,       \* runs started
    records     \* records whose writer has been told that they are stored

diskVars == <<active, staged, stageWiki, prior, journal>>
memVars  == <<todo, moved, promoted>>
vars == <<diskVars, pc, memVars, lock, runs, records>>

StateLock == INSTANCE Mutex WITH Actor <- {"align"}, holder <- lock

RollbackPCs == {"unpromote", "restore"}
SwapPCs == {"stage", "journal", "move", "promote", "journal3", "project"}
PCs == {"idle", "recover", "compile", "remove"} \cup SwapPCs \cup RollbackPCs

Absent == [s \in Surface |-> None]

\* A staging directory that is not there has nothing in it.
TypeOK ==
    /\ active \in [Surface -> Content \cup {None}]
    /\ staged \in BOOLEAN
    /\ stageWiki \in Content \cup {None}
    /\ prior \in [Surface -> Content \cup {None}]
    /\ journal \in {"none", "prepared", "prior_moved", "promoted"}
    /\ pc \in PCs
    /\ todo \in SUBSET Surface
    /\ moved \in SUBSET Surface
    /\ promoted \in BOOLEAN
    /\ lock \in {"align", None}
    /\ runs \in Gen
    /\ records \in SUBSET Record
    /\ ~staged => stageWiki = None /\ prior = Absent /\ journal = "none"

\* A workspace that was never aligned, or one that an earlier SKS aligned.
Init ==
    /\ \E s \in SUBSET Surface :
        active = [x \in Surface |-> IF x \in s THEN [gen |-> 0, canon |-> {}] ELSE None]
    /\ staged = FALSE /\ stageWiki = None /\ prior = Absent /\ journal = "none"
    /\ pc = "idle" /\ todo = {} /\ moved = {} /\ promoted = FALSE
    /\ lock = None /\ runs = 0 /\ records = {}

\* The surfaces are gone through in the order of the table, or backwards.
First(s, S) == s \in S /\ \A x \in S : Rank[s] <= Rank[x]
Last(s, S)  == s \in S /\ \A x \in S : Rank[x] <= Rank[s]

Present(f) == {s \in Surface : f[s] # None}

CanonOf(c) == IF c = None THEN {} ELSE c.canon

(***************************************************************************)
(* Recovery of the staging directory of an earlier run                     *)
(***************************************************************************)
StartAlign ==
    /\ pc = "idle"
    /\ runs < MaxRuns
    /\ StateLock!Acquire("align")
    /\ runs' = runs + 1
    /\ pc' = "recover"
    /\ UNCHANGED <<diskVars, memVars, records>>

RecoverNever(s) ==   \* mutant: what was moved aside is dropped
    active' = active

\* The journal must show that the swap had begun; a live surface wins.
RestoreOrDrop(s) ==
    active' = IF active[s] = None /\ journal = "prior_moved"
              THEN [active EXCEPT ![s] = prior[s]] ELSE active

RecoverSurface(s) ==
    /\ pc = "recover"
    /\ First(s, Present(prior))
    /\ RestoreOrDrop(s)
    /\ prior' = [prior EXCEPT ![s] = None]
    /\ UNCHANGED <<staged, stageWiki, journal, pc, memVars, lock, runs, records>>

DirectoryOnly ==   \* mutant: the directory is unlinked, its entries are not
    staged' = FALSE /\ UNCHANGED <<stageWiki, prior, journal>>

NoStaging ==
    staged' = FALSE /\ stageWiki' = None /\ prior' = Absent /\ journal' = "none"

RecoverDone ==
    /\ pc = "recover"
    /\ Present(prior) = {}
    /\ NoStaging
    /\ pc' = "compile"
    /\ UNCHANGED <<active, memVars, lock, runs, records>>

(***************************************************************************)
(* The swap                                                                *)
(***************************************************************************)
\* Scan and compile; then the staging directory is made.
Compile ==
    /\ pc = "compile"
    /\ staged' = TRUE
    /\ pc' = "stage"
    /\ UNCHANGED <<active, stageWiki, prior, journal, memVars, lock, runs, records>>

\* Index, packs and the canonical memory of the active wiki, byte for byte.
StageWiki ==
    /\ pc = "stage"
    /\ stageWiki' = [gen |-> runs, canon |-> CanonOf(active[Wiki])]
    /\ pc' = "journal"
    /\ UNCHANGED <<active, staged, prior, journal, memVars, lock, runs, records>>

JournalPrepared ==
    /\ pc = "journal"
    /\ todo' = Present(active)
    /\ journal' = "prepared"
    /\ pc' = "move"
    /\ UNCHANGED <<active, staged, stageWiki, prior, moved, promoted, lock, runs, records>>

RenameAside(s) ==
    /\ pc = "move"
    /\ First(s, todo)
    /\ prior' = [prior EXCEPT ![s] = active[s]]
    /\ active' = [active EXCEPT ![s] = None]

MovePrior(s) ==
    /\ RenameAside(s)
    /\ todo' = todo \ {s}
    /\ moved' = moved \cup {s}
    /\ UNCHANGED <<staged, stageWiki, journal, pc, promoted, lock, runs, records>>

\* guardedRename renames, then appends to the mutation ledger.  When that fails
\* it throws, and movedPrior does not have the surface that was moved.
MoveUnrecorded(s) ==
    /\ s \in Unrecorded
    /\ RenameAside(s)
    /\ pc' = "unpromote"
    /\ UNCHANGED <<staged, stageWiki, journal, memVars, lock, runs, records>>

JournalMoved ==
    /\ pc = "move"
    /\ todo = {}
    /\ journal' = "prior_moved"
    /\ pc' = "promote"
    /\ UNCHANGED <<active, staged, stageWiki, prior, memVars, lock, runs, records>>

RenameNew ==
    /\ pc = "promote"
    /\ active' = [active EXCEPT ![Wiki] = stageWiki]
    /\ stageWiki' = None

Promote ==
    /\ RenameNew
    /\ promoted' = TRUE
    /\ pc' = "journal3"
    /\ UNCHANGED <<staged, prior, journal, todo, moved, lock, runs, records>>

\* As before: the new wiki is in place and the run does not know it.
PromoteUnrecorded ==
    /\ "promote" \in FailAt
    /\ RenameNew
    /\ pc' = "unpromote"
    /\ UNCHANGED <<staged, prior, journal, memVars, lock, runs, records>>

JournalPromoted ==
    /\ pc = "journal3"
    /\ journal' = "promoted"
    /\ pc' = "project"
    /\ UNCHANGED <<active, staged, stageWiki, prior, memVars, lock, runs, records>>

NoMemory == todo' = {} /\ moved' = {} /\ promoted' = FALSE

\* AGENTS.md blocks are projected, the source is found unchanged by the final
\* compare-and-swap: commitStarted.
Commit ==
    /\ pc = "project"
    /\ pc' = "remove"
    /\ NoMemory
    /\ UNCHANGED <<diskVars, lock, runs, records>>

(***************************************************************************)
(* Errors and the rollback                                                 *)
(***************************************************************************)
\* The run is over, killed or returned; the staging directory stays.
EndRun ==
    /\ StateLock!LetGo("align")
    /\ pc' = "idle"
    /\ NoMemory
    /\ UNCHANGED <<runs, records>>

\* Anything that throws before the try block ends the run as it is.
ThrowEarly == pc \in {"recover", "compile"} /\ EndRun /\ UNCHANGED diskVars

\* Anything that throws in the swap starts the rollback.
Throw ==
    /\ pc \in SwapPCs
    /\ pc' = "unpromote"
    /\ UNCHANGED <<diskVars, memVars, lock, runs, records>>

\* The new wiki goes back to the staging directory.  A failure is noted.
Unpromote ==
    /\ pc = "unpromote"
    /\ \/ /\ promoted
          /\ stageWiki' = active[Wiki]
          /\ active' = [active EXCEPT ![Wiki] = None]
       \/ /\ promoted => "unpromote" \in FailAt
          /\ UNCHANGED <<stageWiki, active>>
    /\ promoted' = FALSE
    /\ pc' = "restore"
    /\ UNCHANGED <<staged, prior, journal, todo, moved, lock, runs, records>>

\* rename onto a directory that is there fails: the surface stays in staging.
PutBack(s) ==
    IF active[s] = None
    THEN /\ active' = [active EXCEPT ![s] = prior[s]]
         /\ prior' = [prior EXCEPT ![s] = None]
    ELSE UNCHANGED <<active, prior>>

\* A failure of any other cause is noted too.
Restore(s) ==
    /\ pc = "restore"
    /\ Last(s, moved)
    /\ \/ PutBack(s)
       \/ s \in RestoreFails /\ UNCHANGED <<active, prior>>
    /\ moved' = moved \ {s}
    /\ UNCHANGED <<staged, stageWiki, journal, pc, todo, promoted, lock, runs, records>>

Restored ==
    /\ pc = "restore"
    /\ moved = {}
    /\ pc' = "remove"
    /\ NoMemory
    /\ UNCHANGED <<diskVars, lock, runs, records>>

(***************************************************************************)
(* The removal of the staging directory, after the commit or the rollback: *)
(* rm -r, one entry after the other                                        *)
(***************************************************************************)
RemoveEntry ==
    /\ pc = "remove"
    /\ \/ /\ journal # "none" /\ journal' = "none"
          /\ UNCHANGED <<stageWiki, prior>>
       \/ /\ stageWiki # None /\ stageWiki' = None
          /\ UNCHANGED <<journal, prior>>
       \/ \E s \in Present(prior) :
            /\ prior' = [prior EXCEPT ![s] = None]
            /\ UNCHANGED <<journal, stageWiki>>
    /\ UNCHANGED <<active, staged, pc, memVars, lock, runs, records>>

Finish ==
    /\ pc = "remove"
    /\ stageWiki = None /\ prior = Absent /\ journal = "none"
    /\ NoStaging
    /\ EndRun
    /\ UNCHANGED active

RemoveFails ==
    /\ pc = "remove" /\ "remove" \in FailAt
    /\ EndRun
    /\ UNCHANGED diskVars

Crash ==
    /\ pc \in CrashAt
    /\ EndRun
    /\ UNCHANGED diskVars

(***************************************************************************)
(* The other holders of the state lock                                     *)
(***************************************************************************)
\* compileContextGraph brings an absent surface (the wiki, a cache) into being;
\* what it puts there is no canonical memory.
CompileContextGraph(s) ==
    /\ lock = None
    /\ staged => LateWriters
    /\ active[s] = None
    /\ active' = [active EXCEPT ![s] = [gen |-> 0, canon |-> {}]]
    /\ UNCHANGED <<staged, stageWiki, prior, journal, pc, memVars, lock, runs, records>>

\* An absent wiki is brought into being.
WithRecord(c, r) ==
    [gen |-> IF c = None THEN 0 ELSE c.gen, canon |-> CanonOf(c) \cup {r}]

AddRecord(r) ==
    /\ active' = [active EXCEPT ![Wiki] = WithRecord(active[Wiki], r)]
    /\ records' = records \cup {r}
    /\ UNCHANGED <<staged, stageWiki, prior, journal, pc, memVars, lock, runs>>

WriteUnlocked(r) ==   \* mutant: the writer does not take the state lock
    r \notin records /\ AddRecord(r)

\* publishSharedMemory and promoteJevMemoryIntake, a whole critical section.
WriteRecord(r) ==
    /\ r \notin records
    /\ lock = None
    /\ staged => LateWriters
    /\ AddRecord(r)

-----------------------------------------------------------------------------
Next ==
    \/ StartAlign \/ RecoverDone \/ Compile \/ StageWiki \/ JournalPrepared
    \/ JournalMoved \/ Promote \/ PromoteUnrecorded \/ JournalPromoted \/ Commit
    \/ ThrowEarly \/ Throw \/ Unpromote \/ Restored
    \/ RemoveEntry \/ Finish \/ RemoveFails \/ Crash
    \/ \E s \in Surface :
        \/ RecoverSurface(s) \/ MovePrior(s) \/ MoveUnrecorded(s)
        \/ Restore(s) \/ CompileContextGraph(s)
    \/ \E r \in Record : WriteRecord(r)

Spec == Init /\ [][Next]_vars

-----------------------------------------------------------------------------
(***************************************************************************)
(* Properties                                                              *)
(***************************************************************************)
\* The surfaces once everything that is under way has been undone or, after
\* the commit or by recovery, done.
Undone(s) ==
    IF s \in moved THEN prior[s]
    ELSE IF promoted /\ s = Wiki THEN None
    ELSE active[s]

Recovered(s) ==
    IF prior[s] # None /\ active[s] = None /\ journal = "prior_moved"
    THEN prior[s] ELSE active[s]

Settled(s) ==
    CASE pc \in {"idle", "recover", "compile"} -> Recovered(s)
      [] pc \in SwapPCs \cup RollbackPCs -> Undone(s)
      [] pc = "remove" -> active[s]

\* Canonical memory records that were stored are in the active wiki whenever no
\* staging directory is left, whatever runs failed or were killed before.  The
\* wiki's own rename aside must be recorded and its rename back succeed
\* (Wiki \notin Unrecorded \cup RestoreFails): else the code deletes the memory.
CanonicalSurvives ==
    pc = "idle" /\ ~staged => records \subseteq CanonOf(active[Wiki])

\* Runs that fail, roll back or are killed are invisible: the surfaces change
\* only all at once, by a committed run, and by the other holders of the lock.
\* The renames of the swap must be recorded and those of the rollback succeed,
\* or the code leaves surfaces missing or promoted.
Abstract == INSTANCE SurfaceSwap WITH seen <- [s \in Surface |-> Settled(s)]

ImplementsSurfaceSwap == Abstract!Spec
=============================================================================
