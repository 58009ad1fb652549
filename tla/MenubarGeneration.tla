-------------------------- MODULE MenubarGeneration --------------------------
(***************************************************************************)
(* The generation transaction of the menu bar app                          *)
(* (core/codex-app/menubar/generation-transaction.ts) with its two callers *)
(* (installer.ts, rollback.ts).                                            *)
(*                                                                         *)
(* A generation is one file or directory per artifact.  An installation    *)
(* makes the staged artifact active and the active one the previous, a     *)
(* rollback exchanges active and previous; either is a sequence of renames *)
(* per artifact, with a journal entry before and after each.  What a       *)
(* killed or failed call leaves is undone by the next caller, or finished  *)
(* if the journal says that it was committed.                              *)
(***************************************************************************)
EXTENDS Naturals

CONSTANTS
    Pair,    \* the artifacts of a generation
    Rank,    \* the position of each in the plan
    MaxGen,  \* bound: installations
    StopAt,  \* the places at which a call may fail or be killed
    None

Gen == 1 .. MaxGen
Place == {"active", "backup", "staged", "temporary", "displaced"}
Mode == {"install", "rollback"}

ASSUME RankAssumption ==
    Rank \in [Pair -> Nat] /\ \A p, q \in Pair : Rank[p] = Rank[q] => p = q
ASSUME MaxGenAssumption == MaxGen \in Nat
ASSUME NoneAssumption == None \notin Gen

VARIABLES
    at,       \* the generation whose artifact is at each place of a pair
    journal,  \* the journal on disk is there
    mode,     \* its plan: purpose, and with it the mode of every pair
    phase,    \* "applying" (or prepared, applied, recovering) or "committed"
    step,     \* the rank of each pair's step in it
    before,   \* active and previous when it was written; of either the code
              \* keeps and reads only whether it was there
    pc,       \* where the call stands
    op,       \* a recovery's next rename to undo, of the pair it is at
    pair,     \* that pair, or the one whose leftovers a commit removes
    rank,     \* the step that recovery found there
    gens      \* generations staged so far

journalVars == <<journal, mode, phase, step, before>>
callVars == <<pc, op, pair, rank>>
vars == <<at, journalVars, callVars, gens>>

(***************************************************************************)
(* The five renames of a pair, in the order of an installation; a rollback *)
(* has the last three.  Rename k is intended at step 2k-1, done at 2k.     *)
(***************************************************************************)
Op == 1 .. 5
From == <<"backup", "staged", "active", "backup", "temporary">>
To   == <<"displaced", "backup", "temporary", "active", "backup">>

FirstOp(m) == IF m = "install" THEN 1 ELSE 3

NextOp(p) == IF step[p] = 0 THEN FirstOp(mode) ELSE step[p] \div 2 + 1

Was(p, l) == before[p][l] # None

\* A rename whose source was not there at the start is left out.
Applies(p, k) ==
    /\ k \in {3, 5} => Was(p, "active")
    /\ k = 1 => Was(p, "backup")

Present(p, l) == at[p][l] # None

Rename(p, from, to) ==
    at' = [at EXCEPT ![p] = [@ EXCEPT ![to] = at[p][from], ![from] = None]]

First(p, P) == p \in P /\ \A q \in P : Rank[p] <= Rank[q]
Last(p, P)  == p \in P /\ \A q \in P : Rank[q] <= Rank[p]
Below(p)    == {q \in Pair : Rank[q] < Rank[p]}
Above(p)    == {q \in Pair : Rank[q] > Rank[p]}

Empty == [l \in Place |-> None]
Generations(p) == [active |-> at[p]["active"], backup |-> at[p]["backup"]]

PCs == {"idle", "staged", "apply", "renamed", "applied", "undo", "undone",
        "tidy", "cleanup"}

TypeOK ==
    /\ at \in [Pair -> [Place -> Gen \cup {None}]]
    /\ journal \in BOOLEAN
    /\ mode \in Mode
    /\ phase \in {"applying", "committed"}
    /\ step \in [Pair -> 0 .. 10]
    /\ before \in [Pair -> [active : Gen \cup {None}, backup : Gen \cup {None}]]
    /\ pc \in PCs
    /\ op \in 0 .. 5
    /\ pair \in Pair \cup {None}
    /\ rank \in 0 .. 10
    /\ gens \in 0 .. MaxGen

Init ==
    /\ at = [p \in Pair |-> Empty]
    /\ journal = FALSE /\ mode = "install" /\ phase = "applying"
    /\ step = [p \in Pair |-> 0] /\ before = [p \in Pair |-> Generations(p)]
    /\ pc = "idle" /\ op = 0 /\ pair = None /\ rank = 0
    /\ gens = 0

NoCall == op' = 0 /\ pair' = None /\ rank' = 0

(***************************************************************************)
(* The callers                                                             *)
(***************************************************************************)
\* The installer found no journal, or recovered; it builds into the staging
\* places, over what an earlier one left there.
StageGeneration ==
    /\ pc = "idle" /\ ~journal
    /\ gens < MaxGen
    /\ gens' = gens + 1
    /\ at' = [p \in Pair |-> [at[p] EXCEPT !["staged"] = gens + 1]]
    /\ pc' = "staged"
    /\ UNCHANGED <<journalVars, op, pair, rank>>

PlanOf(m) ==
    /\ journal' = TRUE /\ mode' = m /\ phase' = "applying"
    /\ step' = [p \in Pair |-> 0]
    /\ before' = [p \in Pair |-> Generations(p)]
    /\ pc' = "apply"
    /\ UNCHANGED <<at, op, pair, rank, gens>>

BeginInstall ==
    /\ pc = "staged"
    /\ ~journal
    /\ PlanOf("install")

\* The candidate is verified as one generation.
BeginRollback ==
    /\ pc = "idle" /\ ~journal
    /\ \E g \in Gen : \A p \in Pair : at[p]["backup"] = g
    /\ PlanOf("rollback")

(***************************************************************************)
(* applyMenuBarGenerationTransaction                                       *)
(***************************************************************************)
Unfinished == {p \in Pair : step[p] # 10}

AtStep(p, s) == step' = [step EXCEPT ![p] = s]

\* The journal says what will be renamed before it is.
Intend(p, k) ==
    /\ AtStep(p, 2 * k - 1)
    /\ UNCHANGED <<at, pc>>

LeaveOut(p, k) ==
    /\ AtStep(p, 2 * k)
    /\ UNCHANGED <<at, pc>>

BeginRename(p) ==
    /\ pc = "apply"
    /\ First(p, Unfinished)
    /\ step[p] % 2 = 0
    /\ LET k == NextOp(p)
       IN IF Applies(p, k) THEN Intend(p, k) ELSE LeaveOut(p, k)
    /\ UNCHANGED <<journal, mode, phase, before, op, pair, rank, gens>>

DoRename(p) ==
    /\ pc = "apply"
    /\ First(p, Unfinished)
    /\ step[p] % 2 = 1
    /\ LET k == NextOp(p) IN Rename(p, From[k], To[k])
    /\ pc' = "renamed"
    /\ UNCHANGED <<journalVars, op, pair, rank, gens>>

RenameDone(p) ==
    /\ pc = "renamed"
    /\ First(p, Unfinished)
    /\ AtStep(p, step[p] + 1)
    /\ pc' = "apply"
    /\ UNCHANGED <<at, journal, mode, phase, before, op, pair, rank, gens>>

Applied ==
    /\ pc = "apply"
    /\ Unfinished = {}
    /\ pc' = "applied"
    /\ UNCHANGED <<at, journalVars, op, pair, rank, gens>>

(***************************************************************************)
(* commitMenuBarGenerationTransaction, cleanupCommittedJournal             *)
(***************************************************************************)
\* The caller has verified the active generation.
Commit ==
    /\ pc = "applied"
    /\ phase' = "committed"
    /\ pc' = "cleanup"
    /\ \E p \in Pair : First(p, Pair) /\ pair' = p
    /\ UNCHANGED <<at, journal, mode, step, before, op, rank, gens>>

\* A recovery that finds a committed journal finishes the clean-up.
ResumeCleanup ==
    /\ pc = "idle" /\ journal /\ phase = "committed"
    /\ pc' = "cleanup"
    /\ \E p \in Pair : First(p, Pair) /\ pair' = p
    /\ UNCHANGED <<at, journalVars, op, rank, gens>>

SpareButDisplaced == {"staged", "temporary"}   \* mutant: the displaced artifact stays

\* The paths of an installation are staged, temporary and displaced; a rollback
\* has the temporary one alone.
Spare == IF mode = "install" THEN {"staged", "temporary", "displaced"} ELSE {"temporary"}

Left(p) == {l \in Spare : Present(p, l)}

RemoveSpare(l) ==
    /\ pc \in {"cleanup", "tidy"}
    /\ l \in Left(pair)
    /\ at' = [at EXCEPT ![pair][l] = None]
    /\ UNCHANGED <<journalVars, callVars, gens>>

CleanNext ==
    /\ pc = "cleanup"
    /\ Left(pair) = {}
    /\ \E p \in Pair : First(p, Above(pair)) /\ pair' = p
    /\ UNCHANGED <<at, journalVars, pc, op, rank, gens>>

\* The journal goes last.
CleanDone ==
    /\ pc = "cleanup"
    /\ Left(pair) = {}
    /\ Above(pair) = {}
    /\ journal' = FALSE
    /\ pc' = "idle"
    /\ NoCall
    /\ UNCHANGED <<at, mode, phase, step, before, gens>>

(***************************************************************************)
(* recoverMenuBarGenerationTransaction                                     *)
(***************************************************************************)
RecoverPair(p) ==
    /\ pair' = p /\ op' = 5 /\ rank' = step[p]
    /\ pc' = "undo"

\* By the next caller, or by this one when apply failed or what it installed did
\* not verify.
StartRecovery ==
    /\ \/ pc = "idle" /\ journal
       \/ pc = "applied"
    /\ phase # "committed"
    /\ \E p \in Pair : Last(p, Pair) /\ RecoverPair(p)
    /\ UNCHANGED <<at, journalVars, gens>>

AnyStep(p, k) ==   \* mutant: the files alone tell what to undo
    /\ Applies(p, k)
    /\ k \in {1, 2} => mode = "install"
    /\ Present(p, To[k])
    /\ ~Present(p, From[k])

\* What the journal says may have been renamed, and the files say was.
ToUndo(p, k) ==
    /\ Applies(p, k)
    /\ k \in {1, 2} => mode = "install"
    /\ rank >= 2 * k - 1
    /\ Present(p, To[k])
    /\ ~Present(p, From[k])

NextUndo(k) ==
    /\ k \in 1 .. op /\ ToUndo(pair, k)
    /\ \A j \in 1 .. op : j > k => ~ToUndo(pair, j)

UndoRename(k) ==
    /\ pc = "undo"
    /\ NextUndo(k)
    /\ Rename(pair, To[k], From[k])
    /\ op' = k
    /\ pc' = "undone"
    /\ UNCHANGED <<journalVars, pair, rank, gens>>

IntentOfUndone(k) == 2 * k - 3   \* mutant: the intent of the rename before

UndoneStep(k) == IF k = FirstOp(mode) THEN 0 ELSE 2 * (k - 1)

UndoSaved ==
    /\ pc = "undone"
    /\ AtStep(pair, UndoneStep(op))
    /\ op' = op - 1
    /\ pc' = "undo"
    /\ UNCHANGED <<at, journal, mode, phase, before, pair, rank, gens>>

Verified(p) ==
    /\ Present(p, "active") <=> Was(p, "active")
    /\ Present(p, "backup") <=> Was(p, "backup")

NothingToUndo == pc = "undo" /\ \A k \in 1 .. op : ~ToUndo(pair, k)

PairRecovered ==
    /\ NothingToUndo
    /\ Verified(pair)
    /\ pc' = "tidy"
    /\ UNCHANGED <<at, journalVars, op, pair, rank, gens>>

RecoverNext ==
    /\ pc = "tidy"
    /\ Left(pair) = {}
    /\ \E p \in Pair : Last(p, Below(pair)) /\ RecoverPair(p)
    /\ UNCHANGED <<at, journalVars, gens>>

RecoveredOne ==   \* mutant: the journal goes after the first pair
    /\ pc = "tidy"
    /\ Left(pair) = {}
    /\ journal' = FALSE
    /\ pc' = "idle"
    /\ NoCall
    /\ UNCHANGED <<at, mode, phase, step, before, gens>>

RolledBack ==
    /\ pc = "tidy"
    /\ Left(pair) = {}
    /\ Below(pair) = {}
    /\ journal' = FALSE
    /\ pc' = "idle"
    /\ NoCall
    /\ UNCHANGED <<at, mode, phase, step, before, gens>>

\* The process is killed, or a call throws (terminal_uncertain; so does a pair
\* that is not Verified): the disk stays as it is, the journal at its last entry.
Stop ==
    /\ pc \in StopAt
    /\ pc' = "idle"
    /\ NoCall
    /\ UNCHANGED <<at, journalVars, gens>>

-----------------------------------------------------------------------------
Next ==
    \/ StageGeneration \/ BeginInstall \/ BeginRollback
    \/ Applied \/ Commit \/ ResumeCleanup \/ CleanNext \/ CleanDone
    \/ StartRecovery \/ UndoSaved \/ PairRecovered
    \/ RecoverNext \/ RolledBack \/ Stop
    \/ \E p \in Pair : BeginRename(p) \/ DoRename(p) \/ RenameDone(p)
    \/ \E l \in Place : RemoveSpare(l)
    \/ \E k \in Op : UndoRename(k)

Spec == Init /\ [][Next]_vars

-----------------------------------------------------------------------------
(***************************************************************************)
(* Properties                                                              *)
(***************************************************************************)
Settled == ~journal \/ phase = "committed"

\* A transaction shows its outcome when it is committed; until then, and if it
\* is undone, every artifact counts as it was.
Abstract == INSTANCE AtomicGenerations WITH
    Generation <- Gen,
    shown <- [p \in Pair |-> IF Settled THEN Generations(p) ELSE before[p]]

\* Whatever rename a call or its recovery is stopped at, active and previous
\* generation change as a whole, by a committed transaction; when an uncommitted
\* journal goes, every artifact is back where it was.
ImplementsAtomicGenerations == Abstract!Spec

\* A recovery never ends terminal_uncertain: what it could undo leaves the pair
\* as the journal says it was.
RecoverySucceeds == NothingToUndo => Verified(pair)

\* Without a journal no artifact is left at a place only the journal names.
NothingStranded ==
    ~journal => \A p \in Pair : ~Present(p, "temporary") /\ ~Present(p, "displaced")
=============================================================================
