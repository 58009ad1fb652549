----------------------- MODULE MenubarGenerationProofs -----------------------
(***************************************************************************)
(* Theorems about MenubarGeneration, for any set of artifacts and any      *)
(* number of installations: what recovery finds at every stop it can undo, *)
(* and transactions show all of their outcome or none of it.               *)
(***************************************************************************)
EXTENDS MenubarGeneration, TLAPS

(***************************************************************************)
(* The files of a pair after the first k renames of its plan               *)
(***************************************************************************)
AfterInstall(p, k) ==
    /\ at[p]["active"] = (IF k <= 2 THEN before[p].active ELSE IF k = 3 THEN None ELSE gens)
    /\ at[p]["backup"] = (CASE k = 0 -> before[p].backup
                            [] k \in {1, 4} -> None
                            [] k \in {2, 3} -> gens
                            [] k = 5 -> before[p].active)
    /\ at[p]["staged"] = (IF k <= 1 THEN gens ELSE None)
    /\ at[p]["temporary"] = (IF k \in {3, 4} THEN before[p].active ELSE None)
    /\ at[p]["displaced"] = (IF k = 0 THEN None ELSE before[p].backup)

AfterRollback(p, k) ==
    /\ at[p]["active"] = (IF k <= 2 THEN before[p].active
                          ELSE IF k = 3 THEN None ELSE before[p].backup)
    /\ at[p]["backup"] = (IF k <= 3 THEN before[p].backup
                          ELSE IF k = 4 THEN None ELSE before[p].active)
    /\ at[p]["temporary"] = (IF k \in {3, 4} THEN before[p].active ELSE None)
    /\ at[p]["displaced"] = None

After(p, k) == IF mode = "install" THEN AfterInstall(p, k) ELSE AfterRollback(p, k)

\* The journal is at most one entry behind or ahead.
Near(p, k) ==
    \/ step[p] \in {2 * k - 1, 2 * k, 2 * k + 1}
    \/ mode = "rollback" /\ k = 2 /\ step[p] = 0

\* As it was, and no step that recovery would undo once more.
Clean(p) ==
    /\ Generations(p) = before[p]
    /\ ~Present(p, "temporary") /\ ~Present(p, "displaced")
    /\ mode = "install" => step[p] <= (IF Was(p, "backup") THEN 1 ELSE 3)
    /\ mode = "rollback" => step[p] <= (IF Was(p, "active") THEN 5 ELSE 7)

Tracked(p) == Clean(p) \/ \E k \in 0 .. 5 : After(p, k) /\ Near(p, k)

Least == IF mode = "install" THEN 0 ELSE 2

Applying(p) ==
    \E k \in Least .. 5 :
        /\ After(p, k)
        /\ step[p] \in {2 * k, 2 * k + 1} \/ (k = Least /\ step[p] = 0)

Undoing(p) ==
    \/ op = 5 /\ rank = step[p] /\ Tracked(p)
    \/ /\ op <= 4 /\ op >= Least
       /\ rank >= 2 * op + 1
       /\ After(p, op)
       /\ step[p] = UndoneStep(op + 1)

(***************************************************************************)
(* The inductive invariant                                                 *)
(***************************************************************************)
PhaseInv ==
    /\ pc \in {"staged"} => ~journal
    /\ pc \in {"apply", "renamed", "applied", "undo", "undone", "tidy"} =>
        journal /\ phase = "applying"
    /\ pc = "cleanup" => journal /\ phase = "committed"
    /\ pc \in {"undo", "undone", "tidy", "cleanup"} => pair \in Pair
    /\ journal /\ mode = "install" => gens \in Gen
    /\ journal /\ mode = "rollback" => \A p \in Pair : Was(p, "backup")

StagedInv == pc = "staged" => gens \in Gen /\ \A p \in Pair : at[p]["staged"] = gens

ApplyInv ==
    /\ pc = "apply" => \A p \in Pair : Applying(p)
    /\ pc = "renamed" => \A p \in Pair :
        IF First(p, Unfinished)
        THEN /\ \E k \in Least + 1 .. 5 : step[p] = 2 * k - 1 /\ After(p, k)
        ELSE Applying(p)
    /\ pc = "applied" => \A p \in Pair : step[p] = 10 /\ After(p, 5)

StoppedInv ==
    pc = "idle" /\ journal /\ phase = "applying" => \A p \in Pair : Tracked(p)

UndoInv ==
    pc \in {"undo", "undone", "tidy"} =>
        /\ \A p \in Above(pair) : Clean(p)
        /\ \A p \in Pair : p # pair => Tracked(p)
        /\ pc = "undo" => Undoing(pair)
        /\ pc = "undone" => op \in Least + 1 .. 5 /\ rank >= 2 * op - 1 /\ After(pair, op - 1)
        /\ pc = "tidy" => Clean(pair)

CommitInv ==
    /\ journal /\ phase = "committed" => \A p \in Pair :
        /\ ~Present(p, "temporary")
        /\ mode = "rollback" => ~Present(p, "displaced")
    /\ pc = "cleanup" => \A p \in Below(pair) : ~Present(p, "displaced")

GenerationInv ==
    /\ TypeOK /\ NothingStranded /\ PhaseInv /\ StagedInv /\ ApplyInv
    /\ StoppedInv /\ UndoInv /\ CommitInv

USE RankAssumption, MaxGenAssumption, NoneAssumption

\* What the invariant says of a pair depends on its files and the journal alone.
LEMMA SameFiles ==
  ASSUME UNCHANGED <<at, before, mode, gens, step>>
  PROVE  \A q \in Pair : /\ (Clean(q))' = Clean(q) /\ (Tracked(q))' = Tracked(q)
                         /\ (Applying(q))' = Applying(q)
                         /\ \A k \in 0 .. 5 : (After(q, k))' = After(q, k)
  BY DEF Clean, Tracked, Applying, Least, After, AfterInstall, AfterRollback, Near, Generations, Present, Was

\* Every rename of a plan is between two places.
LEMMA OpPlaces == \A k \in Op : From[k] \in Place /\ To[k] \in Place
  BY DEF Op, From, To, Place

\* A rename leaves every place with a generation or nothing.
LEMMA RenameTypes ==
  ASSUME TypeOK, NEW p, NEW from \in Place, NEW to \in Place, Rename(p, from, to)
  PROVE  at' \in [Pair -> [Place -> Gen \cup {None}]]
<1>1. at \in [Pair -> [Place -> Gen \cup {None}]]
  BY DEF TypeOK
<1> DEFINE moved == [at[p] EXCEPT ![to] = at[p][from], ![from] = None]
<1>2. at' = [at EXCEPT ![p] = moved]
  BY Zenon DEF Rename
<1>3. p \in Pair => moved \in [Place -> Gen \cup {None}]
  BY <1>1
<1> HIDE DEF moved
<1> QED
  BY <1>1, <1>2, <1>3

\* The variables stay in their types, whatever the call does.
LEMMA TypesKept ==
  ASSUME TypeOK, pc = "undone" => op # 0, [Next]_vars
  PROVE  TypeOK'
<1>1. TypeOK /\ [Next]_vars
  OBVIOUS
<1> USE DEF TypeOK, Gen, Place, Mode, PCs, callVars, journalVars
<1>2. CASE StageGeneration
  BY <1>1, <1>2 DEF StageGeneration
<1>3. CASE BeginInstall
  BY <1>1, <1>3 DEF BeginInstall, PlanOf, Present, Generations
<1>4. CASE BeginRollback
  BY <1>1, <1>4 DEF BeginRollback, PlanOf, Present, Generations
<1>5. CASE Applied
  BY <1>1, <1>5 DEF Applied
<1>6. CASE Commit
  BY <1>1, <1>6 DEF Commit, First
<1>7. CASE ResumeCleanup
  BY <1>1, <1>7 DEF ResumeCleanup, First
<1>8. CASE CleanNext
  BY <1>1, <1>8 DEF CleanNext, First, Above
<1>9. CASE CleanDone
  <2>1. journal' \in BOOLEAN /\ pc' \in PCs
    BY <1>9 DEF CleanDone
  <2>2. op' \in 0 .. 5 /\ rank' \in 0 .. 10 /\ pair' \in Pair \cup {None}
    BY <1>9 DEF CleanDone, NoCall
  <2>3. UNCHANGED <<at, mode, phase, step, before, gens>>
    BY <1>9 DEF CleanDone
  <2> QED
    BY <1>1, <2>1, <2>2, <2>3
<1>10. CASE StartRecovery
  BY <1>1, <1>10 DEF StartRecovery, RecoverPair, Last
<1>11. CASE UndoSaved
  <2>1. op \in 1 .. 5
    BY <1>1, <1>11 DEF UndoSaved
  <2>2. UndoneStep(op) \in 0 .. 10
    BY <2>1 DEF UndoneStep, FirstOp
  <2>3. step' \in [Pair -> 0 .. 10]
    BY <1>1, <1>11, <2>2 DEF UndoSaved, AtStep
  <2>4. op' \in 0 .. 5 /\ pc' \in PCs
    BY <1>11, <2>1 DEF UndoSaved
  <2>5. UNCHANGED <<at, journal, mode, phase, before, pair, rank, gens>>
    BY <1>11 DEF UndoSaved
  <2> QED
    BY <1>1, <2>3, <2>4, <2>5
<1>12. CASE PairRecovered
  BY <1>1, <1>12 DEF PairRecovered
<1>13. CASE RecoverNext
  BY <1>1, <1>13 DEF RecoverNext, RecoverPair, Last, Below
<1>14. CASE RolledBack
  <2>1. journal' \in BOOLEAN /\ pc' \in PCs
    BY <1>14 DEF RolledBack
  <2>2. op' \in 0 .. 5 /\ rank' \in 0 .. 10 /\ pair' \in Pair \cup {None}
    BY <1>14 DEF RolledBack, NoCall
  <2>3. UNCHANGED <<at, mode, phase, step, before, gens>>
    BY <1>14 DEF RolledBack
  <2> QED
    BY <1>1, <2>1, <2>2, <2>3
<1>15. CASE Stop
  BY <1>1, <1>15 DEF Stop, NoCall
<1>16. ASSUME NEW p \in Pair, BeginRename(p) PROVE TypeOK'
  BY <1>1, <1>16 DEF BeginRename, Applies, Intend, LeaveOut, AtStep, NextOp, FirstOp, First, Unfinished
<1>17. ASSUME NEW p \in Pair, DoRename(p) PROVE TypeOK'
  <2>1. NextOp(p) \in Op
    BY <1>1, <1>17 DEF DoRename, NextOp, FirstOp, Op, Unfinished, First
  <2>2. From[NextOp(p)] \in Place /\ To[NextOp(p)] \in Place
    BY <2>1, OpPlaces
  <2>3. Rename(p, From[NextOp(p)], To[NextOp(p)])
    BY <1>17 DEF DoRename
  <2>4. at' \in [Pair -> [Place -> Gen \cup {None}]]
    BY ONLY <1>1, <2>2, <2>3, RenameTypes
  <2> QED
    BY <1>1, <1>17, <2>4 DEF DoRename
<1>18. ASSUME NEW p \in Pair, RenameDone(p) PROVE TypeOK'
  BY <1>1, <1>18 DEF RenameDone, AtStep, First, Unfinished
<1>19. ASSUME NEW l \in Place, RemoveSpare(l) PROVE TypeOK'
  BY <1>1, <1>19 DEF RemoveSpare
<1>20. ASSUME NEW k \in Op, UndoRename(k) PROVE TypeOK'
  <2>1. at' \in [Pair -> [Place -> Gen \cup {None}]]
    BY <1>1, <1>20, OpPlaces, RenameTypes DEF UndoRename
  <2> QED
    BY <1>1, <1>20, <2>1 DEF UndoRename, Op, NextUndo
<1>21. CASE UNCHANGED vars
  BY <1>1, <1>21 DEF vars
<1> QED
  BY <1>1, <1>2, <1>3, <1>4, <1>5, <1>6, <1>7, <1>8, <1>9, <1>10, <1>11, <1>12, <1>13, <1>14, <1>15, <1>16, <1>17, <1>18, <1>19, <1>20, <1>21 DEF Next


\* What recovery asks of the files, rename by rename.
LEMMA UndoCases ==
  ASSUME NEW p
  PROVE  /\ ToUndo(p, 1) <=> /\ Was(p, "backup") /\ mode = "install" /\ rank >= 1
                             /\ Present(p, "displaced") /\ ~Present(p, "backup")
         /\ ToUndo(p, 2) <=> /\ mode = "install" /\ rank >= 3
                             /\ Present(p, "backup") /\ ~Present(p, "staged")
         /\ ToUndo(p, 3) <=> /\ Was(p, "active") /\ rank >= 5
                             /\ Present(p, "temporary") /\ ~Present(p, "active")
         /\ ToUndo(p, 4) <=> /\ rank >= 7
                             /\ Present(p, "active") /\ ~Present(p, "backup")
         /\ ToUndo(p, 5) <=> /\ Was(p, "active") /\ rank >= 9
                             /\ Present(p, "backup") /\ ~Present(p, "temporary")
  BY DEF ToUndo, Applies, From, To

\* Pairs are at different positions of the plan.
LEMMA PlanOrder ==
  ASSUME NEW p \in Pair
  PROVE  \A q \in Pair : q = p \/ q \in Below(p) \/ q \in Above(p)
  BY RankAssumption DEF Below, Above

\* A pair that is being applied can be told from the journal.
LEMMA ApplyingTracked ==
  ASSUME TypeOK, NEW p \in Pair, Applying(p)
  PROVE  Tracked(p)
<1>1. PICK k \in Least .. 5 :
        After(p, k) /\ (step[p] \in {2 * k, 2 * k + 1} \/ (k = Least /\ step[p] = 0))
  BY DEF Applying
<1>2. k \in 0 .. 5
  BY <1>1 DEF Least
<1>3. Near(p, k)
  BY <1>1, <1>2 DEF Near, Least, TypeOK, Mode
<1> QED
  BY <1>1, <1>2, <1>3 DEF Tracked

\* What the journal's step says of the renames done and the next one.
LEMMA StepArithmetic ==
  ASSUME TypeOK, NEW p \in Pair, NEW k \in Least .. 5, step[p] # 10,
         step[p] \in {2 * k, 2 * k + 1} \/ (k = Least /\ step[p] = 0)
  PROVE  /\ k \in Least .. 4 /\ k \in 0 .. 4
         /\ NextOp(p) = k + 1
         /\ step[p] % 2 = 1 => step[p] = 2 * k + 1
<1>1. Least \in {0, 2} /\ (mode = "rollback" <=> Least = 2)
  BY DEF Least, TypeOK, Mode
<1>2. step[p] \in 0 .. 9
  BY DEF TypeOK
<1>3. k \in 0 .. 4 /\ k \in Least .. 4
  BY <1>1, <1>2
<1>4. step[p] % 2 = 1 => step[p] = 2 * k + 1
  BY <1>3
<1>5. CASE step[p] = 0
  BY <1>1, <1>3, <1>5 DEF NextOp, FirstOp, TypeOK, Mode
<1>6. CASE step[p] # 0
  BY <1>3, <1>6 DEF NextOp
<1> QED
  BY <1>3, <1>4, <1>5, <1>6

\* Of the renames still to undo, the last one the files show is the last one done.
LEMMA UndoFinds ==
  ASSUME TypeOK, pair \in Pair, Undoing(pair),
         mode = "install" => gens \in Gen, mode = "rollback" => Was(pair, "backup"),
         NEW k \in 1 .. op, ToUndo(pair, k),
         \A j \in 1 .. op : j > k => ~ToUndo(pair, j)
  PROVE  k \in Least + 1 .. 5 /\ rank >= 2 * k - 1 /\ After(pair, k)
<1> USE DEF TypeOK, Was, Present, Generations
<1>0. k \in Least + 1 .. 5 /\ rank >= 2 * k - 1
  BY DEF ToUndo, Least, Mode
<1>1. CASE Clean(pair) /\ op = 5 /\ rank = step[pair]
  BY <1>0, <1>1, UndoCases DEF Clean, Mode, Least
<1>2. ASSUME NEW i \in Least .. 5, After(pair, i), i <= op, rank >= 2 * i - 1,
             i < 5 => (i = op \/ rank <= 2 * i + 1)
      PROVE  After(pair, k)
  <2>1. CASE i = 0
    <3>1. CASE mode = "install"
      BY <1>0, <1>2, <2>1, <3>1, UndoCases, NoneAssumption DEF After, AfterInstall, Least
    <3>2. CASE mode = "rollback"
      BY <1>0, <1>2, <2>1, <3>2, UndoCases, NoneAssumption DEF After, AfterRollback, Least
    <3> QED
      BY <3>1, <3>2 DEF Mode
  <2>2. CASE i = 1
    <3>1. CASE mode = "install"
      BY <1>0, <1>2, <2>2, <3>1, UndoCases, NoneAssumption DEF After, AfterInstall, Least
    <3>2. CASE mode = "rollback"
      BY <1>0, <1>2, <2>2, <3>2, UndoCases, NoneAssumption DEF After, AfterRollback, Least
    <3> QED
      BY <3>1, <3>2 DEF Mode
  <2>3. CASE i = 2
    <3>1. CASE mode = "install"
      BY <1>0, <1>2, <2>3, <3>1, UndoCases, NoneAssumption DEF After, AfterInstall, Least
    <3>2. CASE mode = "rollback"
      BY <1>0, <1>2, <2>3, <3>2, UndoCases, NoneAssumption DEF After, AfterRollback, Least
    <3> QED
      BY <3>1, <3>2 DEF Mode
  <2>4. CASE i = 3
    <3>1. CASE mode = "install"
      BY <1>0, <1>2, <2>4, <3>1, UndoCases, NoneAssumption DEF After, AfterInstall, Least
    <3>2. CASE mode = "rollback"
      BY <1>0, <1>2, <2>4, <3>2, UndoCases, NoneAssumption DEF After, AfterRollback, Least
    <3> QED
      BY <3>1, <3>2 DEF Mode
  <2>5. CASE i = 4
    <3>1. CASE mode = "install"
      BY <1>0, <1>2, <2>5, <3>1, UndoCases, NoneAssumption DEF After, AfterInstall, Least
    <3>2. CASE mode = "rollback"
      BY <1>0, <1>2, <2>5, <3>2, UndoCases, NoneAssumption DEF After, AfterRollback, Least
    <3> QED
      BY <3>1, <3>2 DEF Mode
  <2>6. CASE i = 5
    <3>1. CASE mode = "install"
      BY <1>0, <1>2, <2>6, <3>1, UndoCases, NoneAssumption DEF After, AfterInstall, Least
    <3>2. CASE mode = "rollback"
      BY <1>0, <1>2, <2>6, <3>2, UndoCases, NoneAssumption DEF After, AfterRollback, Least
    <3> QED
      BY <3>1, <3>2 DEF Mode
  <2>7. i \in {0, 1, 2, 3, 4, 5}
    <3>1. Least = 0 \/ Least = 2
      BY DEF Least
    <3> HIDE DEF TypeOK, Was, Present, Generations
    <3> QED
      BY <1>2, <3>1
  <2> HIDE DEF TypeOK, Was, Present, Generations
  <2> QED
    BY <2>1, <2>2, <2>3, <2>4, <2>5, <2>6, <2>7
<1> QED
  BY <1>0, <1>1, <1>2 DEF Undoing, Tracked, Near, Least, Mode

\* When no rename is left to undo the pair is as it was.
LEMMA UndoneIsClean ==
  ASSUME GenerationInv, NothingToUndo
  PROVE  Clean(pair)
<1>0. TypeOK
  BY DEF GenerationInv
<1>1. pair \in Pair /\ Undoing(pair)
  BY ONLY NothingToUndo, GenerationInv DEF GenerationInv, PhaseInv, UndoInv, NothingToUndo
<1>2. CASE op = 5 /\ rank = step[pair] /\ Tracked(pair) /\ ~Clean(pair)
  <2>1. PICK k \in 0 .. 5 : After(pair, k) /\ Near(pair, k)
    BY ONLY <1>2 DEF Tracked
  <2>2. ~ToUndo(pair, 1) /\ ~ToUndo(pair, 2) /\ ~ToUndo(pair, 3) /\ ~ToUndo(pair, 4) /\ ~ToUndo(pair, 5)
    BY ONLY NothingToUndo, <1>2 DEF NothingToUndo
  <2>3. CASE mode = "install"
    <3>1. gens \in Gen
      BY ONLY NothingToUndo, <2>3, GenerationInv DEF GenerationInv, PhaseInv, NothingToUndo
    <3> QED
      BY ONLY <1>0, <1>1, <1>2, <2>1, <2>2, <2>3, <3>1, UndoCases, NoneAssumption DEF TypeOK, After, AfterInstall, Near, Clean, Was, Present, Generations
  <2>4. CASE mode = "rollback"
    <3>1. Was(pair, "backup")
      BY ONLY NothingToUndo, <1>1, <2>4, GenerationInv DEF GenerationInv, PhaseInv, NothingToUndo
    <3> QED
      BY ONLY <1>0, <1>1, <1>2, <2>1, <2>2, <2>4, <3>1, UndoCases DEF TypeOK, After, AfterRollback, Near, Clean, Was, Present, Generations
  <2> QED
    BY ONLY <1>0, <2>3, <2>4 DEF TypeOK, Mode
<1>3. CASE op <= 4 /\ op >= Least /\ rank >= 2 * op + 1 /\ After(pair, op) /\ step[pair] = UndoneStep(op + 1)
  <2>1. op \in 0 .. 4 /\ \A j \in 1 .. op : ~ToUndo(pair, j)
    BY ONLY <1>0, NothingToUndo, <1>3 DEF NothingToUndo, TypeOK
  <2>3. CASE mode = "install"
    <3>1. gens \in Gen
      BY ONLY NothingToUndo, <2>3, GenerationInv DEF GenerationInv, PhaseInv, NothingToUndo
    <3>2. CASE op = 0
      BY ONLY <1>0, <1>1, <1>3, <2>3, <3>1, <3>2 DEF TypeOK, After, AfterInstall, UndoneStep, FirstOp, Clean, Was, Present, Generations
    <3>3. CASE op = 1
      <4>1. ~ToUndo(pair, 1)
        BY ONLY <2>1, <3>3
      <4> QED
        BY ONLY <1>0, <1>1, <1>3, <2>3, <3>1, <3>3, <4>1, UndoCases, NoneAssumption DEF TypeOK, After, AfterInstall, UndoneStep, FirstOp, Clean, Was, Present, Generations
    <3>4. CASE op = 2
      <4>1. ~ToUndo(pair, 1) /\ ~ToUndo(pair, 2)
        BY ONLY <2>1, <3>4
      <4> QED
        BY ONLY <1>0, <1>1, <1>3, <2>3, <3>1, <3>4, <4>1, UndoCases, NoneAssumption DEF TypeOK, After, AfterInstall, UndoneStep, FirstOp, Clean, Was, Present, Generations
    <3>5. CASE op = 3
      <4>1. ~ToUndo(pair, 1) /\ ~ToUndo(pair, 2) /\ ~ToUndo(pair, 3)
        BY ONLY <2>1, <3>5
      <4> QED
        BY ONLY <1>0, <1>1, <1>3, <2>3, <3>1, <3>5, <4>1, UndoCases, NoneAssumption DEF TypeOK, After, AfterInstall, UndoneStep, FirstOp, Clean, Was, Present, Generations
    <3>6. CASE op = 4
      <4>1. ~ToUndo(pair, 1) /\ ~ToUndo(pair, 2) /\ ~ToUndo(pair, 3) /\ ~ToUndo(pair, 4)
        BY ONLY <2>1, <3>6
      <4> QED
        BY ONLY <1>0, <1>1, <1>3, <2>3, <3>1, <3>6, <4>1, UndoCases, NoneAssumption DEF TypeOK, After, AfterInstall, UndoneStep, FirstOp, Clean, Was, Present, Generations
    <3> QED
      BY ONLY <1>3, <2>1, <2>3, <3>2, <3>3, <3>4, <3>5, <3>6 DEF Least
  <2>4. CASE mode = "rollback"
    <3>1. Was(pair, "backup")
      BY ONLY NothingToUndo, <1>1, <2>4, GenerationInv DEF GenerationInv, PhaseInv, NothingToUndo
    <3>2. CASE op = 2
      <4>1. ~ToUndo(pair, 1) /\ ~ToUndo(pair, 2)
        BY ONLY <2>1, <3>2
      <4> QED
        BY ONLY <1>0, <1>1, <1>3, <2>4, <3>1, <3>2, <4>1, UndoCases DEF TypeOK, After, AfterRollback, UndoneStep, FirstOp, Clean, Was, Present, Generations
    <3>3. CASE op = 3
      <4>1. ~ToUndo(pair, 1) /\ ~ToUndo(pair, 2) /\ ~ToUndo(pair, 3)
        BY ONLY <2>1, <3>3
      <4> QED
        BY ONLY <1>0, <1>1, <1>3, <2>4, <3>1, <3>3, <4>1, UndoCases DEF TypeOK, After, AfterRollback, UndoneStep, FirstOp, Clean, Was, Present, Generations
    <3>4. CASE op = 4
      <4>1. ~ToUndo(pair, 1) /\ ~ToUndo(pair, 2) /\ ~ToUndo(pair, 3) /\ ~ToUndo(pair, 4)
        BY ONLY <2>1, <3>4
      <4> QED
        BY ONLY <1>0, <1>1, <1>3, <2>4, <3>1, <3>4, <4>1, UndoCases DEF TypeOK, After, AfterRollback, UndoneStep, FirstOp, Clean, Was, Present, Generations
    <3> QED
      BY ONLY <1>3, <2>1, <2>4, <3>2, <3>3, <3>4 DEF Least
  <2> QED
    BY ONLY <1>0, <2>3, <2>4 DEF TypeOK, Mode
<1> QED
  BY ONLY <1>1, <1>2, <1>3 DEF Undoing

\* Every step keeps the inductive invariant, unless a recovery is stopped between
\* a rename and the journal entry for it.
LEMMA GenerationStep ==
  ASSUME GenerationInv, "undone" \notin StopAt, [Next]_vars
  PROVE  GenerationInv'
<1>0. TypeOK /\ TypeOK'
  <2>1. TypeOK /\ (pc = "undone" => op # 0)
    BY DEF GenerationInv, UndoInv, Least
  <2> QED
    BY <2>1, TypesKept
<1> USE DEF Gen, Place, Mode, PCs, Present, Was
<1>1. CASE StageGeneration
  BY <1>0, <1>1 DEF GenerationInv, TypeOK, NothingStranded, PhaseInv, StagedInv, ApplyInv, StoppedInv, UndoInv, CommitInv, StageGeneration, journalVars, After, AfterInstall, AfterRollback, Near, Clean, Tracked, Least, Applying, Undoing, Generations, Below, Above
<1>2. CASE BeginInstall
  BY <1>0, <1>2 DEF GenerationInv, TypeOK, NothingStranded, PhaseInv, StagedInv, ApplyInv, StoppedInv, UndoInv, CommitInv, BeginInstall, PlanOf, Generations, After, AfterInstall, AfterRollback, Near, Clean, Tracked, Least, Applying, Undoing, Generations, Below, Above
<1>3. CASE BeginRollback
  BY <1>0, <1>3 DEF GenerationInv, TypeOK, NothingStranded, PhaseInv, StagedInv, ApplyInv, StoppedInv, UndoInv, CommitInv, BeginRollback, PlanOf, Generations, After, AfterInstall, AfterRollback, Near, Clean, Tracked, Least, Applying, Undoing, Generations, Below, Above
<1>4. CASE Applied
  BY SMTT(30), <1>0, <1>4 DEF GenerationInv, TypeOK, NothingStranded, PhaseInv, StagedInv, ApplyInv, StoppedInv, UndoInv, CommitInv, Applied, journalVars, Unfinished, After, AfterInstall, AfterRollback, Near, Clean, Tracked, Least, Applying, Undoing, Generations, Below, Above
<1>5. CASE Commit
  BY <1>0, <1>5 DEF GenerationInv, TypeOK, NothingStranded, PhaseInv, StagedInv, ApplyInv, StoppedInv, UndoInv, CommitInv, Commit, First, After, AfterInstall, AfterRollback, Near, Clean, Tracked, Least, Applying, Undoing, Generations, Below, Above
<1>6. CASE ResumeCleanup
  BY <1>0, <1>6 DEF GenerationInv, TypeOK, NothingStranded, PhaseInv, StagedInv, ApplyInv, StoppedInv, UndoInv, CommitInv, ResumeCleanup, First, journalVars, After, AfterInstall, AfterRollback, Near, Clean, Tracked, Least, Applying, Undoing, Generations, Below, Above
<1>7. CASE CleanNext
  <2> USE DEF CleanNext, First, Left, Spare, journalVars, After, AfterInstall, AfterRollback, Near, Clean, Tracked, Least, Applying, Undoing, Generations, Below, Above
  <2>1. NothingStranded'
    BY <1>0, <1>7 DEF GenerationInv, TypeOK, NothingStranded, UndoInv, CommitInv, PhaseInv
  <2>2. PhaseInv'
    BY <1>0, <1>7 DEF GenerationInv, TypeOK, PhaseInv
  <2>3. StagedInv'
    BY <1>0, <1>7 DEF GenerationInv, TypeOK, StagedInv
  <2>4. ApplyInv'
    BY <1>0, <1>7 DEF GenerationInv, TypeOK, ApplyInv, PhaseInv
  <2>5. StoppedInv'
    BY <1>0, <1>7 DEF GenerationInv, TypeOK, StoppedInv, PhaseInv, UndoInv, ApplyInv, StagedInv
  <2>6. UndoInv'
    BY <1>0, <1>7 DEF GenerationInv, TypeOK, UndoInv, PhaseInv, StoppedInv
  <2>7. CommitInv'
    <3>1. \A q \in Below(pair)' : q = pair \/ q \in Below(pair)
      BY <1>0, <1>7 DEF PhaseInv, GenerationInv
    <3>2. ~Present(pair, "displaced") \/ mode = "rollback"
      BY ONLY <1>0, <1>7 DEF CleanNext, Left, Spare, TypeOK, Mode
    <3>3. UNCHANGED <<at, mode, journal, phase>>
      BY <1>7
    <3>4. \A q \in Below(pair)' : ~Present(q, "displaced")
      BY ONLY <1>0, <1>7, <3>1, <3>2, GenerationInv DEF GenerationInv, CommitInv, PhaseInv, TypeOK, CleanNext, Present, Below
    <3> QED
      BY ONLY <1>0, <1>7, <3>3, <3>4, GenerationInv DEF GenerationInv, CommitInv, CleanNext, Present
  <2> QED
    BY <1>0, <2>1, <2>2, <2>3, <2>4, <2>5, <2>6, <2>7 DEF GenerationInv
<1>8. CASE CleanDone
  <2> USE DEF CleanDone, NoCall, Left, Spare, After, AfterInstall, AfterRollback, Near, Clean, Tracked, Least, Applying, Undoing, Generations, Below, Above
  <2>1. NothingStranded'
    <3>1. \A q \in Pair : q = pair \/ q \in Below(pair)
      BY ONLY <1>8, PlanOrder, GenerationInv DEF GenerationInv, PhaseInv, CleanDone
    <3>2. \A q \in Pair : ~Present(q, "temporary") /\ ~Present(q, "displaced")
      BY ONLY <1>0, <1>8, <3>1, GenerationInv DEF GenerationInv, CommitInv, PhaseInv, CleanDone, Left, Spare, TypeOK, Mode
    <3> QED
      BY ONLY <1>8, <3>2 DEF CleanDone, NothingStranded, Present
  <2>2. PhaseInv'
    BY <1>0, <1>8 DEF GenerationInv, TypeOK, PhaseInv
  <2>3. StagedInv'
    BY <1>0, <1>8 DEF GenerationInv, TypeOK, StagedInv
  <2>4. ApplyInv'
    BY <1>0, <1>8 DEF GenerationInv, TypeOK, ApplyInv, PhaseInv
  <2>5. StoppedInv'
    BY <1>0, <1>8 DEF GenerationInv, TypeOK, StoppedInv, PhaseInv, UndoInv, ApplyInv, StagedInv
  <2>6. UndoInv'
    BY ONLY <1>8 DEF CleanDone, UndoInv
  <2>7. CommitInv'
    BY <1>0, <1>8 DEF GenerationInv, TypeOK, CommitInv, PhaseInv
  <2> QED
    BY <1>0, <2>1, <2>2, <2>3, <2>4, <2>5, <2>6, <2>7 DEF GenerationInv
<1>9. CASE StartRecovery
  <2>1. /\ journal /\ phase # "committed" /\ \A q \in Pair : Tracked(q)
    <3>1. CASE pc = "idle" /\ journal
      BY ONLY <1>0, <1>9, <3>1, GenerationInv DEF GenerationInv, TypeOK, StoppedInv, StartRecovery
    <3>2. CASE pc = "applied"
      BY ONLY <1>9, <3>2, GenerationInv DEF GenerationInv, PhaseInv, ApplyInv, StartRecovery, Tracked, Near
    <3> QED
      BY ONLY <1>9, <3>1, <3>2 DEF StartRecovery
  <2>2. /\ UNCHANGED <<at, before, journal, mode, phase, gens, step>>
        /\ pc' = "undo" /\ op' = 5 /\ pair' \in Pair /\ rank' = step[pair']
        /\ \A q \in Pair : Rank[q] <= Rank[pair']
    BY ONLY <1>9 DEF StartRecovery, RecoverPair, Last, journalVars
  <2>3. \A q \in Pair : (Tracked(q))'
    BY ONLY <2>1, <2>2, SameFiles
  <2>4. Above(pair)' = {}
    BY <2>2 DEF Above
  <2>5. UndoInv'
    BY ONLY <2>2, <2>3, <2>4 DEF UndoInv, Undoing
  <2>6. NothingStranded' /\ PhaseInv' /\ StagedInv' /\ ApplyInv' /\ StoppedInv' /\ CommitInv'
    <3>1. phase = "applying"
      BY ONLY <1>0, <2>1 DEF TypeOK
    <3>2. PhaseInv'
      BY ONLY <2>1, <2>2, <3>1, GenerationInv DEF GenerationInv, PhaseInv, Was
    <3> QED
      BY ONLY <2>1, <2>2, <3>1, <3>2 DEF NothingStranded, StagedInv, ApplyInv, StoppedInv, CommitInv
  <2> QED
    BY ONLY <1>0, <2>5, <2>6 DEF GenerationInv
<1>10. CASE UndoSaved
  BY <1>0, <1>10 DEF GenerationInv, TypeOK, NothingStranded, PhaseInv, StagedInv, ApplyInv, StoppedInv, UndoInv, CommitInv, UndoSaved, AtStep, UndoneStep, FirstOp, After, AfterInstall, AfterRollback, Near, Clean, Tracked, Least, Applying, Undoing, Generations, Below, Above
<1>11. CASE PairRecovered
  <2> USE DEF PairRecovered, NothingToUndo, Verified, ToUndo, journalVars, After, AfterInstall, AfterRollback, Near, Clean, Tracked, Least, Applying, Undoing, Generations, Below, Above
  <2>1. NothingStranded'
    BY <1>0, <1>11 DEF GenerationInv, TypeOK, NothingStranded, UndoInv, CommitInv, PhaseInv
  <2>2. PhaseInv'
    BY <1>0, <1>11 DEF GenerationInv, TypeOK, PhaseInv
  <2>3. StagedInv'
    BY <1>0, <1>11 DEF GenerationInv, TypeOK, StagedInv
  <2>4. ApplyInv'
    BY <1>0, <1>11 DEF GenerationInv, TypeOK, ApplyInv, PhaseInv
  <2>5. StoppedInv'
    BY <1>0, <1>11 DEF GenerationInv, TypeOK, StoppedInv, PhaseInv, UndoInv, ApplyInv, StagedInv
  <2>6. UndoInv'
    <3>1. Clean(pair)
      BY ONLY GenerationInv, <1>11, UndoneIsClean DEF PairRecovered
    <3>2. UNCHANGED <<at, before, mode, gens, step, pair>> /\ pc = "undo" /\ pc' = "tidy"
      BY ONLY <1>11 DEF PairRecovered, NothingToUndo, journalVars
    <3>3. /\ pair \in Pair
          /\ \A q \in Above(pair) : q \in Pair /\ Clean(q)
          /\ \A q \in Pair : q # pair => Tracked(q)
      BY ONLY <3>2, GenerationInv DEF GenerationInv, PhaseInv, UndoInv, Above
    <3>4. \A q \in Pair : (Clean(q))' = Clean(q) /\ (Tracked(q))' = Tracked(q)
      BY ONLY <3>2, SameFiles
    <3>5. Above(pair)' = Above(pair)
      BY ONLY <3>2 DEF Above
    <3> QED
      BY ONLY <3>1, <3>2, <3>3, <3>4, <3>5 DEF UndoInv
  <2>7. CommitInv'
    BY <1>0, <1>11 DEF GenerationInv, TypeOK, CommitInv, PhaseInv
  <2> QED
    BY <1>0, <2>1, <2>2, <2>3, <2>4, <2>5, <2>6, <2>7 DEF GenerationInv
<1>12. CASE RecoverNext
  <2> USE DEF RecoverNext, RecoverPair, Last, Left, Spare, journalVars, After, AfterInstall, AfterRollback, Near, Clean, Tracked, Least, Applying, Undoing, Generations, Below, Above
  <2>1. NothingStranded'
    BY <1>0, <1>12 DEF GenerationInv, TypeOK, NothingStranded, UndoInv, CommitInv, PhaseInv
  <2>2. PhaseInv'
    BY <1>0, <1>12 DEF GenerationInv, TypeOK, PhaseInv
  <2>3. StagedInv'
    BY <1>0, <1>12 DEF GenerationInv, TypeOK, StagedInv
  <2>4. ApplyInv'
    BY <1>0, <1>12 DEF GenerationInv, TypeOK, ApplyInv, PhaseInv
  <2>5. StoppedInv'
    BY <1>0, <1>12 DEF GenerationInv, TypeOK, StoppedInv, PhaseInv, UndoInv, ApplyInv, StagedInv
  <2>6. UndoInv'
    <3>1. \A q \in Above(pair)' : q = pair \/ q \in Above(pair)
      BY <1>0, <1>12 DEF PhaseInv, GenerationInv
    <3>2. \A q \in Above(pair)' : Clean(q)
      BY ONLY <1>12, <3>1, GenerationInv DEF GenerationInv, UndoInv, RecoverNext
    <3>3. \A q \in Pair : Tracked(q)
      BY ONLY <1>12, GenerationInv DEF GenerationInv, UndoInv, RecoverNext, Tracked
    <3>4. UNCHANGED <<at, before, mode, step, gens>> /\ op' = 5 /\ pair' \in Pair /\ rank' = step[pair'] /\ pc' = "undo"
      BY ONLY <1>12 DEF RecoverNext, RecoverPair, Last, Below, journalVars
    <3>5. \A q \in Pair : (Clean(q))' = Clean(q) /\ (Tracked(q))' = Tracked(q)
      BY ONLY <3>4 DEF Clean, Tracked, After, AfterInstall, AfterRollback, Near, Generations, Present, Was
    <3> QED
      <4>1. \A q \in Above(pair)' : q \in Pair /\ (Clean(q))'
        BY ONLY <3>2, <3>5 DEF Above
      <4>2. \A q \in Pair : (Tracked(q))'
        BY ONLY <3>3, <3>5
      <4>3. (Undoing(pair))'
        BY ONLY <3>4, <4>2 DEF Undoing
      <4> QED
        BY ONLY <3>4, <4>1, <4>2, <4>3 DEF UndoInv, Above
  <2>7. CommitInv'
    BY <1>0, <1>12 DEF GenerationInv, TypeOK, CommitInv, PhaseInv
  <2> QED
    BY <1>0, <2>1, <2>2, <2>3, <2>4, <2>5, <2>6, <2>7 DEF GenerationInv
<1>13. CASE RolledBack
  <2> USE DEF RolledBack, NoCall, Left, Spare, After, AfterInstall, AfterRollback, Near, Clean, Tracked, Least, Applying, Undoing, Generations, Below, Above
  <2>1. NothingStranded'
    <3>1. \A q \in Pair : q = pair \/ q \in Above(pair)
      BY ONLY <1>13, PlanOrder, GenerationInv DEF GenerationInv, PhaseInv, RolledBack
    <3>2. \A q \in Pair : Clean(q)
      BY ONLY <1>13, <3>1, GenerationInv DEF GenerationInv, UndoInv, RolledBack, Below
    <3> QED
      BY ONLY <1>13, <3>2 DEF RolledBack, NothingStranded, Clean, Present
  <2>2. PhaseInv'
    BY <1>0, <1>13 DEF GenerationInv, TypeOK, PhaseInv
  <2>3. StagedInv'
    BY <1>0, <1>13 DEF GenerationInv, TypeOK, StagedInv
  <2>4. ApplyInv'
    BY <1>0, <1>13 DEF GenerationInv, TypeOK, ApplyInv, PhaseInv
  <2>5. StoppedInv'
    BY <1>0, <1>13 DEF GenerationInv, TypeOK, StoppedInv, PhaseInv, UndoInv, ApplyInv, StagedInv
  <2>6. UndoInv'
    BY <1>0, <1>13 DEF GenerationInv, TypeOK, UndoInv, PhaseInv, StoppedInv
  <2>7. CommitInv'
    BY <1>0, <1>13 DEF GenerationInv, TypeOK, CommitInv, PhaseInv
  <2> QED
    BY <1>0, <2>1, <2>2, <2>3, <2>4, <2>5, <2>6, <2>7 DEF GenerationInv
<1>14. CASE Stop
  <2>1. UNCHANGED <<at, journal, mode, phase, step, before, gens>> /\ pc' = "idle" /\ pc # "undone"
    BY <1>14 DEF Stop, journalVars
  <2>2. ASSUME journal, phase = "applying", NEW q \in Pair PROVE Tracked(q)
    <3>1. CASE pc = "idle"
      BY <2>2, <3>1 DEF GenerationInv, StoppedInv
    <3>2. CASE pc \in {"apply", "applied"}
      <4>1. CASE pc = "applied"
        BY ONLY <2>2, <4>1, GenerationInv DEF GenerationInv, ApplyInv, Tracked, Near
      <4>2. CASE pc = "apply"
        <5>1. Applying(q)
          BY ONLY <2>2, <4>2, GenerationInv DEF GenerationInv, ApplyInv
        <5> QED
          BY ONLY <1>0, <2>2, <5>1, ApplyingTracked
      <4> QED
        BY ONLY <3>2, <4>1, <4>2
    <3>3. CASE pc = "renamed"
      <4>1. CASE First(q, Unfinished)
        BY ONLY <2>2, <3>3, <4>1, GenerationInv DEF GenerationInv, ApplyInv, Tracked, Near, Least
      <4>2. CASE ~First(q, Unfinished)
        <5>1. Applying(q)
          BY ONLY <2>2, <3>3, <4>2, GenerationInv DEF GenerationInv, ApplyInv
        <5> QED
          BY ONLY <1>0, <2>2, <5>1, ApplyingTracked
      <4> QED
        BY ONLY <4>1, <4>2
    <3>4. CASE pc = "undo"
      <4>1. \A p \in Pair : p # pair => Tracked(p)
        BY <3>4 DEF GenerationInv, UndoInv
      <4>2. Undoing(pair) /\ pair \in Pair
        BY <3>4 DEF GenerationInv, UndoInv, PhaseInv
      <4>3. Tracked(pair)
        BY <1>0, <4>2 DEF Undoing, Tracked, Near, UndoneStep, FirstOp, Least, TypeOK
      <4> QED
        BY <4>1, <4>3
    <3>5. CASE pc = "tidy"
      BY <3>5 DEF GenerationInv, UndoInv, Tracked
    <3>6. pc \notin {"staged", "cleanup", "undone"}
      BY <2>1, <2>2 DEF GenerationInv, PhaseInv
    <3> QED
      BY <1>0, <3>1, <3>2, <3>3, <3>4, <3>5, <3>6 DEF TypeOK
  <2>3. \A q \in Pair : (Tracked(q))' = Tracked(q)
    BY <2>1 DEF Clean, Tracked, After, AfterInstall, AfterRollback, Near, Generations
  <2>4. StoppedInv'
    BY <2>1, <2>2, <2>3 DEF StoppedInv
  <2>5. NothingStranded' /\ PhaseInv' /\ StagedInv' /\ ApplyInv' /\ UndoInv' /\ CommitInv'
    BY <2>1 DEF GenerationInv, NothingStranded, PhaseInv, StagedInv, ApplyInv, UndoInv, CommitInv
  <2> QED
    BY <1>0, <2>4, <2>5 DEF GenerationInv
<1>15. ASSUME NEW p \in Pair, BeginRename(p) PROVE GenerationInv'
  <2> USE DEF BeginRename, Applies, Intend, LeaveOut, AtStep, NextOp, FirstOp, First, Unfinished, After, AfterInstall, AfterRollback, Near, Clean, Tracked, Least, Applying, Undoing, Generations, Below, Above
  <2>1. NothingStranded'
    BY <1>0, <1>15 DEF GenerationInv, TypeOK, NothingStranded, UndoInv, CommitInv, PhaseInv
  <2>2. PhaseInv'
    BY <1>0, <1>15 DEF GenerationInv, TypeOK, PhaseInv
  <2>3. StagedInv'
    BY <1>0, <1>15 DEF GenerationInv, TypeOK, StagedInv
  <2>4. ApplyInv'
    <3>1. UNCHANGED <<before, mode, gens>>
      BY ONLY <1>15 DEF BeginRename, journalVars
    <3>2. \A q \in Pair : q # p => at'[q] = at[q] /\ step'[q] = step[q]
      BY ONLY <1>0, <1>15 DEF BeginRename, Rename, AtStep, Intend, LeaveOut, journalVars, TypeOK
    <3>3. \A q \in Pair : q # p => (Applying(q))' = Applying(q)
      BY ONLY <3>1, <3>2 DEF Applying, After, AfterInstall, AfterRollback, Least
    <3>4. Applying(p) /\ pc = "apply" /\ step[p] # 10 /\ step[p] % 2 = 0
      BY ONLY <1>15, GenerationInv DEF GenerationInv, ApplyInv, BeginRename, First, Unfinished
    <3>5. PICK k \in Least .. 5 :
            After(p, k) /\ (step[p] \in {2 * k, 2 * k + 1} \/ (k = Least /\ step[p] = 0))
      BY ONLY <3>4 DEF Applying
    <3>6. k \in Least .. 4 /\ k \in 0 .. 4 /\ NextOp(p) = k + 1
      BY ONLY <1>0, <3>4, <3>5, StepArithmetic
    <3>7. CASE Applies(p, k + 1)
      <4>1. at' = at /\ step'[p] = 2 * k + 1 /\ pc' = "apply"
        <5>1. AtStep(p, 2 * (k + 1) - 1) /\ UNCHANGED <<at, pc>>
          BY ONLY <1>15, <3>6, <3>7 DEF BeginRename, Intend
        <5>2. 2 * (k + 1) - 1 = 2 * k + 1
          BY ONLY <3>6
        <5> QED
          BY ONLY <1>0, <3>4, <5>1, <5>2 DEF AtStep, TypeOK
      <4>2. (After(p, k))'
        BY ONLY <3>1, <3>5, <4>1 DEF After, AfterInstall, AfterRollback
      <4>3. (Applying(p))'
        BY ONLY <3>1, <3>6, <4>1, <4>2 DEF Applying, Least
      <4> QED
        <5>1. \A q \in Pair : Applying(q)
          BY ONLY <3>4, GenerationInv DEF GenerationInv, ApplyInv
        <5>2. \A q \in Pair : (Applying(q))'
          BY ONLY <3>3, <4>3, <5>1
        <5> QED
          BY ONLY <4>1, <5>2 DEF ApplyInv
    <3>8. CASE ~Applies(p, k + 1)
      <4>1. at' = at /\ step'[p] = 2 * (k + 1) /\ pc' = "apply"
        BY ONLY <1>0, <1>15, <3>4, <3>6, <3>8 DEF BeginRename, LeaveOut, AtStep, TypeOK, Least
      <4>2. After(p, k + 1)
        BY ONLY <1>0, <3>5, <3>6, <3>8 DEF After, AfterInstall, AfterRollback, Applies, Was, Least, TypeOK
      <4>3. (After(p, k + 1))'
        BY ONLY <3>1, <4>1, <4>2 DEF After, AfterInstall, AfterRollback
      <4>4. (Applying(p))'
        BY ONLY <3>1, <3>6, <4>1, <4>3 DEF Applying, Least
      <4> QED
        <5>1. \A q \in Pair : Applying(q)
          BY ONLY <3>4, GenerationInv DEF GenerationInv, ApplyInv
        <5>2. \A q \in Pair : (Applying(q))'
          BY ONLY <3>3, <4>4, <5>1
        <5> QED
          BY ONLY <4>1, <5>2 DEF ApplyInv
    <3> QED
      BY ONLY <3>7, <3>8
  <2>5. StoppedInv'
    BY ONLY <1>15 DEF BeginRename, Intend, LeaveOut, StoppedInv
  <2>6. UndoInv'
    BY <1>0, <1>15 DEF GenerationInv, TypeOK, UndoInv, PhaseInv, StoppedInv
  <2>7. CommitInv'
    BY <1>0, <1>15 DEF GenerationInv, TypeOK, CommitInv, PhaseInv
  <2> QED
    BY <1>0, <2>1, <2>2, <2>3, <2>4, <2>5, <2>6, <2>7 DEF GenerationInv
<1>16. ASSUME NEW p \in Pair, DoRename(p) PROVE GenerationInv'
  <2> USE DEF DoRename, First, Unfinished, NextOp, FirstOp, From, To, Rename, journalVars, After, AfterInstall, AfterRollback, Near, Clean, Tracked, Least, Applying, Undoing, Generations, Below, Above
  <2>1. NothingStranded'
    BY <1>0, <1>16 DEF GenerationInv, TypeOK, NothingStranded, UndoInv, CommitInv, PhaseInv
  <2>2. PhaseInv'
    BY <1>0, <1>16 DEF GenerationInv, TypeOK, PhaseInv
  <2>3. StagedInv'
    BY <1>0, <1>16 DEF GenerationInv, TypeOK, StagedInv
  <2>4. ApplyInv'
    <3>1. UNCHANGED <<before, mode, gens>>
      BY ONLY <1>16 DEF DoRename, journalVars
    <3>2. \A q \in Pair : q # p => at'[q] = at[q] /\ step'[q] = step[q]
      BY ONLY <1>0, <1>16 DEF DoRename, Rename, AtStep, Intend, LeaveOut, journalVars, TypeOK
    <3>3. \A q \in Pair : q # p => (Applying(q))' = Applying(q)
      BY ONLY <3>1, <3>2 DEF Applying, After, AfterInstall, AfterRollback, Least
    <3>4. Applying(p) /\ pc = "apply" /\ step[p] # 10 /\ step[p] % 2 = 1
      BY ONLY <1>16, GenerationInv DEF GenerationInv, ApplyInv, DoRename, First, Unfinished
    <3>5. PICK k \in Least .. 5 :
            After(p, k) /\ (step[p] \in {2 * k, 2 * k + 1} \/ (k = Least /\ step[p] = 0))
      BY ONLY <3>4 DEF Applying
    <3>6. k \in Least .. 4 /\ NextOp(p) = k + 1 /\ step[p] = 2 * k + 1
      BY ONLY <1>0, <3>4, <3>5, StepArithmetic
    <3>7. Rename(p, From[k + 1], To[k + 1]) /\ pc' = "renamed" /\ step' = step
      BY ONLY <1>16, <3>6 DEF DoRename, journalVars
    <3>8. (After(p, k + 1))'
      <4>1. CASE k = 0
        BY ONLY <1>0, <3>1, <3>5, <3>6, <3>7, <4>1 DEF After, AfterInstall, Least, Rename, From, To, TypeOK, Place
      <4>2. CASE k = 1
        BY ONLY <1>0, <3>1, <3>5, <3>6, <3>7, <4>2 DEF After, AfterInstall, Least, Rename, From, To, TypeOK, Place
      <4>3. CASE k = 2
        BY ONLY <1>0, <3>1, <3>5, <3>6, <3>7, <4>3 DEF After, AfterInstall, AfterRollback, Rename, From, To, TypeOK, Place
      <4>4. CASE k = 3
        BY ONLY <1>0, <3>1, <3>5, <3>6, <3>7, <4>4 DEF After, AfterInstall, AfterRollback, Rename, From, To, TypeOK, Place
      <4>5. CASE k = 4
        BY ONLY <1>0, <3>1, <3>5, <3>6, <3>7, <4>5 DEF After, AfterInstall, AfterRollback, Rename, From, To, TypeOK, Place
      <4> QED
        BY ONLY <3>6, <4>1, <4>2, <4>3, <4>4, <4>5 DEF Least
    <3>9. First(p, Unfinished) /\ (First(p, Unfinished))'
      BY ONLY <1>16, <3>7 DEF DoRename, First, Unfinished
    <3>10. \A q \in Pair : q # p => ~(First(q, Unfinished))'
      BY ONLY <3>9, RankAssumption DEF First, Unfinished
    <3>11. \E j \in (Least + 1 .. 5)' : step'[p] = 2 * j - 1 /\ (After(p, j))'
      BY ONLY <3>1, <3>6, <3>7, <3>8 DEF Least
    <3>12. \A q \in Pair : q # p => (Applying(q))'
      BY ONLY <3>3, <3>4, GenerationInv DEF GenerationInv, ApplyInv
    <3>13. ASSUME NEW q \in Pair
           PROVE  (IF First(q, Unfinished)
                   THEN \E j \in Least + 1 .. 5 : step[q] = 2 * j - 1 /\ After(q, j)
                   ELSE Applying(q))'
      <4>1. CASE q = p
        BY ONLY <3>9, <3>11, <4>1
      <4>2. CASE q # p
        BY ONLY <3>10, <3>12, <3>13, <4>2
      <4> QED
        BY ONLY <4>1, <4>2
    <3> QED
      BY ONLY <3>7, <3>13 DEF ApplyInv
  <2>5. StoppedInv'
    BY <1>0, <1>16 DEF GenerationInv, TypeOK, StoppedInv, PhaseInv, UndoInv, ApplyInv, StagedInv
  <2>6. UndoInv'
    BY <1>0, <1>16 DEF GenerationInv, TypeOK, UndoInv, PhaseInv, StoppedInv
  <2>7. CommitInv'
    BY <1>0, <1>16 DEF GenerationInv, TypeOK, CommitInv, PhaseInv
  <2> QED
    BY <1>0, <2>1, <2>2, <2>3, <2>4, <2>5, <2>6, <2>7 DEF GenerationInv
<1>17. ASSUME NEW p \in Pair, RenameDone(p) PROVE GenerationInv'
  <2> USE DEF RenameDone, AtStep, First, Unfinished, After, AfterInstall, AfterRollback, Near, Clean, Tracked, Least, Applying, Undoing, Generations, Below, Above
  <2>1. NothingStranded'
    BY <1>0, <1>17 DEF GenerationInv, TypeOK, NothingStranded, UndoInv, CommitInv, PhaseInv
  <2>2. PhaseInv'
    BY <1>0, <1>17 DEF GenerationInv, TypeOK, PhaseInv
  <2>3. StagedInv'
    BY <1>0, <1>17 DEF GenerationInv, TypeOK, StagedInv
  <2>4. ApplyInv'
    <3>1. UNCHANGED <<before, mode, gens>>
      BY ONLY <1>17 DEF RenameDone, journalVars
    <3>2. \A q \in Pair : q # p => at'[q] = at[q] /\ step'[q] = step[q]
      BY ONLY <1>0, <1>17 DEF RenameDone, Rename, AtStep, Intend, LeaveOut, journalVars, TypeOK
    <3>3. \A q \in Pair : q # p => (Applying(q))' = Applying(q)
      BY ONLY <3>1, <3>2 DEF Applying, After, AfterInstall, AfterRollback, Least
    <3>4. PICK k \in Least + 1 .. 5 : step[p] = 2 * k - 1 /\ After(p, k)
      BY ONLY <1>17, GenerationInv DEF GenerationInv, ApplyInv, RenameDone
    <3>5. at' = at /\ step'[p] = 2 * k /\ pc' = "apply"
      BY ONLY <1>0, <1>17, <3>4 DEF RenameDone, AtStep, TypeOK, Least
    <3>6. (After(p, k))'
      BY ONLY <3>1, <3>4, <3>5 DEF After, AfterInstall, AfterRollback
    <3>7. (Applying(p))'
      BY ONLY <3>1, <3>4, <3>5, <3>6 DEF Applying, Least
    <3>8. \A q \in Pair : q # p => Applying(q)
      <4>1. First(p, Unfinished) /\ pc = "renamed"
        BY ONLY <1>17 DEF RenameDone
      <4>2. \A q \in Pair : q # p => ~First(q, Unfinished)
        BY ONLY <4>1, RankAssumption DEF First, Unfinished
      <4> QED
        BY ONLY <4>1, <4>2, GenerationInv DEF GenerationInv, ApplyInv
    <3> QED
      BY ONLY <3>3, <3>5, <3>7, <3>8 DEF ApplyInv
  <2>5. StoppedInv'
    BY <1>0, <1>17 DEF GenerationInv, TypeOK, StoppedInv, PhaseInv, UndoInv, ApplyInv, StagedInv
  <2>6. UndoInv'
    BY <1>0, <1>17 DEF GenerationInv, TypeOK, UndoInv, PhaseInv, StoppedInv
  <2>7. CommitInv'
    BY <1>0, <1>17 DEF GenerationInv, TypeOK, CommitInv, PhaseInv
  <2> QED
    BY <1>0, <2>1, <2>2, <2>3, <2>4, <2>5, <2>6, <2>7 DEF GenerationInv
<1>18. ASSUME NEW l \in Place, RemoveSpare(l) PROVE GenerationInv'
  <2>1. /\ UNCHANGED <<before, journal, mode, phase, gens, step, pc, op, pair, rank>>
        /\ pc \in {"cleanup", "tidy"} /\ l \in Spare /\ Present(pair, l)
    BY ONLY <1>18 DEF RemoveSpare, Left, journalVars, callVars
  <2>2. pair \in Pair /\ journal
    BY ONLY <2>1, GenerationInv DEF GenerationInv, PhaseInv
  <2>3. /\ \A q \in Pair : q # pair => at'[q] = at[q]
        /\ \A m \in Place : m # l => at'[pair][m] = at[pair][m]
        /\ at'[pair][l] = None
    BY ONLY <1>0, <1>18, <2>2 DEF RemoveSpare, TypeOK
  <2>4. UndoInv'
    <3>1. \A q \in Pair : q # pair => (Clean(q))' = Clean(q) /\ (Tracked(q))' = Tracked(q)
      BY ONLY <2>1, <2>3 DEF Clean, Tracked, After, AfterInstall, AfterRollback, Near, Generations, Present, Was
    <3>2. \A q \in Above(pair) : q \in Pair /\ q # pair
      BY ONLY <2>2, RankAssumption DEF Above
    <3>3. Above(pair)' = Above(pair)
      BY ONLY <2>1 DEF Above
    <3>4. ASSUME pc = "tidy" PROVE (Clean(pair))'
      <4>1. Clean(pair)
        BY ONLY <3>4, GenerationInv DEF GenerationInv, UndoInv
      <4>2. l = "staged"
        BY ONLY <2>1, <4>1 DEF Clean, Spare, Present
      <4>3. /\ at'[pair]["active"] = at[pair]["active"] /\ at'[pair]["backup"] = at[pair]["backup"]
            /\ at'[pair]["temporary"] = at[pair]["temporary"]
            /\ at'[pair]["displaced"] = at[pair]["displaced"]
        BY ONLY <2>3, <4>2 DEF Place
      <4> QED
        BY ONLY <2>1, <4>1, <4>3 DEF Clean, Generations, Present, Was
    <3>5. UndoInv
      BY ONLY GenerationInv DEF GenerationInv
    <3> QED
      BY ONLY <2>1, <3>1, <3>2, <3>3, <3>4, <3>5 DEF UndoInv
  <2>5. CommitInv'
    <3>1. \A q \in Pair, m \in Place : (Present(q, m))' => Present(q, m)
      BY ONLY <2>2, <2>3 DEF Present
    <3>2. CommitInv /\ Below(pair)' = Below(pair)
      BY ONLY <2>1, GenerationInv DEF GenerationInv, Below
    <3> QED
      BY ONLY <2>1, <3>1, <3>2 DEF CommitInv, Below, Place
  <2>6. PhaseInv'
    BY ONLY <2>1, GenerationInv DEF GenerationInv, PhaseInv, Was
  <2>7. NothingStranded' /\ StagedInv' /\ ApplyInv' /\ StoppedInv'
    BY ONLY <2>1, <2>2 DEF NothingStranded, StagedInv, ApplyInv, StoppedInv
  <2> QED
    BY ONLY <1>0, <2>4, <2>5, <2>6, <2>7 DEF GenerationInv
<1>19. ASSUME NEW k \in Op, UndoRename(k) PROVE GenerationInv'
  <2> USE DEF UndoRename, NextUndo, ToUndo, Applies, Rename, Op, From, To, journalVars, After, AfterInstall, AfterRollback, Near, Clean, Tracked, Least, Applying, Undoing, Generations, Below, Above
  <2>1. NothingStranded'
    BY <1>0, <1>19 DEF GenerationInv, TypeOK, NothingStranded, UndoInv, CommitInv, PhaseInv
  <2>2. PhaseInv'
    BY <1>0, <1>19 DEF GenerationInv, TypeOK, PhaseInv
  <2>3. StagedInv'
    BY <1>0, <1>19 DEF GenerationInv, TypeOK, StagedInv
  <2>4. ApplyInv'
    BY <1>0, <1>19 DEF GenerationInv, TypeOK, ApplyInv, PhaseInv
  <2>5. StoppedInv'
    BY <1>0, <1>19 DEF GenerationInv, TypeOK, StoppedInv, PhaseInv, UndoInv, ApplyInv, StagedInv
  <2>6. UndoInv'
    <3>1. UNCHANGED <<before, mode, gens, step, pair, rank>> /\ op' = k /\ pc' = "undone"
      BY ONLY <1>19 DEF UndoRename, journalVars
    <3>2. pair \in Pair /\ Undoing(pair) /\ k \in 1 .. op /\ ToUndo(pair, k)
      BY ONLY <1>19, GenerationInv DEF GenerationInv, PhaseInv, UndoInv, UndoRename, NextUndo
    <3>3. \A q \in Pair : q # pair => at'[q] = at[q]
      BY ONLY <1>0, <1>19 DEF UndoRename, Rename, TypeOK
    <3>4. \A q \in Pair : q # pair => (Tracked(q))' = Tracked(q) /\ (Clean(q))' = Clean(q)
      BY ONLY <3>1, <3>3 DEF Clean, Tracked, After, AfterInstall, AfterRollback, Near, Generations, Present, Was
    <3>5. (\A q \in Above(pair) : Clean(q))' /\ (\A q \in Pair : q # pair => Tracked(q))'
      <4>1. /\ \A q \in Above(pair) : q \in Pair /\ q # pair /\ Clean(q)
            /\ \A q \in Pair : q # pair => Tracked(q)
        <5>1. \A q \in Above(pair) : q \in Pair /\ q # pair
          BY ONLY <3>2, RankAssumption DEF Above
        <5>2. pc = "undo"
          BY ONLY <1>19 DEF UndoRename
        <5> QED
          BY ONLY <5>1, <5>2, GenerationInv DEF GenerationInv, UndoInv
      <4>2. Above(pair)' = Above(pair)
        BY ONLY <3>1 DEF Above
      <4> QED
        BY ONLY <3>1, <3>4, <4>1, <4>2
    <3>6. k \in Least + 1 .. 5 /\ rank >= 2 * k - 1 /\ After(pair, k)
      BY ONLY <1>0, <1>19, <3>2, UndoFinds, GenerationInv DEF GenerationInv, UndoRename, NextUndo, PhaseInv
    <3>7. (After(pair, k - 1))'
      <4>1. CASE k = 1
        BY ONLY <1>0, <1>19, <3>1, <3>2, <3>6, <4>1 DEF UndoRename, After, AfterInstall, Least, Rename, From, To, TypeOK, Place
      <4>2. CASE k = 2
        BY ONLY <1>0, <1>19, <3>1, <3>2, <3>6, <4>2 DEF UndoRename, After, AfterInstall, Least, Rename, From, To, TypeOK, Place
      <4>3. CASE k = 3
        BY ONLY <1>0, <1>19, <3>1, <3>2, <3>6, <4>3 DEF UndoRename, After, AfterInstall, AfterRollback, Rename, From, To, TypeOK, Place
      <4>4. CASE k = 4
        BY ONLY <1>0, <1>19, <3>1, <3>2, <3>6, <4>4 DEF UndoRename, After, AfterInstall, AfterRollback, Rename, From, To, TypeOK, Place
      <4>5. CASE k = 5
        BY ONLY <1>0, <1>19, <3>1, <3>2, <3>6, <4>5 DEF UndoRename, After, AfterInstall, AfterRollback, Rename, From, To, TypeOK, Place
      <4> QED
        BY ONLY <3>6, <4>1, <4>2, <4>3, <4>4, <4>5 DEF Least, Op
    <3> QED
      BY ONLY <3>1, <3>2, <3>5, <3>6, <3>7 DEF UndoInv, Least
  <2>7. CommitInv'
    BY <1>0, <1>19 DEF GenerationInv, TypeOK, CommitInv, PhaseInv
  <2> QED
    BY <1>0, <2>1, <2>2, <2>3, <2>4, <2>5, <2>6, <2>7 DEF GenerationInv
<1>20. CASE UNCHANGED vars
  <2> USE DEF vars, journalVars, callVars, Unfinished, First, Generations, After, AfterInstall, AfterRollback, Near, Clean, Tracked, Least, Applying, Undoing, Below, Above, UndoneStep, FirstOp
  <2>1. NothingStranded'
    BY <1>0, <1>20 DEF GenerationInv, TypeOK, NothingStranded, UndoInv, CommitInv, PhaseInv
  <2>2. PhaseInv'
    BY <1>0, <1>20 DEF GenerationInv, TypeOK, PhaseInv
  <2>3. StagedInv'
    BY <1>0, <1>20 DEF GenerationInv, TypeOK, StagedInv
  <2>4. ApplyInv'
    <3>1. \A q \in Pair : (Applying(q))' = Applying(q) /\ (First(q, Unfinished))' = First(q, Unfinished)
                           /\ \A k \in 0 .. 5 : (After(q, k))' = After(q, k)
      BY ONLY <1>20 DEF vars, journalVars, callVars, Applying, First, Unfinished, After, AfterInstall, AfterRollback, Least
    <3>2. UNCHANGED <<pc, step, mode>>
      BY ONLY <1>20 DEF vars, journalVars, callVars
    <3>3. ApplyInv
      BY ONLY GenerationInv DEF GenerationInv
    <3> QED
      BY ONLY <3>1, <3>2, <3>3 DEF ApplyInv, Least
  <2>5. StoppedInv'
    BY <1>0, <1>20 DEF GenerationInv, TypeOK, StoppedInv, PhaseInv, UndoInv, ApplyInv, StagedInv
  <2>6. UndoInv'
    <3>1. UNCHANGED <<at, before, mode, gens, step, pc, pair, op, rank>>
      BY ONLY <1>20 DEF vars, journalVars, callVars
    <3>2. \A q \in Pair : (Clean(q))' = Clean(q) /\ (Tracked(q))' = Tracked(q)
                           /\ \A k \in 0 .. 5 : (After(q, k))' = After(q, k)
      BY ONLY <3>1, SameFiles
    <3>3. UndoInv /\ (pc \in {"undo", "undone", "tidy"} => pair \in Pair) /\ op \in Nat
      BY ONLY <1>0, GenerationInv DEF GenerationInv, PhaseInv, TypeOK
    <3>4. (Undoing(pair))' = Undoing(pair)
      BY ONLY <3>1 DEF Undoing, Tracked, Clean, After, AfterInstall, AfterRollback, Near, Generations, Present, Was, Least, UndoneStep, FirstOp
    <3>5. (After(pair, op - 1))' = After(pair, op - 1)
      BY ONLY <3>1 DEF After, AfterInstall, AfterRollback
    <3>6. CASE pc \in {"undo", "undone", "tidy"}
      <4>1. \A q \in Above(pair)' : (Clean(q))'
        BY ONLY <3>1, <3>2, <3>3, <3>6 DEF UndoInv, Above
      <4>2. \A q \in Pair : q # pair' => (Tracked(q))'
        BY ONLY <3>1, <3>2, <3>3, <3>6 DEF UndoInv
      <4>3. /\ (pc = "undo" => Undoing(pair))'
            /\ (pc = "tidy" => Clean(pair))'
        BY ONLY <3>1, <3>2, <3>3, <3>4, <3>6 DEF UndoInv
      <4>4. (pc = "undone" => op \in Least + 1 .. 5 /\ rank >= 2 * op - 1 /\ After(pair, op - 1))'
        BY ONLY <3>1, <3>3, <3>5, <3>6 DEF UndoInv, Least
      <4> QED
        BY ONLY <4>1, <4>2, <4>3, <4>4 DEF UndoInv
    <3> QED
      BY ONLY <3>1, <3>6 DEF UndoInv
  <2>7. CommitInv'
    BY <1>0, <1>20 DEF GenerationInv, TypeOK, CommitInv, PhaseInv
  <2> QED
    BY <1>0, <2>1, <2>2, <2>3, <2>4, <2>5, <2>6, <2>7 DEF GenerationInv
<1> QED
  BY ONLY [Next]_vars, <1>1, <1>2, <1>3, <1>4, <1>5, <1>6, <1>7, <1>8, <1>9, <1>10,
     <1>11, <1>12, <1>13, <1>14, <1>15, <1>16, <1>17, <1>18, <1>19, <1>20 DEF Next

\* The inductive invariant holds initially.
LEMMA GenerationInit == Init => GenerationInv
<1> SUFFICES ASSUME Init PROVE GenerationInv
  OBVIOUS
<1>1. ~journal /\ journal \in BOOLEAN /\ pc = "idle" /\ op = 0 /\ pair = None /\ rank = 0 /\ gens = 0
  BY DEF Init
<1>2. at \in [Pair -> [Place -> Gen \cup {None}]] /\ \A p \in Pair : ~Present(p, "temporary") /\ ~Present(p, "displaced")
  BY DEF Init, Empty, Present, Place
<1>3. before \in [Pair -> [active : Gen \cup {None}, backup : Gen \cup {None}]]
  BY DEF Init, Generations, Empty, Place
<1>4. step \in [Pair -> 0 .. 10] /\ mode \in Mode /\ phase \in {"applying", "committed"}
  BY DEF Init, Mode
<1>5. TypeOK
  BY <1>1, <1>2, <1>3, <1>4 DEF TypeOK, PCs
<1> QED
  BY <1>1, <1>2, <1>5 DEF GenerationInv, NothingStranded, PhaseInv, StagedInv, ApplyInv,
     StoppedInv, UndoInv, CommitInv

(***************************************************************************)
(* Types and leftovers, wherever a call stops                              *)
(***************************************************************************)
NoLeftovers(p) == ~Present(p, "temporary") /\ ~Present(p, "displaced")

\* A rollback displaces nothing; what lies behind a clean-up or a recovery is clean.
LeftoverInv ==
    /\ TypeOK /\ NothingStranded
    /\ pc = "undone" => op \in FirstOp(mode) .. 5
    /\ pc = "staged" => ~journal
    /\ pc \notin {"idle", "staged"} => journal
    /\ pc \in {"undo", "undone", "tidy", "cleanup"} => pair \in Pair
    /\ journal /\ mode = "rollback" =>
        \A p \in Pair : ~Present(p, "displaced") /\ step[p] \notin 1 .. 3
    /\ pc = "renamed" => \A p \in Pair : First(p, Unfinished) => step[p] # 0
    /\ pc = "cleanup" => \A p \in Below(pair) : NoLeftovers(p)
    /\ pc \in {"undo", "undone", "tidy"} => \A p \in Above(pair) : NoLeftovers(p)

\* A pair is clean when none of the paths its journal names is left.
LEMMA EmptyIsClean ==
  ASSUME LeftoverInv, journal, pair \in Pair, Left(pair) = {}
  PROVE  NoLeftovers(pair)
  BY DEF LeftoverInv, TypeOK, Mode, Left, Spare, NoLeftovers

\* A clean pair stays clean when its files do not change.
LEMMA SameLeftovers ==
  ASSUME UNCHANGED at
  PROVE  \A p \in Pair : Present(p, "displaced")' = Present(p, "displaced")
                         /\ NoLeftovers(p)' = NoLeftovers(p)
  BY DEF NoLeftovers, Present

\* Only the paths of the renamed pair change, and only source and target.
LEMMA RenameChanges ==
  ASSUME TypeOK, NEW p \in Pair, NEW from \in Place, NEW to \in Place, Rename(p, from, to)
  PROVE  /\ \A q \in Pair : q # p => NoLeftovers(q)' = NoLeftovers(q)
         /\ \A q \in Pair : Present(q, "displaced")' /\ ~Present(q, "displaced") => to = "displaced"
  BY DEF TypeOK, Rename, NoLeftovers, Present, Place

\* Every step keeps it.
LEMMA LeftoverStep ==
  ASSUME LeftoverInv, [Next]_vars
  PROVE  LeftoverInv'
<1>1. TypeOK /\ TypeOK' /\ [Next]_vars
  BY TypesKept DEF LeftoverInv, FirstOp
<1>2. mode \in Mode /\ step \in [Pair -> 0 .. 10] /\ Rank \in [Pair -> Nat]
  BY <1>1 DEF TypeOK
<1> USE DEF FirstOp
<1>3. CASE StageGeneration
  <2>1. \A p \in Pair : Present(p, "displaced")' = Present(p, "displaced")
                        /\ NoLeftovers(p)' = NoLeftovers(p)
    BY <1>1, <1>3 DEF StageGeneration, TypeOK, Place, Present, NoLeftovers
  <2> QED
    BY <1>1, <1>3, <2>1 DEF StageGeneration, journalVars, LeftoverInv, NothingStranded, NoLeftovers
<1>4. CASE BeginInstall
  BY <1>1, <1>4, SameLeftovers DEF BeginInstall, PlanOf, LeftoverInv, NothingStranded
<1>5. CASE BeginRollback
  BY <1>1, <1>5, SameLeftovers DEF BeginRollback, PlanOf, LeftoverInv, NothingStranded
<1>6. CASE Applied \/ Stop \/ PairRecovered \/ UNCHANGED vars
  <2>1. CASE Applied \/ PairRecovered
    BY <1>1, <2>1, SameLeftovers DEF Applied, PairRecovered, NothingToUndo, journalVars, LeftoverInv, NothingStranded, Above
  <2>2. CASE Stop
    BY <1>1, <2>2, SameLeftovers DEF Stop, journalVars, LeftoverInv, NothingStranded, NoLeftovers
  <2>3. CASE UNCHANGED vars
    BY <1>1, <2>3, SameLeftovers
       DEF vars, journalVars, callVars, LeftoverInv, NothingStranded, NoLeftovers, Above, Below, First, Unfinished
  <2> QED
    BY <1>6, <2>1, <2>2, <2>3
<1>7. CASE Commit \/ ResumeCleanup
  <2>1. \A p \in Pair : First(p, Pair) => Below(p) = {}
    BY <1>2 DEF First, Below
  <2> QED
    BY <1>1, <1>7, <2>1, SameLeftovers
       DEF Commit, ResumeCleanup, First, journalVars, LeftoverInv, NothingStranded
<1>8. CASE StartRecovery
  <2>1. \A p \in Pair : Last(p, Pair) => Above(p) = {}
    BY <1>2 DEF Last, Above
  <2> QED
    BY <1>1, <1>8, <2>1, SameLeftovers
       DEF StartRecovery, RecoverPair, Last, journalVars, LeftoverInv, NothingStranded
<1>9. CASE CleanNext
  <2>1. pair \in Pair /\ journal /\ NoLeftovers(pair)
    BY <1>9, EmptyIsClean DEF CleanNext, LeftoverInv
  <2>2. \A p \in Pair : First(p, Above(pair)) => \A q \in Below(p) : q = pair \/ q \in Below(pair)
    BY <1>2, <2>1 DEF First, Above, Below
  <2>3. pair' \in Pair /\ \A q \in Below(pair') : NoLeftovers(q)
    BY <1>9, <2>1, <2>2 DEF CleanNext, First, Above, LeftoverInv
  <2> QED
    BY <1>1, <1>9, <2>3, SameLeftovers DEF CleanNext, journalVars, Below, LeftoverInv, NothingStranded
<1>10. CASE RecoverNext
  <2>1. pair \in Pair /\ journal /\ NoLeftovers(pair)
    BY <1>10, EmptyIsClean DEF RecoverNext, LeftoverInv
  <2>2. \A p \in Pair : Last(p, Below(pair)) => \A q \in Above(p) : q = pair \/ q \in Above(pair)
    BY <1>2, <2>1 DEF Last, Above, Below
  <2>3. pair' \in Pair /\ \A q \in Above(pair') : NoLeftovers(q)
    BY <1>10, <2>1, <2>2 DEF RecoverNext, RecoverPair, Last, Below, LeftoverInv
  <2> QED
    BY <1>1, <1>10, <2>3, SameLeftovers
       DEF RecoverNext, RecoverPair, journalVars, Above, LeftoverInv, NothingStranded
<1>11. CASE CleanDone \/ RolledBack
  <2>1. pair \in Pair /\ journal /\ NoLeftovers(pair)
    BY <1>11, EmptyIsClean DEF CleanDone, RolledBack, LeftoverInv
  <2>2. \A p \in Pair : p = pair \/ p \in Above(pair) \/ p \in Below(pair)
    BY <1>2, <2>1 DEF Above, Below
  <2>3. \A p \in Pair : NoLeftovers(p)
    BY <1>11, <2>1, <2>2 DEF CleanDone, RolledBack, LeftoverInv
  <2>4. \A p \in Pair : NoLeftovers(p)'
    BY <1>11, <2>3, SameLeftovers DEF CleanDone, RolledBack
  <2> QED
    BY <1>1, <1>11, <2>4 DEF CleanDone, RolledBack, LeftoverInv, NothingStranded, NoLeftovers
<1>12. CASE UndoSaved
  <2>1. journal /\ pair \in Pair /\ op \in FirstOp(mode) .. 5
    BY <1>12 DEF UndoSaved, LeftoverInv
  <2>2. mode = "rollback" => UndoneStep(op) \notin 1 .. 3
    BY <2>1 DEF UndoneStep
  <2>3. mode = "rollback" => \A p \in Pair : step'[p] \notin 1 .. 3
    BY <1>2, <1>12, <2>1, <2>2 DEF UndoSaved, AtStep, LeftoverInv
  <2> QED
    BY <1>1, <1>12, <2>1, <2>3, SameLeftovers DEF UndoSaved, Above, LeftoverInv, NothingStranded
<1>13. ASSUME NEW p \in Pair, BeginRename(p) PROVE LeftoverInv'
  <2>1. journal /\ step[p] # 10 /\ step[p] % 2 = 0
    BY <1>13 DEF BeginRename, LeftoverInv, First, Unfinished
  <2>2. mode = "rollback" => NextOp(p) >= 3 /\ NextOp(p) \in Nat
    BY <1>2, <2>1 DEF NextOp, LeftoverInv
  <2>3. mode = "rollback" => \A q \in Pair : step'[q] \notin 1 .. 3
    BY <1>2, <1>13, <2>1, <2>2 DEF BeginRename, Intend, LeaveOut, AtStep, LeftoverInv
  <2>4. UNCHANGED <<at, journal, mode, pc>>
    BY <1>13 DEF BeginRename, Intend, LeaveOut
  <2> QED
    BY <1>1, <1>13, <2>1, <2>3, <2>4, SameLeftovers DEF BeginRename, LeftoverInv, NothingStranded
<1>14. ASSUME NEW p \in Pair, DoRename(p) PROVE LeftoverInv'
  <2>1. journal /\ step[p] % 2 = 1
    BY <1>14 DEF DoRename, LeftoverInv
  <2>2. NextOp(p) \in Op /\ (mode = "rollback" => NextOp(p) >= 3)
    BY <1>2, <1>14, <2>1 DEF DoRename, First, Unfinished, NextOp, Op, LeftoverInv
  <2>3. From[NextOp(p)] \in Place /\ To[NextOp(p)] \in Place
        /\ (mode = "rollback" => To[NextOp(p)] # "displaced")
    BY <2>2 DEF From, To, Place, Op
  <2>4. Rename(p, From[NextOp(p)], To[NextOp(p)])
    BY <1>14 DEF DoRename
  <2>5. mode = "rollback" => \A q \in Pair : Present(q, "displaced")' => Present(q, "displaced")
    BY <1>1, <2>3, <2>4, RenameChanges
  <2>6. \A q \in Pair : First(q, Unfinished) => step[q] # 0
    BY <1>2, <1>14, <2>1, RankAssumption DEF DoRename, First, Unfinished
  <2>7. \A q \in Pair : First(q, Unfinished)' = First(q, Unfinished)
    BY <1>14 DEF DoRename, journalVars, First, Unfinished
  <2> QED
    BY <1>1, <1>14, <2>1, <2>5, <2>6, <2>7 DEF DoRename, journalVars, LeftoverInv, NothingStranded
<1>15. ASSUME NEW p \in Pair, RenameDone(p) PROVE LeftoverInv'
  <2>1. pc = "renamed" /\ journal /\ UNCHANGED <<at, journal, mode>> /\ pc' = "apply"
    BY <1>15 DEF RenameDone, LeftoverInv
  <2>2. mode = "rollback" => step[p] \in 4 .. 9
    BY <1>2, <1>15, <2>1 DEF RenameDone, First, Unfinished, LeftoverInv
  <2>3. mode = "rollback" => \A q \in Pair : step'[q] \notin 1 .. 3
    BY <1>2, <1>15, <2>1, <2>2 DEF RenameDone, AtStep, LeftoverInv
  <2> QED
    BY <1>1, <2>1, <2>3, SameLeftovers DEF LeftoverInv, NothingStranded
<1>16. ASSUME NEW l \in Place, RemoveSpare(l) PROVE LeftoverInv'
  <2>1. \A q \in Pair : /\ Present(q, "displaced")' => Present(q, "displaced")
                        /\ NoLeftovers(q) => NoLeftovers(q)'
    BY <1>1, <1>16 DEF RemoveSpare, TypeOK, NoLeftovers, Present, Place
  <2> QED
    BY <1>1, <1>16, <2>1
       DEF RemoveSpare, journalVars, callVars, Above, Below, LeftoverInv, NothingStranded
<1>17. ASSUME NEW k \in Op, UndoRename(k) PROVE LeftoverInv'
  <2>1. journal /\ pair \in Pair /\ pc = "undo"
    BY <1>17 DEF UndoRename, LeftoverInv
  <2>2. k \in FirstOp(mode) .. 5
    BY <1>2, <1>17 DEF UndoRename, NextUndo, ToUndo, Op, Mode
  <2>3. From[k] \in Place /\ To[k] \in Place /\ (mode = "rollback" => From[k] # "displaced")
    BY <2>2 DEF From, To, Place, Op
  <2>4. /\ mode = "rollback" => \A q \in Pair : Present(q, "displaced")' => Present(q, "displaced")
        /\ \A q \in Above(pair) : NoLeftovers(q)' = NoLeftovers(q)
    BY <1>1, <1>2, <1>17, <2>1, <2>3, RenameChanges DEF UndoRename, Above
  <2> QED
    BY <1>1, <1>17, <2>1, <2>2, <2>4
       DEF UndoRename, journalVars, Above, LeftoverInv, NothingStranded
<1> QED
  BY <1>1, <1>3, <1>4, <1>5, <1>6, <1>7, <1>8, <1>9, <1>10, <1>11, <1>12, <1>13, <1>14, <1>15,
     <1>16, <1>17 DEF Next

\* Types and leftovers hold in every state, also if a recovery is stopped before it
\* writes what it undid.
THEOREM LeftoverInvariant == Spec => []LeftoverInv
<1>1. Init => LeftoverInv
  BY GenerationInit DEF Init, GenerationInv, LeftoverInv
<1> QED
  BY <1>1, LeftoverStep, PTL DEF Spec

\* The variables have their types throughout.
THEOREM GenerationTypes == Spec => []TypeOK
<1>1. LeftoverInv => TypeOK
  BY DEF LeftoverInv
<1> QED
  BY <1>1, LeftoverInvariant, PTL

\* No artifact is left where only a journal that is gone would look, whatever call or
\* recovery was stopped, and wherever.
THEOREM NothingEverStranded == Spec => []NothingStranded
<1>1. LeftoverInv => NothingStranded
  BY DEF LeftoverInv
<1> QED
  BY <1>1, LeftoverInvariant, PTL

\* Generation places, journal and call are related as recovery needs them, in every
\* state of a run in which no recovery is stopped before it writes what it undid.
THEOREM GenerationInvariant ==
  ASSUME "undone" \notin StopAt
  PROVE  Spec => []GenerationInv
<1>1. GenerationInv /\ [Next]_vars => GenerationInv'
  BY GenerationStep
<1> QED
  BY <1>1, GenerationInit, PTL DEF Spec

\* No recovery ends terminal_uncertain.
THEOREM RecoveryAlwaysSucceeds ==
  ASSUME "undone" \notin StopAt
  PROVE  Spec => []RecoverySucceeds
<1>1. GenerationInv => RecoverySucceeds
  BY UndoneIsClean DEF RecoverySucceeds, Clean, Verified, Generations, Present, Was
<1> QED
  BY <1>1, GenerationInvariant, PTL

\* What a step shows: a commit, or nothing.
LEMMA GenerationStepShows ==
  ASSUME GenerationInv, GenerationInv', [Next]_vars
  PROVE  LET Shown(p) == IF Settled THEN Generations(p) ELSE before[p]
         IN  \/ \A p \in Pair : Shown(p)' = Shown(p)
             \/ \E g \in Gen : \A p \in Pair :
                    Shown(p)' = [active |-> g, backup |-> Shown(p).active]
             \/ \A p \in Pair :
                    Shown(p)' = [active |-> Shown(p).backup, backup |-> Shown(p).active]
<1> DEFINE Shown(p) == IF Settled THEN Generations(p) ELSE before[p]
<1>0. TypeOK /\ TypeOK'
  BY DEF GenerationInv
<1>1. CASE Commit
  <2>1. ~Settled /\ Settled' /\ \A p \in Pair : After(p, 5)
    BY <1>1 DEF Commit, Settled, GenerationInv, PhaseInv, ApplyInv
  <2>2. \A p \in Pair : Shown(p) = before[p] /\ Shown(p)' = Generations(p)
    BY <1>1, <2>1 DEF Commit, Generations
  <2>3. CASE mode = "install"
    <3>1. gens \in Gen
      BY <1>1, <2>3 DEF Commit, GenerationInv, PhaseInv
    <3>2. \A p \in Pair : Generations(p) = [active |-> gens, backup |-> before[p].active]
      BY <2>1, <2>3 DEF After, AfterInstall, Generations
    <3> QED
      BY <2>2, <3>1, <3>2
  <2>4. CASE mode = "rollback"
    <3>1. \A p \in Pair : Generations(p) = [active |-> before[p].backup, backup |-> before[p].active]
      BY <2>1, <2>4 DEF After, AfterRollback, Generations
    <3> QED
      BY <2>2, <3>1
  <2> QED
    BY <1>0, <2>3, <2>4 DEF TypeOK, Mode
<1>2. CASE RolledBack
  <2>1. ~Settled /\ Settled' /\ UNCHANGED at
    BY <1>2 DEF RolledBack, Settled, GenerationInv, PhaseInv
  <2>2. \A p \in Pair : p = pair \/ p \in Above(pair)
    BY <1>2, PlanOrder DEF RolledBack, GenerationInv, PhaseInv
  <2>3. \A p \in Pair : Generations(p) = before[p]
    BY <1>2, <2>2 DEF RolledBack, GenerationInv, UndoInv, Clean
  <2> QED
    BY <2>1, <2>3 DEF Generations
<1>3. ASSUME ~Settled, ~Settled', UNCHANGED before
      PROVE  \A p \in Pair : Shown(p)' = Shown(p)
  BY <1>3
<1>4. ASSUME Settled, Settled', \A p \in Pair : Generations(p)' = Generations(p)
      PROVE  \A p \in Pair : Shown(p)' = Shown(p)
  BY <1>4
<1>5. CASE BeginInstall \/ BeginRollback
  BY <1>5 DEF BeginInstall, BeginRollback, PlanOf, Settled, Generations
<1>6. CASE StageGeneration
  <2>1. Settled /\ Settled'
    BY <1>6 DEF StageGeneration, Settled, journalVars
  <2>2. \A p \in Pair : Generations(p)' = Generations(p)
    BY <1>0, <1>6 DEF StageGeneration, Generations, TypeOK, Place
  <2> QED
    BY <1>4, <2>1, <2>2
<1>7. CASE CleanDone
  <2>1. Settled /\ Settled' /\ UNCHANGED at
    BY <1>7 DEF CleanDone, Settled, GenerationInv, PhaseInv
  <2> QED
    BY <1>4, <2>1 DEF Generations
<1>8. ASSUME NEW l \in Place, RemoveSpare(l) PROVE \A p \in Pair : Shown(p)' = Shown(p)
  <2>1. \A p \in Pair : Generations(p)' = Generations(p)
    BY <1>0, <1>8 DEF RemoveSpare, Left, Spare, Generations, TypeOK, Place
  <2>2. Settled' = Settled /\ UNCHANGED before
    BY <1>8 DEF RemoveSpare, Settled, journalVars
  <2> QED
    BY <2>1, <2>2
<1>9. ASSUME NEW p \in Pair, BeginRename(p) \/ DoRename(p) \/ RenameDone(p)
      PROVE  \A q \in Pair : Shown(q)' = Shown(q)
  BY <1>3, <1>9 DEF BeginRename, DoRename, RenameDone, GenerationInv, PhaseInv, Settled, journalVars
<1>10. ASSUME NEW k \in Op, UndoRename(k) PROVE \A p \in Pair : Shown(p)' = Shown(p)
  BY <1>3, <1>10 DEF UndoRename, GenerationInv, PhaseInv, Settled, journalVars
<1>11. CASE UndoSaved
  BY <1>3, <1>11 DEF UndoSaved, GenerationInv, PhaseInv, Settled
<1>12. CASE Applied \/ ResumeCleanup \/ CleanNext \/ StartRecovery \/ PairRecovered \/ RecoverNext \/ Stop \/ UNCHANGED vars
  <2>1. UNCHANGED <<at, journal, phase, before>>
    BY <1>12 DEF Applied, ResumeCleanup, CleanNext, StartRecovery, PairRecovered,
       RecoverNext, Stop, vars, journalVars
  <2> QED
    BY <2>1 DEF Settled, Generations
<1>13. CASE Next
  BY ONLY <1>13, <1>1, <1>2, <1>5, <1>6, <1>7, <1>8, <1>9, <1>10, <1>11, <1>12 DEF Next
<1> QED
  BY <1>12, <1>13

\* Whatever a call or its recovery is stopped at, generations change as a whole and
\* by committed transactions only.
THEOREM GenerationsAreAtomic ==
  ASSUME "undone" \notin StopAt
  PROVE  Spec => ImplementsAtomicGenerations
<1> DEFINE Seen == [p \in Pair |-> IF Settled THEN Generations(p) ELSE before[p]]
<1>1. Init => Abstract!Init
  BY DEF Init, Abstract!Init, Abstract!Nothing, Settled, Generations, Empty, Place
<1>2. GenerationInv /\ GenerationInv' /\ [Next]_vars => [Abstract!Next]_Seen
  <2> SUFFICES ASSUME GenerationInv, GenerationInv', [Next]_vars
               PROVE  [Abstract!Next]_Seen
    OBVIOUS
  <2> QED
    BY GenerationStepShows DEF Abstract!Next, Abstract!Install, Abstract!Rollback
<1> QED
  BY <1>1, <1>2, GenerationInvariant, PTL
     DEF Spec, ImplementsAtomicGenerations, Abstract!Spec

\* Active and previous generation are one each over all artifacts: outside a transaction
\* the menu bar app, its stamp, action script and launch agent belong together.
OneGeneration == Settled => \A p, q \in Pair : Generations(p) = Generations(q)

Shows(p) == IF Settled THEN Generations(p) ELSE before[p]
ShowsOne == \A p, q \in Pair : Shows(p) = Shows(q)

\* Artifacts of different generations are never left beside each other, wherever an
\* installation, a rollback or a recovery is stopped.
THEOREM ArtifactsBelongTogether ==
  ASSUME "undone" \notin StopAt
  PROVE  Spec => []OneGeneration
<1>1. Init => ShowsOne
  BY DEF Init, ShowsOne, Shows, Settled, Generations, Empty, Place
<1>2. GenerationInv /\ GenerationInv' /\ ShowsOne /\ [Next]_vars => ShowsOne'
  <2> SUFFICES ASSUME GenerationInv, GenerationInv', ShowsOne, [Next]_vars
               PROVE  ShowsOne'
    OBVIOUS
  <2>1. \/ \A p \in Pair : Shows(p)' = Shows(p)
        \/ \E g \in Gen : \A p \in Pair : Shows(p)' = [active |-> g, backup |-> Shows(p).active]
        \/ \A p \in Pair : Shows(p)' = [active |-> Shows(p).backup, backup |-> Shows(p).active]
    BY GenerationStepShows DEF Shows
  <2> HIDE DEF Shows
  <2>2. \A p, q \in Pair : Shows(p) = Shows(q)
    BY DEF ShowsOne
  <2>3. \A p, q \in Pair : Shows(p)' = Shows(q)'
    BY <2>1, <2>2
  <2> QED
    BY <2>3 DEF ShowsOne
<1>3. ShowsOne => OneGeneration
  BY DEF ShowsOne, Shows, OneGeneration
<1> QED
  BY <1>1, <1>2, <1>3, GenerationInvariant, PTL DEF Spec
=============================================================================
