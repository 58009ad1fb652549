----------------------- MODULE GenerationStoreProofs -----------------------
(***************************************************************************)
(* Theorems about GenerationStore, for any compilers, snapshots and        *)
(* inputs, wherever compilers are killed and whatever file operation       *)
(* fails:                                                                  *)
(*                                                                         *)
(*   StoreTypes        the type invariant, with nothing assumed;           *)
(*   PointerIsServed   the pointer names an index that is there;           *)
(*   PreviousIsKept    so does the previous generation it names;           *)
(*   UpdatesAreKept    no publication overwrites a pointer it did not      *)
(*                     begin from;                                         *)
(*   RecoveryIsReadable  after a recovery readers accept the pointer;      *)
(*   OperationsEndTidy   an operation leaves two generations, no temps.    *)
(*                                                                         *)
(* All but the first need Guarded: without it, of two compilers that begin *)
(* together the later one overwrites the pointer of the earlier.           *)
(* RecoveryIsReadable needs OneSource as well.                             *)
(***************************************************************************)
EXTENDS GenerationStore, TLAPS

USE InputAssumption, MaxOpsAssumption, GuardedAssumption, NoneAssumption

-----------------------------------------------------------------------------
(***************************************************************************)
(* Types                                                                   *)
(***************************************************************************)
\* A compiler inside an operation carries a journal.
Carrying ==
    \A c \in Compiler :
        /\ pc[c] \notin {"idle", "begin", "open", "reconcile"} => now[c] \in Journal
        /\ pc[c] = "reconcile" /\ mode[c] = "resume" => now[c] \in Journal
        /\ pc[c] \in InTry \cup {"begin", "open"} => job[c] \in Journal

TypeInv == TypeOK /\ Carrying

\* A journal with another phase is a journal of the same operation.
LEMMA PhaseOfJournal ==
    ASSUME NEW j \in Journal, NEW p \in Phase
    PROVE  [j EXCEPT !.phase = p] \in Journal /\ [j EXCEPT !.phase = p].id = j.id
BY DEF Journal

\* The meta a promotion writes (generation-commit.ts) is an entry of the store.
LEMMA MetaIsEntry ==
    ASSUME TypeOK, NEW c \in Compiler, now[c] \in Journal
    PROVE  Meta(c) \in Entry
BY DEF TypeOK, Meta, Id, PrevOf, SnapOf, Entry, Journal, OpId

\* An empty store, and no compiler at work.
LEMMA TypeInit == Init => TypeInv
BY DEF Init, TypeInv, TypeOK, Carrying, PCs, InTry

\* No step, kill or failure breaks the types or loses the journal a compiler carries.
LEMMA TypeStep == TypeInv /\ [Next]_vars => TypeInv'
<1> SUFFICES ASSUME TypeInv, [Next]_vars PROVE TypeInv'
  OBVIOUS
<1> USE DEF TypeInv, Carrying, vars, disk, Goto, Carry, See, At, Step, Leave, Stay, PCs, InTry
<1>1. CASE UNCHANGED vars
  BY <1>1 DEF TypeOK
<1>2. ASSUME NEW c \in Compiler, Begin(c) PROVE TypeInv'
  <2>1. \A in \in Input : [id |-> [base |-> SnapOf(pointer), target |-> in[1], source |-> in[2]],
                           phase |-> "prepared"] \in Journal
    BY DEF TypeOK, Journal, OpId, Phase, SnapOf, Entry
  <2> QED
    BY <1>2, <2>1 DEF Begin, TypeOK
<1>3. ASSUME NEW c \in Compiler, ReadJournal(c) PROVE TypeInv'
  BY <1>3 DEF ReadJournal, TypeOK
<1>4. ASSUME NEW c \in Compiler, OpenJournal(c) PROVE TypeInv'
  BY <1>4 DEF OpenJournal, TypeOK
<1>5. ASSUME NEW c \in Compiler, WriteTemp(c) PROVE TypeInv'
  BY <1>5 DEF WriteTemp, Abandon, Id, TypeOK, Journal
<1>6. ASSUME NEW c \in Compiler, VerifyStaged(c) \/ VerifyAgain(c) PROVE TypeInv'
  BY <1>6 DEF VerifyStaged, VerifyAgain, VerifyTemp, Abandon, TypeOK
<1>7. ASSUME NEW c \in Compiler, JournalIndexed(c) \/ JournalAlready(c) PROVE TypeInv'
  <2>1. \A p \in Phase : [now[c] EXCEPT !.phase = p] \in Journal
    BY <1>7, PhaseOfJournal DEF JournalIndexed, JournalAlready
  <2> QED
    BY <1>7, <2>1 DEF JournalIndexed, JournalAlready, WriteJournal, TypeOK, Phase
<1>8. ASSUME NEW c \in Compiler, ReadCurrent(c) \/ AlreadyCurrent(c) PROVE TypeInv'
  BY <1>8 DEF ReadCurrent, AlreadyCurrent, Abandon, TypeOK
<1>9. ASSUME NEW c \in Compiler, CheckBase(c) \/ CheckBaseAgain(c) \/ Refuse(c) PROVE TypeInv'
  BY <1>9 DEF CheckBase, CheckBaseAgain, Refuse, Abandon, TypeOK
<1>10. ASSUME NEW c \in Compiler, RenameTemp(c) PROVE TypeInv'
  BY <1>10 DEF RenameTemp, Abandon, Id, TypeOK, Journal, OpId
<1>11. ASSUME NEW c \in Compiler, WriteSidecar(c) PROVE TypeInv'
  BY <1>11, MetaIsEntry DEF WriteSidecar, TypeOK
<1>12. ASSUME NEW c \in Compiler, WriteMirror(c) PROVE TypeInv'
  BY <1>12, MetaIsEntry DEF WriteMirror, TypeOK
<1>13. ASSUME NEW c \in Compiler, ReplacePointer(c) PROVE TypeInv'
  BY <1>13, MetaIsEntry DEF ReplacePointer, TypeOK
<1>14. ASSUME NEW c \in Compiler, JournalCommitted(c) \/ JournalCleaned(c) PROVE TypeInv'
  <2>1. \A p \in Phase : [now[c] EXCEPT !.phase = p] \in Journal
    BY <1>14, PhaseOfJournal DEF JournalCommitted, JournalCleaned
  <2> QED
    BY <1>14, <2>1 DEF JournalCommitted, JournalCleaned, TypeOK, Phase
<1>15. ASSUME NEW c \in Compiler, RereadJournal(c) \/ ReadKeep(c) PROVE TypeInv'
  BY <1>15 DEF RereadJournal, ReadKeep, TypeOK
<1>16. ASSUME NEW c \in Compiler, RemoveTemp(c) \/ DropTemp(c) \/ DropJournal(c) PROVE TypeInv'
  BY <1>16 DEF RemoveTemp, DropTemp, DropJournal, TypeOK
<1>17. ASSUME NEW c \in Compiler, Prune(c) PROVE TypeInv'
  BY <1>17 DEF Prune, TypeOK
<1>18. ASSUME NEW c \in Compiler, CloseJournal(c) \/ Crash(c) PROVE TypeInv'
  BY <1>18 DEF CloseJournal, Crash, TypeOK
<1>19. ASSUME NEW c \in Compiler, Recover(c) PROVE TypeInv'
  BY <1>19 DEF Recover, TypeOK
<1>20. ASSUME NEW c \in Compiler, Reconcile(c) PROVE TypeInv'
  <2>1. MirrorRestored \in Entry \cup {None}
    BY DEF MirrorRestored, TypeOK, SnapOf, Entry
  <2> QED
    BY <1>20, <2>1 DEF Reconcile, TypeOK
<1> QED
  BY <1>1, <1>2, <1>3, <1>4, <1>5, <1>6, <1>7, <1>8, <1>9, <1>10, <1>11, <1>12, <1>13,
     <1>14, <1>15, <1>16, <1>17, <1>18, <1>19, <1>20 DEF Next

\* Types, wherever a compiler is killed and whatever fails.
THEOREM StoreTypes == Spec => []TypeOK
<1>1. TypeInv => TypeOK
  BY DEF TypeInv
<1> QED
  BY <1>1, TypeInit, TypeStep, PTL DEF Spec

-----------------------------------------------------------------------------
(***************************************************************************)
(* One operation at a time, when begins do not overlap                     *)
(***************************************************************************)
\* Whoever has read that there is no journal, or has one, is alone: others are
\* idle or about to find the journal.  A recovery has the store to itself.
Exclusive ==
    \A c, d \in Compiler : c # d =>
        /\ pc[c] \in {"begin", "open"} => pc[d] \notin {"begin", "open"}
        /\ pc[c] \notin {"idle", "begin"} => pc[d] \in {"idle", "begin"}
        /\ mode[c] # "publish" => pc[d] = "idle"

\* The journal is there from its opening to its close.
JournalHeld ==
    \A c \in Compiler :
        /\ pc[c] \notin {"idle", "begin", "open"} /\ mode[c] = "publish" => journal # None
        /\ pc[c] \in {"idle", "begin", "open"} => mode[c] = "publish"
        /\ pc[c] \in {"drop", "unjournal"} => mode[c] = "discard"

\* The pointer is as the operation has read it, and what it is to name is there.
Building ==
    \A c \in Compiler :
        /\ pc[c] \in {"rename", "sidecar", "mirror", "publish", "point"} =>
              seen[c] = pointer /\ SnapOf(pointer) = Id(c).base
        /\ pc[c] \in {"sidecar", "mirror", "publish", "point"} => Id(c).target \in gens
        /\ pc[c] \in {"mirror", "publish", "point"} => sidecar[Id(c).target] # None
        /\ pc[c] = "prune" => seen[c] = pointer

StoreInv ==
    TypeInv /\ Exclusive /\ JournalHeld /\ Building /\ PointerServes /\ PreviousKept

\* In an empty store there is nothing to serve or keep.
LEMMA StoreInit == Init => StoreInv
BY TypeInit DEF Init, StoreInv, Exclusive, JournalHeld, Building, PointerServes, PreviousKept

\* While begins do not overlap, one compiler works at a time and the journal is its own.
LEMMA ExclusiveStep ==
    ASSUME Guarded, StoreInv, [Next]_vars
    PROVE  Exclusive' /\ JournalHeld'
<1> USE DEF StoreInv, TypeInv, Carrying, Exclusive, JournalHeld, vars, disk, Goto, Carry, See,
            At, Step, Leave, Stay, InTry, Abandon
<1> DEFINE Goal == Exclusive' /\ JournalHeld'
<1> SUFFICES Goal
  OBVIOUS
<1>1. CASE UNCHANGED vars
  BY <1>1
<1>2. ASSUME NEW c \in Compiler, Begin(c) PROVE Goal
  BY <1>2 DEF Begin, NobodyElse, Recovering, PCs, TypeOK
<1>3. ASSUME NEW c \in Compiler, ReadJournal(c) PROVE Goal
  BY <1>3 DEF ReadJournal, NobodyElse, TypeOK, PCs
<1>4. ASSUME NEW c \in Compiler, OpenJournal(c) PROVE Goal
  BY <1>4 DEF OpenJournal, TypeOK
<1>5. ASSUME NEW c \in Compiler, WriteTemp(c) \/ RenameTemp(c) PROVE Goal
  BY <1>5 DEF WriteTemp, RenameTemp, TypeOK
<1>6. ASSUME NEW c \in Compiler, VerifyStaged(c) \/ VerifyAgain(c) PROVE Goal
  BY <1>6 DEF VerifyStaged, VerifyAgain, VerifyTemp, TypeOK
<1>7. ASSUME NEW c \in Compiler,
             JournalIndexed(c) \/ JournalAlready(c) \/ JournalCommitted(c) \/ JournalCleaned(c)
      PROVE  Goal
  <2>1. \A p \in Phase : [now[c] EXCEPT !.phase = p] \in Journal
    BY <1>7, PhaseOfJournal DEF JournalIndexed, JournalAlready, JournalCommitted, JournalCleaned
  <2> QED
    BY SMTT(30), <1>7, <2>1 DEF JournalIndexed, JournalAlready, JournalCommitted, JournalCleaned,
                      WriteJournal, TypeOK, Phase
<1>8. ASSUME NEW c \in Compiler, ReadCurrent(c) \/ AlreadyCurrent(c) PROVE Goal
  BY <1>8 DEF ReadCurrent, AlreadyCurrent, TypeOK
<1>9. ASSUME NEW c \in Compiler, CheckBase(c) \/ CheckBaseAgain(c) \/ Refuse(c) PROVE Goal
  BY <1>9 DEF CheckBase, CheckBaseAgain, Refuse, TypeOK
<1>10. ASSUME NEW c \in Compiler, WriteSidecar(c) \/ WriteMirror(c) \/ ReplacePointer(c) PROVE Goal
  BY <1>10 DEF WriteSidecar, WriteMirror, ReplacePointer, TypeOK
<1>11. ASSUME NEW c \in Compiler, RereadJournal(c) \/ RemoveTemp(c) \/ ReadKeep(c) PROVE Goal
  BY <1>11 DEF RereadJournal, RemoveTemp, ReadKeep, TypeOK
<1>12. ASSUME NEW c \in Compiler, Prune(c) \/ CloseJournal(c) \/ Crash(c) PROVE Goal
  BY <1>12 DEF Prune, CloseJournal, Crash, TypeOK
<1>13. ASSUME NEW c \in Compiler, Recover(c) PROVE Goal
  BY <1>13 DEF Recover, TypeOK
<1>14. ASSUME NEW c \in Compiler, DropTemp(c) PROVE Goal
  BY <1>14 DEF DropTemp, TypeOK
<1>15. ASSUME NEW c \in Compiler, DropJournal(c) PROVE Goal
  BY <1>15 DEF DropJournal, TypeOK
<1>16. ASSUME NEW c \in Compiler, Reconcile(c) PROVE Goal
  BY <1>16 DEF Reconcile, TypeOK
<1> QED
  BY <1>1, <1>2, <1>3, <1>4, <1>5, <1>6, <1>7, <1>8, <1>9, <1>10, <1>11, <1>12, <1>13,
     <1>14, <1>15, <1>16 DEF Next

\* What a publication has written so far is there when it goes on, and what the
\* pointer names is never removed.
LEMMA BuildingStep ==
    ASSUME StoreInv, TypeInv', Exclusive', [Next]_vars
    PROVE  Building' /\ PointerServes' /\ PreviousKept'
<1> USE DEF StoreInv, TypeInv, Carrying, Exclusive, Building, PointerServes, PreviousKept, vars,
            disk, Goto, Carry, See, At, Step, Leave, Stay, InTry, Abandon, Id
<1> DEFINE Goal == Building' /\ PointerServes' /\ PreviousKept'
<1> SUFFICES Goal
  OBVIOUS
<1>1. CASE UNCHANGED vars
  BY <1>1
<1>2. ASSUME NEW c \in Compiler, Begin(c) \/ ReadJournal(c) \/ OpenJournal(c) PROVE Goal
  BY <1>2 DEF Begin, ReadJournal, OpenJournal, TypeOK
<1>3. ASSUME NEW c \in Compiler, WriteTemp(c) PROVE Goal
  BY <1>3 DEF WriteTemp, TypeOK
<1>4. ASSUME NEW c \in Compiler, VerifyStaged(c) \/ VerifyAgain(c) PROVE Goal
  BY <1>4 DEF VerifyStaged, VerifyAgain, VerifyTemp, TypeOK
<1>5. ASSUME NEW c \in Compiler,
             JournalIndexed(c) \/ JournalAlready(c) \/ JournalCommitted(c) \/ JournalCleaned(c)
      PROVE  Goal
  BY <1>5 DEF JournalIndexed, JournalAlready, JournalCommitted, JournalCleaned, WriteJournal, TypeOK
<1>6. ASSUME NEW c \in Compiler, ReadCurrent(c) \/ AlreadyCurrent(c) PROVE Goal
  BY <1>6 DEF ReadCurrent, AlreadyCurrent, TypeOK
<1>7. ASSUME NEW c \in Compiler, CheckBase(c) PROVE Goal
  BY <1>7 DEF CheckBase, BaseUnchanged, TypeOK
<1>8. ASSUME NEW c \in Compiler, CheckBaseAgain(c) \/ Refuse(c) PROVE Goal
  BY <1>8 DEF CheckBaseAgain, Refuse, TypeOK
<1>9. ASSUME NEW c \in Compiler, RenameTemp(c) PROVE Goal
  BY <1>9 DEF RenameTemp, TypeOK
<1>10. ASSUME NEW c \in Compiler, WriteSidecar(c) PROVE Goal
  BY <1>10, MetaIsEntry DEF WriteSidecar, TypeOK, Journal, OpId
<1>11. ASSUME NEW c \in Compiler, WriteMirror(c) PROVE Goal
  BY <1>11 DEF WriteMirror, TypeOK
<1>12. ASSUME NEW c \in Compiler, ReplacePointer(c) PROVE Goal
  <2>1. /\ Meta(c) \in Entry
        /\ Meta(c).snap = Id(c).target
        /\ Meta(c).prev = PrevOf(pointer, Id(c).target)
    BY <1>12, MetaIsEntry DEF ReplacePointer, Meta, TypeOK
  <2>2. Meta(c).prev # None => Meta(c).prev \in gens
    BY <2>1 DEF PrevOf, SnapOf
  <2>3. PointerServes' /\ PreviousKept'
    BY <1>12, <2>1, <2>2 DEF ReplacePointer
  <2>4. Building'
    BY <1>12 DEF ReplacePointer, TypeOK
  <2> QED
    BY <2>3, <2>4
<1>13. ASSUME NEW c \in Compiler, RereadJournal(c) \/ RemoveTemp(c) \/ ReadKeep(c) PROVE Goal
  BY <1>13 DEF RereadJournal, RemoveTemp, ReadKeep, TypeOK
<1>14. ASSUME NEW c \in Compiler, Prune(c) PROVE Goal
  <2>1. \A d \in Compiler : d # c => pc[d] \in {"idle", "begin"} /\ pc'[d] = pc[d]
    BY <1>14 DEF Prune, TypeOK
  <2>2. pc'[c] \in {"close", "reconcile"}
    BY <1>14 DEF Prune, TypeOK
  <2>3. Building'
    BY <2>1, <2>2
  <2>4. PointerServes' /\ PreviousKept'
    BY <1>14 DEF Prune, Kept, TypeOK, Entry
  <2> QED
    BY <2>3, <2>4
<1>15. ASSUME NEW c \in Compiler, CloseJournal(c) \/ Crash(c) \/ Reconcile(c) PROVE Goal
  BY <1>15 DEF CloseJournal, Crash, Reconcile, TypeOK
<1>16. ASSUME NEW c \in Compiler, Recover(c) \/ DropTemp(c) \/ DropJournal(c) PROVE Goal
  BY <1>16 DEF Recover, DropTemp, DropJournal, TypeOK
<1> QED
  BY <1>1, <1>2, <1>3, <1>4, <1>5, <1>6, <1>7, <1>8, <1>9, <1>10, <1>11, <1>12, <1>13,
     <1>14, <1>15, <1>16 DEF Next

-----------------------------------------------------------------------------
\* The invariant of the store holds in every state, when begins do not overlap.
LEMMA StoreInvariant == ASSUME Guarded PROVE Spec => []StoreInv
<1>1. StoreInv /\ [Next]_vars => StoreInv'
  <2> SUFFICES ASSUME StoreInv, [Next]_vars PROVE StoreInv'
    OBVIOUS
  <2>1. TypeInv'
    BY TypeStep DEF StoreInv
  <2>2. Exclusive' /\ JournalHeld'
    BY ExclusiveStep
  <2> QED
    BY <2>1, <2>2, BuildingStep DEF StoreInv
<1> QED
  BY <1>1, StoreInit, PTL DEF Spec

\* Readers that follow the pointer find the index and the sidecar it names,
\* whatever is pruned, abandoned, killed or recovered.
THEOREM PointerIsServed == ASSUME Guarded PROVE Spec => []PointerServes
<1>1. StoreInv => PointerServes
  BY DEF StoreInv
<1> QED
  BY <1>1, StoreInvariant, PTL

\* Pruning never takes the previous generation the pointer names.
THEOREM PreviousIsKept == ASSUME Guarded PROVE Spec => []PreviousKept
<1>1. StoreInv => PreviousKept
  BY DEF StoreInv
<1> QED
  BY <1>1, StoreInvariant, PTL

\* The pointer is replaced only by an operation that began from it.
THEOREM UpdatesAreKept == ASSUME Guarded PROVE Spec => NoLostUpdate
<1>1. StoreInv => \A c \in Compiler : ReplacePointer(c) =>
            /\ SnapOf(pointer) = Id(c).base
            /\ pointer'.prev = PrevOf(pointer, pointer'.snap)
  BY DEF StoreInv, Building, ReplacePointer, Step, At, Meta
<1> QED
  BY <1>1, StoreInvariant, PTL DEF NoLostUpdate

-----------------------------------------------------------------------------
(***************************************************************************)
(* What a recovery gives to readers                                        *)
(***************************************************************************)
\* No snapshot hash comes from two sources.
OneSource == \A in, other \in Input : in[1] = other[1] => in[2] = other[2]

IdFromInput(id) == <<id.target, id.source>> \in Input

EntryFromInput(entry) == <<entry.snap, entry.source>> \in Input

\* Whatever pointer, metas and journals say was published by somebody, and a
\* sidecar is about the generation it lies beside.
FromInput ==
    /\ pointer # None => EntryFromInput(pointer)
    /\ mirror # None => EntryFromInput(mirror)
    /\ \A s \in Snap : sidecar[s] # None => sidecar[s].snap = s /\ EntryFromInput(sidecar[s])
    /\ journal # None => IdFromInput(journal.id)
    /\ \A c \in Compiler :
        /\ now[c] # None => IdFromInput(now[c].id)
        /\ job[c] # None => IdFromInput(job[c].id)

(***************************************************************************)
(* What an operation leaves                                                *)
(***************************************************************************)
\* Between the opening of the journal and its close.
Working(c) == pc[c] \notin {"idle", "begin", "open", "reconcile"}

\* A recovery that found a journal and has done with it.
Recovered(c) == pc[c] = "reconcile" /\ mode[c] # "resume" /\ now[c] # None

\* The journal is that of the operation at work, and the only temporary index is its own.
OwnJournal ==
    /\ \A t \in temps : journal # None /\ t = journal.id
    /\ \A c \in Compiler :
        /\ pc[c] = "open" => journal = None
        /\ Working(c) /\ journal # None => now[c].id = journal.id
        /\ pc[c] = "reconcile" /\ mode[c] = "resume" => journal # None /\ now[c].id = journal.id
        /\ Working(c) /\ journal = None => mode[c] = "discard" /\ pc[c] \in {"keep", "prune"}
        /\ pc[c] \in InTry => job[c].id = now[c].id

\* The temporary index goes first, then what is neither current nor previous.
Tidied ==
    \A c \in Compiler :
        /\ pc[c] \in {"unjournal", "keep", "prune", "close"} \/ Recovered(c) => temps = {}
        /\ pc[c] = "close" \/ Recovered(c) => gens \subseteq Kept(pointer)

TidyInv == OwnJournal /\ Tidied

\* In an empty store nothing has been published and nothing is left over.
LEMMA TidyInit == Init => FromInput /\ TidyInv
BY DEF Init, FromInput, TidyInv, OwnJournal, Tidied, Working, Recovered, InTry

\* A promotion records what its journal says, and the journal says what was published.
LEMMA InputStep == TypeInv /\ FromInput /\ [Next]_vars => FromInput'
<1> SUFFICES ASSUME TypeInv, FromInput, [Next]_vars PROVE FromInput'
  OBVIOUS
<1> USE DEF FromInput, TypeInv, Carrying, vars, disk, Goto, Carry, See, At, Step, Leave, Stay,
            InTry, Abandon, Id
<1>1. CASE UNCHANGED vars
  BY <1>1
<1>2. ASSUME NEW c \in Compiler, Begin(c) PROVE FromInput'
  <2>1. PICK in \in Input :
          job' = [job EXCEPT ![c] =
                    [id |-> [base |-> SnapOf(pointer), target |-> in[1], source |-> in[2]],
                     phase |-> "prepared"]]
    BY <1>2 DEF Begin
  <2>2. in = <<in[1], in[2]>>
    BY <2>1
  <2>3. \A d \in Compiler : job'[d] # None => IdFromInput(job'[d].id)
    BY <2>1, <2>2 DEF IdFromInput, TypeOK
  <2> QED
    BY <1>2, <2>3 DEF Begin
<1>3. ASSUME NEW c \in Compiler, ReadJournal(c) PROVE FromInput'
  <2>1. UNCHANGED <<pointer, mirror, sidecar, journal>>
    BY <1>3 DEF ReadJournal
  <2>2. \A d \in Compiler : /\ job'[d] \in {job[d], journal, None}
                            /\ now'[d] \in {now[d], journal, None}
    BY <1>3 DEF ReadJournal, TypeOK
  <2> QED
    BY <2>1, <2>2
<1>4. ASSUME NEW c \in Compiler, OpenJournal(c) PROVE FromInput'
  BY <1>4 DEF OpenJournal, TypeOK
<1>5. ASSUME NEW c \in Compiler, WriteTemp(c) \/ RenameTemp(c) PROVE FromInput'
  BY <1>5 DEF WriteTemp, RenameTemp, TypeOK
<1>6. ASSUME NEW c \in Compiler, VerifyStaged(c) \/ VerifyAgain(c) PROVE FromInput'
  BY <1>6 DEF VerifyStaged, VerifyAgain, VerifyTemp, TypeOK
<1>7. ASSUME NEW c \in Compiler,
             JournalIndexed(c) \/ JournalAlready(c) \/ JournalCommitted(c) \/ JournalCleaned(c)
      PROVE  FromInput'
  <2>1. \A p \in Phase : /\ [now[c] EXCEPT !.phase = p] \in Journal
                         /\ [now[c] EXCEPT !.phase = p].id = now[c].id
    BY <1>7, PhaseOfJournal DEF JournalIndexed, JournalAlready, JournalCommitted, JournalCleaned
  <2>2. now[c] \in Journal /\ IdFromInput(now[c].id)
    BY <1>7 DEF JournalIndexed, JournalAlready, JournalCommitted, JournalCleaned
  <2>3. PICK p \in Phase :
          /\ journal' \in {journal, [now[c] EXCEPT !.phase = p]}
          /\ now' \in {now, [now EXCEPT ![c] = [now[c] EXCEPT !.phase = p]]}
    BY <1>7 DEF JournalIndexed, JournalAlready, JournalCommitted, JournalCleaned, WriteJournal,
                TypeOK, Phase
  <2>4. UNCHANGED <<pointer, mirror, sidecar, job>>
    BY <1>7 DEF JournalIndexed, JournalAlready, JournalCommitted, JournalCleaned, WriteJournal
  <2>5. journal' # None => IdFromInput(journal'.id)
    BY <2>1, <2>2, <2>3
  <2>6. \A d \in Compiler : now'[d] # None => IdFromInput(now'[d].id)
    BY <2>1, <2>2, <2>3 DEF TypeOK
  <2> QED
    BY <2>4, <2>5, <2>6
<1>8. ASSUME NEW c \in Compiler, ReadCurrent(c) \/ AlreadyCurrent(c) PROVE FromInput'
  BY <1>8 DEF ReadCurrent, AlreadyCurrent, TypeOK
<1>9. ASSUME NEW c \in Compiler, CheckBase(c) \/ CheckBaseAgain(c) \/ Refuse(c) PROVE FromInput'
  BY <1>9 DEF CheckBase, CheckBaseAgain, Refuse, TypeOK
<1>10. ASSUME NEW c \in Compiler, WriteSidecar(c) \/ WriteMirror(c) \/ ReplacePointer(c)
       PROVE  FromInput'
  <2>1. now[c] \in Journal /\ Meta(c).snap = Id(c).target /\ Meta(c).source = Id(c).source
    BY <1>10 DEF WriteSidecar, WriteMirror, ReplacePointer, Meta
  <2>2. Id(c).target \in Snap /\ EntryFromInput(Meta(c))
    BY <2>1 DEF Journal, OpId, IdFromInput, EntryFromInput
  <2> QED
    BY <1>10, <2>1, <2>2 DEF WriteSidecar, WriteMirror, ReplacePointer, TypeOK
<1>11. ASSUME NEW c \in Compiler, RereadJournal(c) \/ RemoveTemp(c) \/ ReadKeep(c) PROVE FromInput'
  BY <1>11 DEF RereadJournal, RemoveTemp, ReadKeep, TypeOK
<1>12. ASSUME NEW c \in Compiler, Prune(c) PROVE FromInput'
  BY <1>12 DEF Prune, TypeOK
<1>13. ASSUME NEW c \in Compiler, CloseJournal(c) \/ Crash(c) PROVE FromInput'
  BY <1>13 DEF CloseJournal, Crash, TypeOK
<1>14. ASSUME NEW c \in Compiler, Recover(c) \/ DropTemp(c) \/ DropJournal(c) PROVE FromInput'
  BY <1>14 DEF Recover, DropTemp, DropJournal, TypeOK
<1>15. ASSUME NEW c \in Compiler, Reconcile(c) PROVE FromInput'
  <2>1. pointer # None => pointer.snap \in Snap
    BY DEF TypeOK, Entry
  <2>2. MirrorRestored # None => EntryFromInput(MirrorRestored)
    BY <2>1 DEF MirrorRestored
  <2> QED
    BY <1>15, <2>2 DEF Reconcile, TypeOK
<1> QED
  BY <1>1, <1>2, <1>3, <1>4, <1>5, <1>6, <1>7, <1>8, <1>9, <1>10, <1>11, <1>12, <1>13,
     <1>14, <1>15 DEF Next

\* What recovery writes to the mirror agrees with the pointer: either the mirror was of
\* the pointer's snapshot, and so of its source, or the sidecar of that snapshot is.
LEMMA RestoredAgrees ==
    ASSUME OneSource, StoreInv, FromInput, pointer # None
    PROVE  Agree(pointer, MirrorRestored)
<1>1. pointer \in Entry /\ pointer.snap \in Snap /\ EntryFromInput(pointer)
  BY DEF StoreInv, TypeInv, TypeOK, Entry, FromInput
<1>2. \A e \in Entry : e.snap = pointer.snap /\ EntryFromInput(e) => e.source = pointer.source
  BY <1>1 DEF OneSource, EntryFromInput
<1>3. sidecar[pointer.snap] # None /\ sidecar[pointer.snap] \in Entry
  BY <1>1 DEF StoreInv, TypeInv, TypeOK, PointerServes
<1>4. sidecar[pointer.snap].snap = pointer.snap /\ EntryFromInput(sidecar[pointer.snap])
  BY <1>1, <1>3 DEF FromInput
<1>5. CASE SnapOf(mirror) # pointer.snap
  BY <1>2, <1>3, <1>4, <1>5 DEF MirrorRestored, Agree
<1>6. CASE SnapOf(mirror) = pointer.snap
  <2>1. mirror # None /\ mirror \in Entry /\ mirror.snap = pointer.snap /\ EntryFromInput(mirror)
    BY <1>1, <1>6 DEF SnapOf, StoreInv, TypeInv, TypeOK, FromInput
  <2> QED
    BY <1>2, <1>6, <2>1 DEF MirrorRestored, Agree
<1> QED
  BY <1>5, <1>6

\* After a recovery, wherever the operation or another recovery was killed, readers
\* accept the generation the pointer names.
THEOREM RecoveryIsReadable == ASSUME Guarded, OneSource PROVE Spec => RecoveredReadable
<1>1. StoreInv /\ FromInput => \A c \in Compiler : Reconcile(c) => pointer = None \/ Readable'
  <2> SUFFICES ASSUME StoreInv, FromInput, NEW c \in Compiler, Reconcile(c), pointer # None
               PROVE  Readable'
    OBVIOUS
  <2>1. Agree(pointer, MirrorRestored)
    BY RestoredAgrees
  <2>2. pointer.snap \in gens
    BY DEF StoreInv, PointerServes
  <2> QED
    BY <2>1, <2>2 DEF Reconcile, Readable
<1>2. Spec => []FromInput
  <2>1. Spec => []TypeInv
    BY TypeInit, TypeStep, PTL DEF Spec
  <2> QED
    BY <2>1, TidyInit, InputStep, PTL DEF Spec
<1> QED
  BY <1>1, <1>2, StoreInvariant, PTL DEF RecoveredReadable

\* While an operation is at work nobody else is past reading the journal, so what
\* it writes and removes is its own.
LEMMA TidyStep ==
    ASSUME Guarded, StoreInv, TidyInv, [Next]_vars
    PROVE  TidyInv'
<1> USE DEF TidyInv, OwnJournal, Tidied, Working, Recovered, StoreInv, TypeInv, Carrying, Exclusive,
            JournalHeld, vars, disk, Goto, Carry, See, At, Step, Leave, Stay, InTry, Abandon, Id
<1>1. CASE UNCHANGED vars
  BY <1>1
<1>2. ASSUME NEW c \in Compiler, Begin(c) PROVE TidyInv'
  BY <1>2 DEF Begin, TypeOK
<1>3. ASSUME NEW c \in Compiler, ReadJournal(c) PROVE TidyInv'
  BY <1>3 DEF ReadJournal, NobodyElse, TypeOK
<1>4. ASSUME NEW c \in Compiler, OpenJournal(c) PROVE TidyInv'
  BY <1>4 DEF OpenJournal, TypeOK, Journal
<1>5. ASSUME NEW c \in Compiler, WriteTemp(c) PROVE TidyInv'
  BY <1>5 DEF WriteTemp, TypeOK
<1>6. ASSUME NEW c \in Compiler, RenameTemp(c) PROVE TidyInv'
  BY <1>6 DEF RenameTemp, TypeOK
<1>7. ASSUME NEW c \in Compiler, VerifyStaged(c) \/ VerifyAgain(c) PROVE TidyInv'
  BY <1>7 DEF VerifyStaged, VerifyAgain, VerifyTemp, TypeOK
<1>8. ASSUME NEW c \in Compiler,
             JournalIndexed(c) \/ JournalAlready(c) \/ JournalCommitted(c) \/ JournalCleaned(c)
      PROVE  TidyInv'
  <2>1. \A p \in Phase : /\ [now[c] EXCEPT !.phase = p] \in Journal
                         /\ [now[c] EXCEPT !.phase = p].id = now[c].id
    BY <1>8, PhaseOfJournal DEF JournalIndexed, JournalAlready, JournalCommitted, JournalCleaned
  <2>2. now[c] \in Journal /\ Working(c) /\ pc[c] \notin {"keep", "prune"}
    BY <1>8 DEF JournalIndexed, JournalAlready, JournalCommitted, JournalCleaned
  <2>3. journal # None /\ now[c].id = journal.id
    BY <2>2
  <2>4. PICK p \in Phase :
          /\ journal' \in {journal, [now[c] EXCEPT !.phase = p]}
          /\ now' \in {now, [now EXCEPT ![c] = [now[c] EXCEPT !.phase = p]]}
    BY <1>8 DEF JournalIndexed, JournalAlready, JournalCommitted, JournalCleaned, WriteJournal,
                TypeOK, Phase
  <2> DEFINE written == [now[c] EXCEPT !.phase = p]
  <2>5. written # None /\ written.id = now[c].id
    BY ONLY <2>1, NoneAssumption
  <2>6. journal' \in {journal, written} /\ now' \in {now, [now EXCEPT ![c] = written]}
    BY <2>4
  <2> HIDE DEF written
  <2>7. journal' # None /\ journal'.id = journal.id
    BY ONLY <2>3, <2>5, <2>6
  <2>8. \A d \in Compiler : now'[d].id = now[d].id /\ (now'[d] # None <=> now[d] # None)
    BY ONLY <2>2, <2>5, <2>6, TypeOK, NoneAssumption DEF TypeOK
  <2>9. UNCHANGED <<pointer, gens, temps, mode, job>>
    BY <1>8 DEF JournalIndexed, JournalAlready, JournalCommitted, JournalCleaned, WriteJournal
  <2>10. PICK next \in {"commit", "clean", "reread", "rmtemp"} :
          /\ pc' = [pc EXCEPT ![c] = next]
          /\ next = "commit" => pc[c] = "index"
    BY <1>8 DEF JournalIndexed, JournalAlready, JournalCommitted, JournalCleaned
  <2>11. \A d \in Compiler \ {c} : pc'[d] = pc[d] /\ pc[d] \in {"idle", "begin"}
    BY <2>2, <2>10 DEF TypeOK
  <2>12. OwnJournal'
    BY <2>3, <2>7, <2>8, <2>9, <2>10, <2>11 DEF TypeOK
  <2>13. Tidied'
    BY <2>8, <2>9, <2>10, <2>11 DEF TypeOK
  <2> QED
    BY <2>12, <2>13
<1>9. ASSUME NEW c \in Compiler, ReadCurrent(c) \/ AlreadyCurrent(c) PROVE TidyInv'
  BY <1>9 DEF ReadCurrent, AlreadyCurrent, TypeOK
<1>10. ASSUME NEW c \in Compiler, CheckBase(c) \/ CheckBaseAgain(c) \/ Refuse(c) PROVE TidyInv'
  BY <1>10 DEF CheckBase, CheckBaseAgain, Refuse, TypeOK
<1>11. ASSUME NEW c \in Compiler, WriteSidecar(c) \/ WriteMirror(c) \/ ReplacePointer(c) PROVE TidyInv'
  BY <1>11 DEF WriteSidecar, WriteMirror, ReplacePointer, TypeOK
<1>12. ASSUME NEW c \in Compiler, RereadJournal(c) \/ ReadKeep(c) PROVE TidyInv'
  BY <1>12 DEF RereadJournal, ReadKeep, TypeOK
<1>13. ASSUME NEW c \in Compiler, RemoveTemp(c) \/ DropTemp(c) PROVE TidyInv'
  BY <1>13 DEF RemoveTemp, DropTemp, TypeOK
<1>14. ASSUME NEW c \in Compiler, Prune(c) PROVE TidyInv'
  <2>1. seen[c] = pointer
    BY <1>14 DEF Prune, Building
  <2>2. gens' \subseteq Kept(pointer) /\ UNCHANGED <<pointer, temps, journal, now, mode, job>>
    BY <1>14, <2>1 DEF Prune
  <2>3. pc' = [pc EXCEPT ![c] = IF mode[c] = "discard" THEN "reconcile" ELSE "close"]
    BY <1>14 DEF Prune
  <2>4. pc[c] = "prune"
    BY <1>14 DEF Prune
  <2>5. OwnJournal'
    BY <2>2, <2>3, <2>4 DEF TypeOK
  <2>6. Tidied'
    BY <2>2, <2>3, <2>4 DEF TypeOK
  <2> QED
    BY <2>5, <2>6
<1>15. ASSUME NEW c \in Compiler, CloseJournal(c) PROVE TidyInv'
  BY <1>15 DEF CloseJournal, TypeOK
<1>16. ASSUME NEW c \in Compiler, Crash(c) PROVE TidyInv'
  BY <1>16 DEF Crash, TypeOK
<1>17. ASSUME NEW c \in Compiler, Recover(c) PROVE TidyInv'
  BY <1>17 DEF Recover, TypeOK
<1>18. ASSUME NEW c \in Compiler, DropJournal(c) PROVE TidyInv'
  BY <1>18 DEF DropJournal, TypeOK
<1>19. ASSUME NEW c \in Compiler, Reconcile(c) PROVE TidyInv'
  BY <1>19 DEF Reconcile, TypeOK
<1> QED
  BY <1>1, <1>2, <1>3, <1>4, <1>5, <1>6, <1>7, <1>8, <1>9, <1>10, <1>11, <1>12, <1>13, <1>14, <1>15, <1>16, <1>17, <1>18, <1>19 DEF Next

\* An operation that had a journal leaves the current and the previous generation
\* and no temporary index, wherever an earlier one was killed.
THEOREM OperationsEndTidy == ASSUME Guarded PROVE Spec => EndsTidy
<1>1. StoreInv /\ TidyInv => \A c \in Compiler :
        Ends(c) /\ now[c] # None => gens' \subseteq Kept(pointer) /\ temps' = {}
  <2> SUFFICES ASSUME StoreInv, TidyInv, NEW c \in Compiler, Ends(c), now[c] # None
               PROVE  gens' \subseteq Kept(pointer) /\ temps' = {}
    OBVIOUS
  <2>1. CASE CloseJournal(c)
    BY <2>1 DEF CloseJournal, At, TidyInv, Tidied
  <2>2. CASE Reconcile(c) /\ pc'[c] = "idle"
    <3>1. mode[c] # "resume"
      BY <2>2 DEF Reconcile, Goto, StoreInv, TypeInv, TypeOK
    <3> QED
      BY <2>2, <3>1 DEF Reconcile, At, TidyInv, Tidied, Recovered
  <2> QED
    BY <2>1, <2>2 DEF Ends
<1>2. Spec => []TidyInv
  BY TidyInit, TidyStep, StoreInvariant, PTL DEF Spec
<1> QED
  BY <1>1, <1>2, StoreInvariant, PTL DEF EndsTidy
=============================================================================
