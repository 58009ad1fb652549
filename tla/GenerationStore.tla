-------------------------- MODULE GenerationStore --------------------------
(***************************************************************************)
(* The context-index generation store                                      *)
(* (core/triwiki/context-graph/store/, compiler/publish-index.ts).         *)
(*                                                                         *)
(* A compiler publishes an index in many file writes: journal, temporary   *)
(* index, rename into generations/, sidecar meta, mirrored meta, pointer,  *)
(* journal again, prune.  Readers follow the pointer, and only when the    *)
(* mirrored meta agrees with it.  Every write is atomic (temporary file    *)
(* and rename); between any two of them the compiler may die, and other    *)
(* compilers work on the same files.  The journal is the only guard: an    *)
(* operation that finds one that is not its own is refused.                *)
(***************************************************************************)
EXTENDS Naturals, FiniteSets

CONSTANTS
    Compiler,   \* compilers of one workspace
    Snap,       \* snapshot hashes
    Source,     \* source fingerprints (the configuration is fixed)
    Input,      \* the <<snapshot, source>> pairs that compilers publish
    MaxOps,     \* bound: operations begun
    Guarded,    \* no two begins overlap, no operation in progress is re-entered
    CrashAt,    \* places at which a compiler may be killed
    FailAt,     \* places at which a file operation may fail
    None

ASSUME InputAssumption == Input \subseteq Snap \X Source
ASSUME MaxOpsAssumption == MaxOps \in Nat
ASSUME GuardedAssumption == Guarded \in BOOLEAN

VARIABLES
    pointer,   \* current.json: a generation, or None
    mirror,    \* context-graph.meta.json
    sidecar,   \* generations/<snapshot>.meta.json
    gens,      \* generations/<snapshot>.idx
    journal,   \* context-graph-operation.json
    temps,     \* operations/<operation id>.idx
    pc,        \* where each compiler stands
    mode,      \* what it is doing: "publish", "recover", "resume", "discard"
    job,       \* the journal its begin returned
    now,       \* the journal it carries
    seen,      \* the pointer it read last
    ops        \* operations begun

disk == <<pointer, mirror, sidecar, gens, journal, temps>>
vars == <<disk, pc, mode, job, now, seen, ops>>

\* What pointer and meta say of a generation.
Entry == [snap : Snap, source : Source, prev : Snap \cup {None}]

Phase == {"prepared", "indexed", "committed", "cleaned"}
OpId == [base : Snap \cup {None}, target : Snap, source : Source]
Journal == [id : OpId, phase : Phase]

ASSUME NoneAssumption == None \notin Snap \cup Entry \cup Journal

PCs == {"idle", "begin", "open", "stage", "staged", "index", "commit", "already",
        "advance", "verify", "promote", "rename", "sidecar", "mirror", "publish",
        "point", "record", "reread", "clean", "rmtemp", "keep", "prune", "close",
        "drop", "unjournal", "reconcile"}

TypeOK ==
    /\ pointer \in Entry \cup {None}
    /\ mirror \in Entry \cup {None}
    /\ sidecar \in [Snap -> Entry \cup {None}]
    /\ gens \subseteq Snap
    /\ journal \in Journal \cup {None}
    /\ temps \subseteq OpId
    /\ pc \in [Compiler -> PCs]
    /\ mode \in [Compiler -> {"publish", "recover", "resume", "discard"}]
    /\ job \in [Compiler -> Journal \cup {None}]
    /\ now \in [Compiler -> Journal \cup {None}]
    /\ seen \in [Compiler -> Entry \cup {None}]
    /\ ops \in 0 .. MaxOps

Init ==
    /\ pointer = None /\ mirror = None /\ sidecar = [s \in Snap |-> None]
    /\ gens = {} /\ journal = None /\ temps = {}
    /\ pc = [c \in Compiler |-> "idle"]
    /\ mode = [c \in Compiler |-> "publish"]
    /\ job = [c \in Compiler |-> None]
    /\ now = [c \in Compiler |-> None]
    /\ seen = [c \in Compiler |-> None]
    /\ ops = 0

SnapOf(entry) == IF entry = None THEN None ELSE entry.snap

WholePointer(entry, s) == entry   \* mutant: the pointer, not the snapshot it names

\* The previous generation an entry for snapshot s names: the one it replaces.
PrevOf(entry, s) ==
    IF entry # None /\ entry.snap = s THEN entry.prev ELSE SnapOf(entry)

Agree(p, m) == p # None /\ m # None /\ p.snap = m.snap /\ p.source = m.source

Goto(c, place) == pc' = [pc EXCEPT ![c] = place]

Carry(c, j) == now' = [now EXCEPT ![c] = j]

See(c) == seen' = [seen EXCEPT ![c] = pointer]

At(c, place) == pc[c] = place

\* The call is over, its variables are gone.
Leave(c) ==
    /\ Goto(c, "idle") /\ Carry(c, None)
    /\ job' = [job EXCEPT ![c] = None]
    /\ seen' = [seen EXCEPT ![c] = None]
    /\ mode' = [mode EXCEPT ![c] = "publish"]

Stay == UNCHANGED <<mode, job, now, seen>>

Step(c, from, to) == At(c, from) /\ Goto(c, to)

\* Anything that throws inside publishContextIndexGeneration: abandon, which is
\* the cleanup of the journal as begin returned it.
Abandon(c) == Goto(c, "clean") /\ Carry(c, job[c])

(***************************************************************************)
(* beginContextIndexOperation                                              *)
(***************************************************************************)
NobodyElse(c, places) == \A d \in Compiler \ {c} : pc[d] \in places

Recovering == \E c \in Compiler : mode[c] # "publish"

\* Read the pointer: the base of the operation.
Begin(c) ==
    /\ Step(c, "idle", "begin")
    /\ ops < MaxOps
    /\ ~Recovering
    /\ Guarded => NobodyElse(c, PCs \ {"begin", "open"})
    /\ \E in \in Input :
        job' = [job EXCEPT ![c] =
                    [id |-> [base |-> SnapOf(pointer), target |-> in[1], source |-> in[2]],
                     phase |-> "prepared"]]
    /\ ops' = ops + 1
    /\ UNCHANGED <<disk, mode, now, seen>>

\* Read the journal: none, that of the same operation, or a refusal.
ReadJournal(c) ==
    /\ At(c, "begin")
    /\ \/ journal = None /\ Goto(c, "open") /\ Stay
       \/ /\ journal # None /\ journal.id = job[c].id
          /\ Guarded => NobodyElse(c, {"idle"})
          /\ job' = [job EXCEPT ![c] = journal]
          /\ Carry(c, journal)
          /\ Goto(c, "stage")
          /\ UNCHANGED <<mode, seen>>
       \/ journal # None /\ journal.id # job[c].id /\ Leave(c)
    /\ UNCHANGED <<disk, ops>>

OpenJournal(c) ==
    /\ Step(c, "open", "stage")
    /\ journal' = job[c]
    /\ Carry(c, job[c])
    /\ UNCHANGED <<pointer, mirror, sidecar, gens, temps, mode, job, seen, ops>>

(***************************************************************************)
(* stageContextIndexGeneration                                             *)
(***************************************************************************)
Id(c) == now[c].id

\* The temporary index; an operation resumed past this phase is out of order.
WriteTemp(c) ==
    /\ At(c, "stage")
    /\ IF now[c].phase = "prepared"
       THEN temps' = temps \cup {Id(c)} /\ Goto(c, "staged") /\ UNCHANGED now
       ELSE Abandon(c) /\ UNCHANGED temps
    /\ UNCHANGED <<pointer, mirror, sidecar, gens, journal, mode, job, seen, ops>>

\* A check of the temporary index on disk, before `next`.
VerifyTemp(c, next) ==
    /\ IF Id(c) \in temps THEN Goto(c, next) /\ UNCHANGED now ELSE Abandon(c)
    /\ UNCHANGED <<disk, mode, job, seen, ops>>

VerifyStaged(c) == At(c, "staged") /\ VerifyTemp(c, "index")

WriteJournal(c, phase) ==
    /\ journal' = [now[c] EXCEPT !.phase = phase]
    /\ Carry(c, [now[c] EXCEPT !.phase = phase])
    /\ UNCHANGED <<pointer, mirror, sidecar, gens, temps, mode, job, seen, ops>>

JournalIndexed(c) == Step(c, "index", "commit") /\ WriteJournal(c, "indexed")

(***************************************************************************)
(* commitContextIndexGeneration                                            *)
(***************************************************************************)
\* The lint has passed.  Is the result already current?
ReadCurrent(c) ==
    /\ At(c, "commit")
    /\ See(c)
    /\ Goto(c, IF pointer # None /\ pointer.snap = Id(c).target /\ pointer.source = Id(c).source
               THEN "already" ELSE "verify")
    /\ UNCHANGED <<disk, mode, job, now, ops>>

\* Then the mirrored meta must agree with it.
AlreadyCurrent(c) ==
    /\ At(c, "already")
    /\ IF Agree(seen[c], mirror) THEN Goto(c, "advance") /\ UNCHANGED now ELSE Abandon(c)
    /\ UNCHANGED <<disk, mode, job, seen, ops>>

JournalAlready(c) == Step(c, "advance", "clean") /\ WriteJournal(c, "committed")

VerifyAgain(c) == At(c, "verify") /\ VerifyTemp(c, "promote")

AnyBase(c) == TRUE   \* mutant: the base is not compared

BaseUnchanged(c) == SnapOf(pointer) = Id(c).base

\* stale_writer: the pointer has moved since begin.
CheckBase(c) ==
    /\ At(c, "promote")
    /\ IF BaseUnchanged(c)
       THEN See(c) /\ Goto(c, "rename") /\ UNCHANGED now
       ELSE Abandon(c) /\ UNCHANGED seen
    /\ UNCHANGED <<disk, mode, job, ops>>

RenameTemp(c) ==
    /\ At(c, "rename")
    /\ IF Id(c) \in temps
       THEN /\ temps' = temps \ {Id(c)}
            /\ gens' = gens \cup {Id(c).target}
            /\ Goto(c, "sidecar") /\ UNCHANGED now
       ELSE Abandon(c) /\ UNCHANGED <<temps, gens>>
    /\ UNCHANGED <<pointer, mirror, sidecar, journal, mode, job, seen, ops>>

NoPrevious(c) ==   \* mutant: the generation replaced is not recorded
    [snap |-> Id(c).target, source |-> Id(c).source, prev |-> None]

Meta(c) ==
    [snap |-> Id(c).target, source |-> Id(c).source, prev |-> PrevOf(seen[c], Id(c).target)]

WriteSidecar(c) ==
    /\ Step(c, "sidecar", "mirror")
    /\ sidecar' = [sidecar EXCEPT ![Id(c).target] = Meta(c)]
    /\ UNCHANGED <<pointer, mirror, gens, journal, temps, mode, job, now, seen, ops>>

WriteMirror(c) ==
    /\ Step(c, "mirror", "publish")
    /\ mirror' = Meta(c)
    /\ UNCHANGED <<pointer, sidecar, gens, journal, temps, mode, job, now, seen, ops>>

\* publishContextIndexPointer looks at the base once more ...
CheckBaseAgain(c) ==
    /\ At(c, "publish")
    /\ IF BaseUnchanged(c) THEN Goto(c, "point") /\ UNCHANGED now ELSE Abandon(c)
    /\ UNCHANGED <<disk, mode, job, seen, ops>>

\* ... and replaces the pointer in a later step.
ReplacePointer(c) ==
    /\ Step(c, "point", "record")
    /\ pointer' = Meta(c)
    /\ UNCHANGED <<mirror, sidecar, gens, journal, temps, mode, job, now, seen, ops>>

JournalCommitted(c) ==
    /\ Step(c, "record", "reread")
    /\ journal' = [now[c] EXCEPT !.phase = "committed"]
    /\ UNCHANGED <<pointer, mirror, sidecar, gens, temps, mode, job, now, seen, ops>>

\* Whatever journal is there by now is the one that is cleaned.
RereadJournal(c) ==
    /\ Step(c, "reread", "clean")
    /\ Carry(c, IF journal = None THEN now[c] ELSE journal)
    /\ UNCHANGED <<disk, mode, job, seen, ops>>

(***************************************************************************)
(* cleanContextIndexOperation                                              *)
(***************************************************************************)
JournalCleaned(c) ==
    /\ Step(c, "clean", "rmtemp")
    /\ IF now[c].phase = "cleaned" THEN UNCHANGED <<journal, now>>
       ELSE /\ journal' = [now[c] EXCEPT !.phase = "cleaned"]
            /\ Carry(c, [now[c] EXCEPT !.phase = "cleaned"])
    /\ UNCHANGED <<pointer, mirror, sidecar, gens, temps, mode, job, seen, ops>>

LeaveTemp(c) ==   \* mutant: the temporary index stays
    /\ Step(c, "rmtemp", "keep")
    /\ UNCHANGED <<disk, mode, job, now, seen, ops>>

RemoveTemp(c) ==
    /\ Step(c, "rmtemp", "keep")
    /\ temps' = temps \ {Id(c)}
    /\ UNCHANGED <<pointer, mirror, sidecar, gens, journal, mode, job, now, seen, ops>>

KeepAsPromoted(c) ==   \* mutant: the pointer that was read before the replace
    /\ Step(c, "keep", "prune")
    /\ UNCHANGED <<disk, mode, job, now, seen, ops>>

ReadKeep(c) ==
    /\ Step(c, "keep", "prune")
    /\ See(c)
    /\ UNCHANGED <<disk, mode, job, now, ops>>

CurrentOnly(p) ==   \* mutant: the previous generation is pruned as well
    IF p = None THEN {} ELSE {p.snap}

Kept(p) == IF p = None THEN {} ELSE {p.snap, p.prev} \ {None}

Prune(c) ==
    /\ At(c, "prune")
    /\ gens' = gens \cap Kept(seen[c])
    /\ sidecar' = [s \in Snap |-> IF s \in Kept(seen[c]) THEN sidecar[s] ELSE None]
    /\ Goto(c, IF mode[c] = "discard" THEN "reconcile" ELSE "close")
    /\ UNCHANGED <<pointer, mirror, journal, temps, mode, job, now, seen, ops>>

CloseJournal(c) ==
    /\ At(c, "close")
    /\ journal' = None
    /\ IF mode[c] = "recover" THEN Goto(c, "reconcile") /\ Stay ELSE Leave(c)
    /\ UNCHANGED <<pointer, mirror, sidecar, gens, temps, ops>>

(***************************************************************************)
(* recoverContextIndexOperation, by a caller that knows that no compile is *)
(* running                                                                 *)
(***************************************************************************)
Resumable(in) ==
    /\ journal.phase = "indexed"
    /\ journal.id.target = in[1] /\ journal.id.source = in[2]
    /\ journal.id \in temps

Recover(c) ==
    /\ \A d \in Compiler : pc[d] = "idle"
    /\ Carry(c, journal)
    /\ \E in \in Input, m \in {"recover", "resume", "discard"} :
        /\ mode' = [mode EXCEPT ![c] = m]
        /\ \/ journal = None /\ m = "recover" /\ Goto(c, "reconcile")
           \/ /\ journal # None /\ journal.phase \in {"committed", "cleaned"}
              /\ m = "recover"
              /\ Goto(c, IF journal.phase = "committed" THEN "clean" ELSE "rmtemp")
           \/ /\ journal # None /\ journal.phase \in {"prepared", "indexed"}
              /\ m = IF Resumable(in) THEN "resume" ELSE "discard"
              /\ Goto(c, IF Resumable(in) THEN "reconcile" ELSE "drop")
    /\ UNCHANGED <<disk, job, seen, ops>>

DropTemp(c) ==
    /\ Step(c, "drop", "unjournal")
    /\ temps' = temps \ {Id(c)}
    /\ UNCHANGED <<pointer, mirror, sidecar, gens, journal, mode, job, now, seen, ops>>

DropJournal(c) ==
    /\ Step(c, "unjournal", "keep")
    /\ journal' = None
    /\ UNCHANGED <<pointer, mirror, sidecar, gens, temps, mode, job, now, seen, ops>>

MirrorLeft == mirror   \* mutant: the mirrored meta is not repaired

\* reconcileContextIndexMeta: the mirror from the sidecar of the current
\* generation.
MirrorRestored ==
    IF pointer = None THEN None
    ELSE IF SnapOf(mirror) # pointer.snap /\ sidecar[pointer.snap] # None
    THEN sidecar[pointer.snap] ELSE mirror

\* An index offered for resumption is cleaned up by the caller.
Reconcile(c) ==
    /\ At(c, "reconcile")
    /\ mirror' = MirrorRestored
    /\ IF mode[c] = "resume" THEN Goto(c, "clean") /\ Stay ELSE Leave(c)
    /\ UNCHANGED <<pointer, sidecar, gens, journal, temps, ops>>

(***************************************************************************)
(* What may go wrong                                                       *)
(***************************************************************************)
\* Inside the try block of publishContextIndexGeneration.
InTry == {"stage", "staged", "index", "commit", "already", "advance", "verify",
          "promote", "rename", "sidecar", "mirror", "publish", "point", "record"}

\* The lint does not pass, or a file operation fails.
Refuse(c) ==
    /\ pc[c] \in InTry
    /\ pc[c] \in FailAt
    /\ Abandon(c)
    /\ UNCHANGED <<disk, mode, job, seen, ops>>

\* The compiler is killed; another process may take its place.
Crash(c) ==
    /\ pc[c] \in CrashAt \ {"idle"}
    /\ Leave(c)
    /\ UNCHANGED <<disk, ops>>

Next ==
    \E c \in Compiler :
        \/ Begin(c) \/ ReadJournal(c) \/ OpenJournal(c) \/ WriteTemp(c)
        \/ VerifyStaged(c) \/ JournalIndexed(c) \/ ReadCurrent(c)
        \/ AlreadyCurrent(c) \/ JournalAlready(c) \/ VerifyAgain(c)
        \/ CheckBase(c) \/ RenameTemp(c) \/ WriteSidecar(c) \/ WriteMirror(c)
        \/ CheckBaseAgain(c) \/ ReplacePointer(c) \/ JournalCommitted(c)
        \/ RereadJournal(c) \/ JournalCleaned(c) \/ RemoveTemp(c) \/ ReadKeep(c)
        \/ Prune(c) \/ CloseJournal(c)
        \/ Recover(c) \/ DropTemp(c) \/ DropJournal(c) \/ Reconcile(c)
        \/ Refuse(c) \/ Crash(c)

Spec == Init /\ [][Next]_vars

-----------------------------------------------------------------------------
(***************************************************************************)
(* Properties                                                              *)
(***************************************************************************)
\* What resolveCurrentContextIndex accepts.
Readable == pointer # None /\ Agree(pointer, mirror) /\ pointer.snap \in gens

\* The pointer never names a generation that is not there, index and sidecar,
\* whatever is written, pruned or left behind (generation-store-crash.test.ts:
\* "nothing partial is ever reachable").
PointerServes == pointer # None => pointer.snap \in gens /\ sidecar[pointer.snap] # None

\* The generation the pointer calls previous is kept for the merge.
PreviousKept == pointer # None /\ pointer.prev # None => pointer.prev \in gens

\* A pointer is replaced only by a publication that began from the generation
\* it names, and its successor remembers that generation: nothing is lost to a
\* compiler that started from an older pointer (header of generation-commit.ts).
NoLostUpdate ==
    [][\A c \in Compiler : ReplacePointer(c) =>
        /\ SnapOf(pointer) = Id(c).base
        /\ pointer'.prev = PrevOf(pointer, pointer'.snap)]_vars

\* The last step of a publication, of a refused one or of a recovery.
Ends(c) == (CloseJournal(c) \/ Reconcile(c)) /\ pc'[c] = "idle"

\* A recovery makes readers see a generation again, wherever the publication or
\* an earlier recovery was killed.
RecoveredReadable == [][\A c \in Compiler : Reconcile(c) => pointer = None \/ Readable']_vars

\* An operation that had a journal leaves nothing over: the current and the
\* previous generation, and no temporary index that no journal knows of.
EndsTidy ==
    [][\A c \in Compiler : Ends(c) /\ now[c] # None =>
        gens' \subseteq Kept(pointer) /\ temps' = {}]_vars
=============================================================================
