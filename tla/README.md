# A TLA+ model of Sneakoscope Codex (SKS)

SKS is a TypeScript command-line tool and set of hooks around the Codex CLI. Most
of it is command glue, prompts, reports and release checks. Its own core logic
is a set of small protocols on the file system of one host, run by many short
processes at once: every hook, every CLI call and every agent is a process that
may be killed between any two system calls. These protocols are what this
project models.

Paths below are relative to the repository root; `PROJECT.json` "map" gives the
lines behind every definition.

## Inventory

| Component | State it keeps | Operations | Interacts with | Hard behaviour | What makes it correct |
|---|---|---|---|---|---|
| File lock `src/core/locks/file-lock.ts` | directory `<lock>`, its `owner.json`, temporary owner files | `withFileLock`, `tryWithFileLock`, heartbeat, `protectPid`, stale recovery, release | nearly every writer of SKS | processes die; waiters recover concurrently; heartbeat writes are not awaited; every call resolves the path again | one holder; only abandoned locks reclaimed; no lock kept for ever |
| Context-index generation store `src/core/triwiki/context-graph/store/` | pointer, mirrored meta, generations with sidecars, temporary index, journal | begin, stage, promote, publish, commit, clean, abandon, recover, resolve | align (compiler), query (reader) | crash between any two writes; a second compiler from an older base | a reader sees one committed generation or fails closed; nothing referenced is pruned |
| Align `src/core/align/` | eight generated surfaces, staging directory, swap journal, pending index root | recovery of stale staging, compile, swap, rollback | state lock, generation store, project pack | crash between renames; a failing rename in the middle; rollback that fails | the canonical memory is never lost |
| TriWiki cleanup `src/core/triwiki/triwiki-cleanup.ts` | the same surfaces, cleanup swap directory | plan, confirm, swap out, delete, rollback | state lock, align | digest changes between plan and apply; failing rename | all targets removed or all back |
| Model-call concurrency `src/core/codex-control/model-call-concurrency.ts` | active count, FIFO of waiters per provider and budget | `run`, acquire, release, snapshot | task runner, verifier pool | a slot handed over while others ask; a task that throws | never more than the budget; FIFO; every waiter served |
| sksd hook daemon `src/core/daemon/` | pid file, socket, runtime directory, idle timer | start, claim, serve, retire, close; client call | every Codex hook | two daemons start; a stale pid or socket; version change; a caller that gives up while its daemon still evaluates | one daemon at the path; old code retires; callers fall back, never hang; one evaluation of an invocation |
| Temp leases and retention `src/core/retention/` | lease files, quarantine names, archived artefacts | claim, sweep, remove dead, retain | tests, missions | pid reuse, inode changes between look and rename | a live lease is never removed |
| Agent orchestration `src/core/agents/` | work queue, slots, patch queue and its store, transaction journal, leases, session generations | enqueue, claim, schedule, collect, merge, apply, roll back | worktrees, model calls | late results, a stop at any time, workers that never settle, backfill, conflicting patches | each item starts once and has one result; no two writers of one path; the run ends; patches applied once and in order |
| Subagents and Naruto `src/core/subagents/`, `src/core/naruto/`, `src/core/hooks-runtime/` | mission directories, wave state, evidence, thread budget | admit, spawn, collect, finalise, stop gate | file lock, mission state | duplicate events, a parent killed while its child runs | one run per mission; no stop before evidence |
| SQL plane and MAD-SKS `src/core/mad-sks/` | capabilities, operation store, lease per operation | open, execute, read back, close | MCP servers | crash between execution and its receipt | an operation executes at most once |
| Update and migration `src/core/update/`, `src/core/update-check.ts`, `src/core/migration/`, `src/core/doctor/` | update lock, a receipt per call, the last-install pointer of each project, migration receipts | update, roll back, authorize, migrate | npm, menu bar, doctor | killed while npm runs or between receipt and pointer; a rollback authorized before the lock was free | receipts are true; a confirmed installation can be undone, and only to what it replaced |
| Menu bar generations `src/core/codex-app/menubar/` | four artifacts, each with an active, backup, staged, temporary and displaced place; journal | build, apply, commit, roll back, recover | launchd, update | killed between a rename and its journal entry, in the call or in its recovery | active and previous generation change as a whole; recovery always gets through |
| Codex-LB desktop bridge `src/core/codex-lb/` | provider registry, controller state, bridge sockets | register, migrate, forward, roll back | Codex desktop | half-migrated configuration | one consistent provider set |
| Agent bridge `src/core/agent-bridge/` | asynchronous responses, host capabilities | submit, poll, cancel | MCP hosts | answers after cancellation | an answer is delivered once |
| Git collaboration `src/core/git/`, `src/core/git-hygiene/` | worktrees, merge queue, shared memory records | allocate, merge, publish, restore | agents, align | half-written promotion | prior bytes restored on failure |
| Release gates `src/core/release/` | DAG of gates, resource governor, cache | schedule, run, cache | scripts | resource conflicts, a cached result gone stale | each gate after its dependencies |
| Trust kernel, proof, safety, decisions, MCP configuration | route states, ledgers, guards, consent | transitions, guarded writes | all of the above | mostly sequential | guard before every mutation |
| Rust core `crates/sks-core`, Swift menu bar `native/`, scripts, schemas, skills, website | - | - | - | - | outside the protocols above |

How they interact: nearly every write to shared state is made under the file
lock. Align, the TriWiki cleanup, shared memory and the graph compile share one
lock, the TriWiki state lock (`withTriWikiStateLock`). Align compiles into a fresh
staging directory with the operations of the generation store and swaps the
result in. Agents make their model calls through the semaphore. The daemon, the
update and the menu bar have locks or pid files of their own. `HookService` is the
interface at which the daemon and its callers are modelled apart: `SksdDaemon`
implements it, `HookDispatch` is built on it.

## Modules

| Module | What it is |
|---|---|
| `Mutex` | what `withFileLock` promises: one holder, taken only when free |
| `FileLock` | the directory lock, one action per file-system call; `ImplementsMutex` maps it to `Mutex` |
| `SurfaceSwap` | what `sks align` promises: all surfaces replaced in one step, canonical memory carried over |
| `AlignSwap` | the swap, its rollback and the recovery of a killed run; uses `Mutex` as the state lock and is mapped to `SurfaceSwap` |
| `GenerationStore` | publication, abandon, pruning and recovery of the context index, one action per file operation |
| `ModelCallSemaphore` | the semaphore of the model calls, one action per turn of the event loop |
| `AtomicGenerations` | what the menu bar's transaction promises: all artifacts change together |
| `MenubarGeneration` | apply, commit and recovery, one action per rename and journal entry; mapped to `AtomicGenerations` |
| `HookService` | what the callers of the hook daemon rely on: one reachable process, none that comes back |
| `SksdDaemon` | start, close and retirement of the daemons, one action per await; mapped to `HookService` |
| `HookDispatch` | the callers, their timers and inline decisions, and the markers of the invocations; extends `HookService` |
| `WorkPool` | what the agent scheduler promises about the workers it starts and about its answer |
| `AgentScheduler` | `runAgentScheduler` with queue, slots and records, one action between two awaits; mapped to `WorkPool` |
| `UpdateOperation` | the calls of `sks update`: lock, receipts, npm, pointer, and which rollback is authorized |
| `MCFileLock`, `MCAlignSwap`, `MCGenerationStore`, `MCMenubarGeneration`, `MCAgentScheduler`, `MCUpdateOperation` | small instances for TLC (the others need none) |
| `FileLockProofs`, `AlignSwapProofs`, `GenerationStoreProofs`, `MenubarGenerationProofs`, `SksdDaemonProofs`, `HookDispatchProofs`, `UpdateOperationProofs` | the theorems about one module each |
| `ConcurrencyProofs` | the theorems about `AgentScheduler` and `ModelCallSemaphore` |

In all of them an operator marked "mutant" is a plausible bug of the definition
next to it. No action uses it; each property was seen to fail with one of them
in place of the original.

### FileLock

The path `<lock>` holds at most one directory: `maker` is the call whose `mkdir`
made it, `owner` and `guarded` are the pid and the protected pids of its
`owner.json`, `tmps` the temporary files in it, `aged` whether the heartbeat (or,
without a record, the mtime) is older than `staleMs`. A call is at a `pc` that names
its next file-system call: `mkdir`; `open`, `rename` of the record; `critical`;
`popen`, `prename` of `protectPid`; `relread`, `unlink`, `rmdir` of the release; `read`, `stat`,
`quarantine` of a waiter that judges the lock. Every one resolves the path again
and acts on what is there at that time. `hb` is a heartbeat write, which nobody
awaits: it may be in flight when the critical section has ended and when the
next holder has made its directory; the history variable `late` says that one has changed the directory
after its call's section, or has put a record in place that lacks a child protected since (`Overtaken`). `Die` stops a process at any step, `Age` lets
the stale window pass.

Abstractions: reading the record and judging it is one step, as there is no
await in between; at most one heartbeat write per call is in flight; one
`staleMs` for all calls; pids are not reused; owners on other hosts, which the code
takes to be alive (so they keep their lock), are left out. `Timely` says that no live call is
paused for a whole stale window at the steps `Paused` names.

### AlignSwap

`active` is the workspace, `prior` and `stageWiki` what is in the staging directory,
`journal` the phase in `swap-journal.json`; `todo`, `moved` and `promoted` are the variables of
`runLocked` that die with the process. The actions are its renames and journal
writes in the order of the code, the rollback in reverse order, and the removal
of the staging directory entry by entry. `Throw` may happen at any place of the
try block, `Crash` at the places in `CrashAt`, a failing call at those in `FailAt`. `guardedRename`
renames and then appends to the mutation ledger, and throws when that fails; so a rename can have happened and
`movedPrior` or `promoted` not know it (`MoveUnrecorded` for the surfaces in `Unrecorded`, `PromoteUnrecorded`).
`RestoreFails` are the surfaces whose rename back may fail. A killed run
loses the state lock to its stale recovery. `WriteRecord` and `CompileContextGraph` are
the other holders of that lock. `records` are the memory records whose writers
have been told that they are stored.

Abstractions: an earlier recovery of several staging directories is one of a
single one; packs and the `AGENTS.md` projection have no state of their own; the
caches a query makes without the lock are left out.

### GenerationStore

`pointer`, `mirror`, `sidecar`, `gens`, `journal` and `temps` are the files; `job`, `now` and `seen` are what
a compiler has in its variables. Each file write is a temporary file and a
rename in the code and one step here. A step that may throw is followed by
`abandon`, as in `publishContextIndexGeneration`; abandon that fails is the same as a kill
there. Recovery is in the module too, and may be killed as well. `Guarded` says that
no two compilers are between their look at the journal and the write of their
own, and that nobody re-enters an operation in progress.

Abstractions: pruning is one step; the phases `extracted` and `merged` are
declared by the journal's schema and written by no operation, so `prepared` stands for them;
files that cannot be parsed, and the event log, are left out. `sks align` publishes into a
fresh staging root under the state lock, so it meets `Guarded`. The only callers of the
recovery are tests and the benchmark.

### ModelCallSemaphore

`inUse` (the field `active`), `queued`, `maxObserved` and `waiters` are the fields of the class. `pc` separates
"granted", a call that owns a slot but whose continuation has not run, from
"running". One instance stands for one key of the map, provider and budget, in one
process.

### MenubarGeneration

`at` is the generation at each of the five places of an artifact. An installation is five
renames per artifact, a rollback its last three; `step` is the rank of the journal
entry (odd: intended, even: done), `before` what was there when the journal was written.
`StopAt` names the places at which a call may fail or be killed; what is left is recovered by the
next caller, or cleaned up if the journal says `committed`. The building, signing and
launching of the app are one step, `StageGeneration`.

Abstractions: a failing call and a killed one are the same, because `catch` does
what the next caller does; a file and a directory are both one name; the four phases before
`committed` are one, as recovery treats them alike.

### SksdDaemon, HookService, HookDispatch

`pidFile` is who created it and whether its pid is in it yet, `sock` whose socket is at the path,
`st` the await a process is at. A stale pid is `Dead`. `robbed` remembers that a starter removed
the claim of a live process. Of the callers only what they do to daemons is in
`SksdDaemon`: a spawn, and a retirement by a request of another version.

`HookDispatch` has one invocation and callers for it. `remote` is a caller's request in a daemon, which goes on when the caller
has given up; `marker` is the file `claimHookInvocation` creates. `Worker` are callers with a marker
of their own (they never ask the daemon), `Foreign` those whose environment the
daemon may refuse.

Abstractions: one project and one invocation; pids are not reused; one left-behind request for
each caller; permissions, a directory in the place of the socket, and file-system errors of
a marker are left out. Of the daemons it takes only the actions of `HookService`, so what is shown of the callers
holds for any daemons that implement it.

### WorkPool, AgentScheduler

`item` is the queue, `batch` what has been leased for the launches under way, `active` the map the loop
waits for, `held` the slots with an open generation, `open` the session records that are not
closed, `worker` what really happens to the worker, which neither a stop nor an exception
ends. `signal` is the stop signal (wall budget or abort), `reason` and `verdict` how the run ended. The
refinement mapping takes what an item is to `WorkPool` from `worker` and not from the
queue, so that what the queue says and what runs are checked against each other.

An item is a row of the queue, and two rows may have one id (`Id`): `enqueueFollowUpWorkItems` looks for an id among
the rows (`Rows`) and not among what the same list has already brought, and `createAgentWorkQueue` does not look at all. Leases and
sessions belong to a row; `completeWorkItem` takes an id and finds the first row (`FirstOfId`, by `Rank`), and a dependency names an
id. What is claimed of items is therefore claimed of rows that are `Alone` with their id, and
`StallsOnlyOnFailure` names `Twins` as a reason of its own.

Abstractions: a row is started at most once (`max_attempts` is read by nobody), so a session is named by its
row; which of several ready items a slot takes is open; the worker results
`blocked` and `failed` are one; the second refill of the loop (line 169), which finds
what the first found, is folded into `Collect`; metrics are left out.

### UpdateOperation

`receipt` and `pointer` are the files (the pointer holds a copy of the receipt it names), `holder` the owner in
`update.lock`, `mine` the receipt a call has in memory, which runs ahead of the file. `may` is the authorization as
it is renewed under the lock. `replaced` is history: what npm really did. A call that is done and still named by the lock has
been killed. `Authorizing` is `authorizeUpdateRollback`: the pointer if it is sound and
fits, else a scan of the receipts, and none if the pointer is not sound.

Abstractions: the lock is what `acquireUpdateOperationLock` promises (but see "Where they
stop holding"); npm runs to its end or not at all when its call is killed; of the stages only `global_install` is
kept, doctors, menu bar and verification decide how a call ends; one registry; the limits of the scan
(30 days, 256 receipts) and the display copy `update-latest.json` are left out.

## Runs

| Run | States | What it shows |
|---|---|---|
| `lock_exclusion` | 352 128 | three calls in two processes, one killed anywhere, heartbeats in both, one protected child that may die: exclusion, a protected child holds the lock for its dead parent unless a heartbeat came too late, a release touches only its own directory, only abandoned locks are reclaimed, implements `Mutex` |
| `lock_crash` | 14 724 | the process of two calls dies anywhere, one process is left to recover: every persistent call is served |
| `align_crash` | 3 501 | runs that throw anywhere between two recorded renames, or are killed where the journal says enough, are invisible or replace everything: implements `SurfaceSwap` |
| `align_canonical` | 7 773 | killed also between the promotion and its journal entry; ledger entries that fail after the promotion or after a cache was moved; renames back of the new wiki or of a cache that fail; other writers before the recovery: no memory record is lost |
| `align_crash_moving` | violation | killed between the first rename and the journal entry after the last: recovery deletes the only wiki |
| `store_guarded` | 227 220 | two compilers, four publications, kills and failures between any two writes, recoveries killed too |
| `semaphore` | 663 | five callers, two slots: budget, no idle slot, every waiter served |
| `menubar` | 17 861 | three installations and rollbacks of four artifacts, stopped at any rename, removal or recovery step but one: implements `AtomicGenerations`, every recovery gets through, nothing is left where only the journal would look |
| `hook_daemon` | 28 165 | two processes, one kill, one update: one daemon unless a live claim was removed, implements `HookService`, a daemon always comes back, old code retires |
| `hook_dispatch` | 318 109 | a caller of the daemon and one with its own marker: one evaluation within the window, every call answered |
| `scheduler` | 146 286 | three items and three follow-ups, two of them with one id, two slots, a shared path, dependencies, failures, stops: implements `WorkPool`, no slot idles, one result for every item with an id of its own, the run ends |
| `update` | 4 365 045 | three updates, rollbacks or dry runs from two projects, killed or refused a write anywhere, one installation from outside: receipts tell what npm did, a confirmed installation can be undone, versions go down only to undo an update |

The violation is what the code does against what a comment in it says;
`PROJECT.json` "findings" quotes it. The other disagreements met while modelling are
under "Where they stop holding", each with the change to a run that shows it.

**Bounds.** Two waiters and a holder are what a reclaim needs to go wrong, and a waiter
that polls comes back in every role a fourth call could have. Align gets the wiki, one other surface and two records, so
there is a surface before and one after any rename, and three runs: one that
leaves something, one that recovers it, one that recovers the recovery. The store
gets three snapshots, the least with a current, a previous and one to prune, and four
operations (`MaxOps`): a first generation, one that is killed, one that
finds what it left, and one whose pruning follows.
The semaphore gets two slots and five callers, so three can wait at once.
The menu bar gets its real four artifacts and three installations: the first finds nothing, the second has
a previous generation to displace, the third meets what either left. Two daemon
processes are a predecessor and a successor, or two rivals; a process that has ended may be
started again, so more of them would only repeat the roles. The hooks get one caller of each kind, each calling
again and again. The scheduler gets two slots, two items that share a path, one item that
depends on another, and three follow-ups, one more than `MaxExpansion` lets in, two of
them with one id, on which the third depends.
Three update calls are one that leaves a receipt, one that replaces it or is killed over it, and one that
is judged by what they left; with three versions a pointer can fit neither the version in place nor the one asked
for. Calls and projects are alike, so they are symmetric.
States that a bound ends are ends of the exploration and not deadlocks of the program,
therefore deadlock is checked only where something can always go on (`semaphore`, the hook runs) or the end has a step of its own (`scheduler`); a call of the lock may also
simply be done.

**Fairness.** Safety runs assume none. For the lock: running processes go on
(weak fairness of the steps of a call and of a heartbeat write, including the end
of a critical section, as `withFileLock` awaits work that ends), a child ends, and
time passes (`Age`; strong, because a waiter that polls touches the directory
again and again, which does not stop the clock). No call must give up, no timer fire and
no process with calls die. For the semaphore: the event loop runs every
continuation, and tasks end, because a model turn has a timeout
(`core/codex-control/codex-sdk-adapter.ts:78`). For the daemon:
a process goes on by itself, hooks keep being run (so one is spawned while none is
reachable, and an old one is asked and retires), and a daemon nobody can reach becomes idle. For a
caller of it: its own steps, the timer among them; nothing is assumed of
daemons. For the scheduler: what it awaits ends, because files are written and
callbacks are raced with timers (`boundedCallback`), and the stop signal comes, because the wall
budget is always set (10 ms to 24 h, `normalizeSchedulerMaxWallMs`); workers need never
settle. The align, store, menu bar and update modules claim no liveness.

## Proofs

All hold for any values of the constants that satisfy the modules' `ASSUME`s;
further assumptions are part of the statements.

**Lock** (`FileLockProofs`): `TypeCorrect` with nothing assumed; `LockIsExclusive`, `ReleaseIsConfined`,
`ReclaimIsSafe` and `LockImplementsMutex` when, wherever a process with calls dies, one call at most
is left (`OneSurvives`; nobody dying is a case of it) and none is paused (`Timely`). Exclusion alone is not inductive: a waiter at
`quarantine` could take any lock away. While every call lives, `LockInv` says why none gets there. Only the
maker of the directory is past `mkdir` (`MakerAlone`). A directory without a record
is being worked on by its maker or a heartbeat (`Attended`), hence fresh, as those are the steps at
which nobody is paused (`FreshUnlessNamed`). One with a record names a live process.
So no waiter judges it stale. Once some call is dead, late heartbeats may have put any name into the record, and `LockInv` is lost; but
the call that is left acts alone, and what it renames away it has not made (`SafeInv`). Both
assumptions are needed: two waiters that recover the lock of a dead third violate
the first, and `Timely = FALSE` with `Beating = {}` violates `MutualExclusion`. `ProtectedChildHoldsLock` and
`ReleaseLeavesNothing` hold under the same assumptions, heartbeats running, unless one came too late (`late`): `RecordInv` says that as long as
none did, the record is the maker's, and that of a maker in its critical section has all the children `protectPid` returned for
(`Recorded`); no waiter has judged the lock of such a child stale (`NotJudged`); and what a release has emptied stays
empty until it is removed (`Emptied`). A heartbeat in flight is harmless while its call is in its section, as that call made the
directory the write goes to. What one does that is `late` is below.

**Align** (`AlignSwapProofs`): `AlignTypes` with nothing assumed; `CanonicalMemoryKept` when no run is
killed while it moves surfaces (`SafeKills`) and the wiki's own rename aside gets its ledger entry and its rename back
succeeds (`WikiComesBack`), whatever happens to the other surfaces and to the promotion;
`AlignIsAtomic` when no rename of the swap is unrecorded, no rename back fails, and no run is killed while it moves
surfaces or before it has recorded the promotion (`CleanFaults`). The idea
is `Settled`: the surfaces as they will be when the rollback, recovery or removal
under way is through. `SwapInv` ties the journal, the staging directory and the
run's variables together place by place, so that each rename leaves `Settled`
alone; then only a commit and a writer change it. What the assumptions exclude is
reachable: `align_crash_moving`; with `CrashAt = {}` the wiki in `Unrecorded` or in `RestoreFails` violates
`CanonicalSurvives`, and any of `Unrecorded = {"cache"}`, `RestoreFails = {"cache"}`, `FailAt = {"promote"}` and
`FailAt = {"unpromote"}` violates `ImplementsSurfaceSwap`; with `CrashAt = {"promote"}` and `LateWriters = TRUE`
recovery takes a wiki made in the meantime for a newer one.

**Store** (`GenerationStoreProofs`): `StoreTypes` with nothing assumed; `PointerIsServed`, `PreviousIsKept`,
`UpdatesAreKept` and `OperationsEndTidy` under `Guarded`; `RecoveryIsReadable` when, besides, no snapshot hash
comes from two sources (`OneSource`). `StoreInv` has three parts. Whoever has found no journal
is alone (`Exclusive`). The journal stays until its operation closes it (`JournalHeld`). What the
operation has written is there when the pointer comes to name it, and the
pointer is the one it began from (`Building`). `TidyInv` adds that the only temporary index is
the one the journal names and that what a cleanup has removed stays away (`OwnJournal`, `Tidied`).
`FromInput` says that a sidecar is about the snapshot it lies beside; so the mirror that recovery writes
agrees with the pointer (`RestoredAgrees`). With `Guarded = FALSE` the run
`store_guarded` violates `NoLostUpdate`.

**Semaphore** (`ConcurrencyProofs`): `SemaphoreTypes`, `BudgetKept`, `SlotsInUse`, nothing assumed. The
counter equals the number of calls with a slot (`Accounted`), which survives the hand-over only
because the queue holds waiting calls, each once (`Queue`), and calls queue only
at a full budget (`Full`). `WaitersRemembered` is the converse of `Queue`: whoever waits is in the queue.

**Menu bar** (`MenubarGenerationProofs`), for any artifacts and number of installations: `GenerationTypes` and `NothingEverStranded`,
wherever calls and recoveries are stopped, because clean-up and recovery leave nothing behind on their way through the artifacts, and
a rollback displaces nothing (`LeftoverInv`); `RecoveryAlwaysSucceeds`, `GenerationsAreAtomic` and `ArtifactsBelongTogether`, if
no recovery is stopped before it writes what it undid (`"undone" \notin StopAt`).
Their invariant (`GenerationInv`): the files of each artifact are the layout after its first k renames, and
its journal step is that of k or one intent ahead; so recovery can tell the two apart by the files.

**Hook daemon** (`SksdDaemonProofs`): `DaemonTypes`, `OneDaemon`, `DaemonsServe`, nothing assumed. `Tenure` says that,
unless robbed, a process claims exactly while the pid file is its own, and a
listening one has the path. `DaemonsServe` needs no `Tenure`: the path alone keeps two from being
reachable. `HookDispatchProofs`: `DispatchTypes` and `OnceInWindow`; `Window` says
that while the marker has not been old whoever judged it found it fresh, so nobody removes it.

**Scheduler** (`ConcurrencyProofs`), for any ids: `SchedulerTypes`, `SlotsAreUsed`, `ItemsAnswered`, and `StallsExplained`
under `Acyclic` (a cycle of dependencies is no fault of a worker, and stalls too). `SchedulerInv` relates
the scheduler's books to the workers: what is active has a worker and what is leased
none yet, before a stop every worker that runs is waited for, and only the first row of an id is ever completed (`Bookkeeping`); the target and the bound on follow-ups
are kept (`Fits`); a result for each row that
ended, if it is `Alone` (`Accounting`); slots and open records are those of the sessions waited for
(`Records`); a batch took all that fits (`Busy`); what a stop leaves, and when an end is "ok" (`Stopping`). An "ok" needs no
proviso: of two rows with one id the second is never completed, so without a stop nothing could have ended (`AllAlone`).
After a stop the books say nothing of the workers still going;
`WorkersNeverCollide` says that they stay apart. It and `SchedulerServes` assume `SliceIds`, that the slices' ids
differ, as they are numbered (`work-partition/task-slicer.ts:29`, `agent-orchestrator.ts:839`, where an item may bring its own) and nothing in the queue checks them.
Then a slice that is waited for is marked as running, and a batch sees its paths (`SliceInv`). Of follow-ups nothing is assumed.

**Update** (`UpdateOperationProofs`): `UpdateTypes`, `ReceiptsAreTrue`, `InstalledCanBeUndone`, `DowngradesAreUndos`, for any calls,
projects, versions and installations from outside; assumed is only that `None` is not a value of another kind. `UpdateInv`: one call is
under the lock, but for dead ones it may still name (`LockInv`), so the version a call has
read stays in place until it replaces it. The file trails the memory by a stage at most, and is written with
"started" before npm runs (`CallInv`). A pointer is the copy of a receipt that nobody writes any more (`PointerInv`); so is the receipt
that authorizes a rollback, and the version it installed is in place until the rollback is
through (`UndoInv`). `ReceiptsTrue` is needed for `DowngradeIsUndo`: the authorization reads what receipts
say, the property is about what npm did.

**Only model-checked:** liveness (`PersistentCallServed`, `WaiterServed`, `DaemonComesBack`, `OldCodeRetires`, `EveryCallAnswered`, `Returns`), out of reach of the
prover as is `ENABLED`. Only proved: the type
invariants of `HookDispatch` and `AgentScheduler`, which no run repeats. Every other safety property of a passing run is a theorem. Nothing proved here rests on a recursive
definition or on induction over data, which the prover cannot do.

## Where they stop holding

Each is reachable in the model by the change named, and in the code at the line named.

- Lock. Two waiters judge one dead lock stale; the slower renames away the lock the faster has
  just taken (`file-lock.ts:213`), against the comment at line 189: `lock_exclusion` with a process
  for each call (`PidOf <- OwnProcesses`, `pb` in `Pid`) violates `MutualExclusion`. A heartbeat write in flight makes `rm` fail (line 139) and leaves a lock that names a
  live process, which nobody reclaims, against the comment at line 138: `lock_crash` with `MayDie = {}` and
  `Beating = {a}` violates `PersistentCallServed`. A heartbeat that took its list of
  protected pids before `protectPid` overwrites the record after it: `lock_exclusion` without `~late` in
  `ProtectedChildBlocksReclaim` violates it.
- Align. `align_crash_moving`. The same without any kill: `guardedRename` has moved a surface aside and its ledger entry
  cannot be written (`mutation-guard.ts:82`, called at `code-navigation-align.ts:481`); the surface is not in `movedPrior`, the
  rollback passes over it, and line 592 deletes it with the staging directory. If it is the wiki, the canonical memory is
  gone: `align_canonical` with `CrashAt = {}` and `Unrecorded = {"wiki"}` violates `CanonicalSurvives`. A rename back that fails has
  the same end (`RestoreFails = {"wiki"}`; lines 581 to 598). An entry that fails after the promotion (line 492) leaves the new wiki
  in place beside the old caches: `align_crash` with `FailAt = {"promote"}`. After a kill between the promotion and its journal entry recovery puts old
  caches beside the new wiki.
- Store. Two compilers that begin together (`Guarded = FALSE`): the later write loses the earlier pointer
  (`generation-commit.ts:277`), against its header. A pointer that cannot be written leaves the mirrored
  meta ahead of it when the operation is abandoned, and readers refuse both (`publish-index.ts:179` says that nothing
  a reader can see changes). With two sources of one snapshot (`Input = {<<s1,x>>, <<s1,y>>, <<s2,x>>}`)
  `RecoveredReadable` fails: recovery compares snapshots only (`generation-recovery.ts:136`). A killed
  operation refuses every different one until a recovery runs, and no command runs it.
- Menu bar. A recovery stopped between the rename that undoes and its journal entry
  (`generation-transaction.ts:292`), then another before the journal goes: the restored previous generation is
  taken for the staged one, and every further recovery ends `terminal_uncertain`. `menubar` with `"undone"` in
  `StopAt` violates `RecoverySucceeds`.
- Hook daemon. Two starters, of which one removes the other's fresh claim (`sksd-hook-daemon.ts:121`):
  both go on, one serves and the other is an orphan until it is idle. A request may take longer (5 s) than
  the window of a marker (3 s), so the caller that gave up evaluates again. A caller alone, whose daemon has
  timed out or was killed after it claimed the invocation, is told that it is a duplicate, though nobody
  delivers the decision; the comment in `sksd-hook-dispatch.ts` says that the behaviour is the same either way.
- Scheduler. A write that throws while a session is closed (`agent-scheduler.ts:196`) ends the call with workers still
  running and the stop timer gone; `WorkPool` allows it as the answer "error". After a stop workers may run on; their late
  results are dropped. A follow-up has no write paths (its schema has lease requirements only), so
  it may run beside a writer of the same file. Two follow-ups of one list with one id are both
  queued (`agent-work-queue.ts:151`) and started, and what either did is recorded on the first row (line 130). The other stays
  running in the queue: the run is given up for "unresolvable dependencies" though nothing failed or is missing
  (`agent-scheduler.ts:172`), and at the stop one of the two may get a second result, or go without any (lines 288 to 296). `scheduler` without
  `Twins` in `StallsOnlyOnFailure`, or without `Alone` in `EveryItemAnswered`, is violated. Two slices with one id
  are worse: when the second ends, the first is recorded as completed while its worker may still write, and a batch may
  lease another writer of its paths.
- Update. A rollback whose version does not fit the pointer falls back to a scan (`update-operation.ts:359`), meant for a
  newer installation that a crash kept from the pointer; it finds older ones as well. After 1 to 3, back to 2 by hand, and 2 to 3,
  `sks update rollback --version 1` is authorized and makes the old receipt the pointer, whereas a test asks for "the exact
  previous version from the latest successful update receipt". `ConfirmedCanBeUndone` and
  `DowngradeIsUndo` hold, "the version the latest update replaced" would not. Installing from outside while a call is
  between its probe and npm makes a receipt untrue: no lock of SKS binds npm; the same goes for an npm that
  outlives its killed parent.
- Update lock, not modelled here step by step. A recoverer that sees the old file of a lock and, after its release, no owner takes
  it for malformed and renames the path away (`update-operation.ts:583`): by then it may be the next holder's. A
  fourth call creates the lock before it is put back, and two calls hold it. The two must have
  looked for a recovery before the first caller began it.

## What is left out

Components with status `not_modelled` in `PROJECT.json`, with the reason there. Of the
modelled ones: the contents of files, permissions and paths, and everything
that is a report or a message.

The map covers a small share of the repository's lines. Most of its 280 000 lines are commands,
reports, prompts, schemas, checks of releases and tests of them, sequential and without
shared state; a model of them would repeat them. What is modelled are the protocols the
rest relies on.

## Plan

In this order; "hazards" in `PROJECT.json` has the lines.

1. `TriWikiCleanup`: swap and rollback with failing renames, mapped to an
   all-or-nothing removal; composes with `Mutex` as `AlignSwap` does.
2. `SqlPlane`: reserve, start, execute, settle; kills and repeated calls; at most
   one execution for one request.
3. `PatchQueue`: the partial application of a patch (`agent-patch-apply-worker.ts:118`), and what the scheduler's late workers do to it.
4. `TempLease`, and the steps of the update lock below `UpdateOperation`: a file or directory that changed
   between the look and the rename; both move it aside, compare, and put it back.
5. `MergeQueue`, `MemoryPromotion`, `ReleaseGateDag`, the agent bridge.

Runs are kept few: as modules are added, the questions about one
component that fit in one instance become one run, and the counterexamples that say least
about a caller give way.
