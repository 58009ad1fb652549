--------------------------- MODULE AgentScheduler ---------------------------
(***************************************************************************)
(* runAgentScheduler (src/src/core/agents/agent-scheduler.ts) with the     *)
(* queue, the slots and the session records it keeps: items are leased in  *)
(* batches, one worker each, and the loop settles one worker at a time.    *)
(* An action is what happens between two awaits; workers and the stop      *)
(* signal (wall budget or abort) go on meanwhile.                          *)
(*                                                                         *)
(* An item is a row of the queue, and its id need not be its own: ids come *)
(* from the slices and from workers.  A row is started at most once, so a  *)
(* session is named by its row; but what is done to an item by its id is   *)
(* done to the first row that has it.  A result "blocked" of a worker is a *)
(* failed one here: the code treats both alike and only counts them apart. *)
(* Which of several ready items a slot takes (owner, priority) is left     *)
(* open.                                                                   *)
(***************************************************************************)
EXTENDS FiniteSets, Integers

CONSTANTS Item,          \* the work items, follow-ups included
          Id,            \* item |-> its id
          Rank,          \* item |-> its place in the queue among those of its id
          FollowUp,      \* those that only a worker can ask for
          Target,        \* targetActiveSlots
          MaxExpansion,  \* maxQueueExpansion
          Deps,          \* item |-> the ids its `dependencies` name
          Paths,         \* item |-> its write paths; a follow-up has none
          None

ASSUME ItemAssumption == IsFiniteSet(Item) /\ FollowUp \subseteq Item
ASSUME BoundAssumption == Target \in Nat \ {0} /\ MaxExpansion \in Nat
ASSUME RankAssumption ==
    /\ Rank \in [Item -> Nat]
    /\ \A i, j \in Item : Id[i] = Id[j] /\ Rank[i] = Rank[j] => i = j
ASSUME PathAssumption == \A i \in FollowUp : Paths[i] = {}

VARIABLES at,        \* where the scheduler is
          item,      \* item |-> its status in the queue, "absent" before it is in it
          batch,     \* items leased for the launches under way
          active,    \* items of the sessions it waits for
          held,      \* items whose slot has an open generation
          current,   \* the item being settled
          worker,    \* item |-> its worker: "none", "on", "done" or "failed"
          open,      \* items whose session record is not closed
          signal,    \* the stop signal
          reason,    \* terminalStopReason
          blocked,   \* there are blockers
          results,   \* item |-> how many results were pushed for it
          verdict    \* what was returned: None, "ok", "blocked", or "error" (thrown)

queueVars == <<item, batch, active, held, current, worker, open, results>>
endVars == <<signal, reason, blocked, verdict>>
vars == <<at, queueVars, endVars>>

Status == {"absent", "pending", "running", "completed", "failed", "blocked"}
At == {"init", "refill", "dispatch", "dispatched", "top", "wait", "close", "closed",
       "stopping", "stopped", "drain", "drained", "end"}
Reason == {"signal", "dependencies", "no_slot", "dispatch"}

ASSUME NoneAssumption == None \notin Item \cup Reason \cup {"ok", "blocked", "error"}

\* Types; one item is being settled between the race and the next refill, and
\* items are leased and not started only while a batch is launched.
TypeOK ==
    /\ at \in At /\ item \in [Item -> Status]
    /\ batch \subseteq Item /\ active \subseteq Item /\ held \subseteq Item /\ open \subseteq Item
    /\ current \in Item \cup {None} /\ (current # None <=> at \in {"close", "closed"})
    /\ batch # {} => at = "dispatch"
    /\ worker \in [Item -> {"none", "on", "done", "failed"}]
    /\ signal \in BOOLEAN /\ blocked \in BOOLEAN /\ reason \in Reason \cup {None}
    /\ results \in [Item -> 0..2]
    /\ verdict \in {None, "ok", "blocked", "error"}

Init ==
    /\ at = "init"
    /\ item = [i \in Item |-> IF i \in FollowUp THEN "absent" ELSE "pending"]
    /\ batch = {} /\ active = {} /\ held = {} /\ open = {} /\ current = None
    /\ worker = [i \in Item |-> "none"] /\ results = [i \in Item |-> 0]
    /\ signal \in BOOLEAN
    /\ reason = None /\ blocked = FALSE /\ verdict = None

-----------------------------------------------------------------------------
(* The queue.                                                              *)

\* The rows of the queue.
Rows == {i \in Item : item[i] # "absent"}

\* queue.items.find: the first row with the id of i.
FirstOfId(i) ==
    i \in Rows /\ \A j \in Rows : Id[j] = Id[i] => Rank[i] <= Rank[j]

\* No other row has the id of i.
Alone(i) == \A j \in Rows : Id[j] = Id[i] => j = i

\* unfinishedWorkItems
Unfinished == {i \in Item : item[i] \in {"pending", "running"}}

\* pendingWorkItems: a dependency may name what never comes into the queue.
Ready == {i \in Item : /\ item[i] = "pending"
                       /\ \A d \in Deps[i] : \E j \in Item : Id[j] = d /\ item[j] = "completed"}

Running == {i \in Item : item[i] = "running"}
Generated == {i \in FollowUp : item[i] # "absent"}

\* leaseNextWorkItem passes over an item that writes a path of a running one.
Clear(i, S) == \A j \in S : i # j => Paths[i] \cap Paths[j] = {}

\* mutant: the running items' paths are read once for the batch.
BatchesReadOnce ==
    {B \in SUBSET Ready :
        /\ \A i \in B : Clear(i, Running)
        /\ Cardinality(active) + Cardinality(B) <= Target
        /\ Cardinality(held) + Cardinality(B) <= Target
        /\ \/ Target \in {Cardinality(active) + Cardinality(B), Cardinality(held) + Cardinality(B)}
           \/ \A i \in Ready \ B : ~Clear(i, Running \cup B)}

\* collectLaunchBatch: leases until the target is reached, no slot is idle, or
\* nothing can be leased.
Batches ==
    {B \in SUBSET Ready :
        /\ \A i \in B : Clear(i, Running \cup B)
        /\ Cardinality(active) + Cardinality(B) <= Target
        /\ Cardinality(held) + Cardinality(B) <= Target
        /\ \/ Target \in {Cardinality(active) + Cardinality(B), Cardinality(held) + Cardinality(B)}
           \/ \A i \in Ready \ B : ~Clear(i, Running \cup B)}

\* writeAll: a callback that fails or takes too long is one more blocker.
WriteAll(b) == blocked' \in {b, TRUE}

\* stopScheduler up to its first await, where onStop cleans up.
StopFor(r) ==
    /\ reason' = r /\ at' = "stopping" /\ blocked' = TRUE

-----------------------------------------------------------------------------
(* refillSlots.                                                            *)

Initialise ==
    /\ at = "init" /\ at' = "refill" /\ WriteAll(blocked)
    /\ UNCHANGED <<queueVars, signal, reason, verdict>>

\* A batch is leased; without one the loop goes on, unless nothing is left to
\* wait for, which the second attempt of the loop then gives up.
Collect ==
    /\ at = "refill" /\ ~signal
    /\ \E B \in Batches :
          /\ batch' = B
          /\ item' = [i \in Item |-> IF i \in B THEN "running" ELSE item[i]]
          /\ IF B # {} THEN at' = "dispatch" /\ UNCHANGED <<reason, blocked>>
             ELSE IF active = {} /\ Ready # {} THEN StopFor("no_slot")
             ELSE at' = "top" /\ UNCHANGED <<reason, blocked>>
    /\ UNCHANGED <<active, held, current, worker, open, results, signal, verdict>>

\* The slots are opened and the records written; then all are started.
Dispatch ==
    /\ at = "dispatch" /\ at' = "dispatched"
    /\ held' = held \cup batch /\ open' = open \cup batch /\ active' = active \cup batch
    /\ worker' = [i \in Item |-> IF i \in batch THEN "on" ELSE worker[i]]
    /\ batch' = {} /\ WriteAll(blocked)
    /\ UNCHANGED <<item, current, results, signal, reason, verdict>>

\* A write of the batch throws, before the workers are started or after.
DispatchFails ==
    /\ \/ /\ at = "dispatch" /\ held' = held \cup batch
          /\ \E S \in SUBSET batch : open' = open \cup S
       \/ at = "dispatched" /\ UNCHANGED <<held, open>>
    /\ batch' = {} /\ StopFor("dispatch")
    /\ UNCHANGED <<item, active, current, worker, results, signal, verdict>>

Dispatched ==
    /\ at = "dispatched" /\ at' = "top" /\ WriteAll(blocked)
    /\ UNCHANGED <<queueVars, signal, reason, verdict>>

-----------------------------------------------------------------------------
(* The loop.                                                               *)

\* mutant: the signal is not raced with the workers.
StopBetweenWaits ==
    /\ at \in {"refill", "top", "dispatched"} /\ signal
    /\ at = "top" => Unfinished # {} \/ active # {}
    /\ StopFor("signal")
    /\ UNCHANGED <<queueVars, signal, verdict>>

\* The signal is looked at before a batch is leased and at the top of the
\* loop, and raced with the delay after a batch and with the workers.
StopOnSignal ==
    /\ at \in {"refill", "top", "dispatched", "wait"} /\ signal
    /\ at = "top" => Unfinished # {} \/ active # {}
    /\ StopFor("signal")
    /\ UNCHANGED <<queueVars, signal, verdict>>

\* The condition of the loop, and its first branches.
Loop ==
    /\ at = "top" /\ (signal => Unfinished = {} /\ active = {})
    /\ IF active # {} THEN at' = "wait" /\ UNCHANGED <<reason, blocked>>
       ELSE IF Unfinished = {} THEN at' = "drain" /\ UNCHANGED <<reason, blocked>>
       ELSE IF Ready # {} THEN at' = "refill" /\ UNCHANGED <<reason, blocked>>
       ELSE StopFor("dependencies")
    /\ UNCHANGED <<queueVars, signal, verdict>>

\* completeWorkItem, when the worker of i has ended.
Complete(i) ==
    \E r \in Item :
        /\ FirstOfId(r) /\ Id[r] = Id[i]
        /\ item' = [item EXCEPT ![r] = IF worker[i] = "done" THEN "completed" ELSE "failed"]

\* mutant: the slot of a worker that failed stays taken.
SettleKeepingSlot(i) ==
    /\ at = "wait" /\ i \in active /\ worker[i] \in {"done", "failed"}
    /\ at' = "close" /\ current' = i
    /\ active' = active \ {i} /\ held' = IF worker[i] = "done" THEN held \ {i} ELSE held
    /\ Complete(i)
    /\ blocked' = (blocked \/ worker[i] = "failed")
    /\ UNCHANGED <<batch, worker, open, results, signal, reason, verdict>>

\* One worker has won the race.
Settle(i) ==
    /\ at = "wait" /\ i \in active /\ worker[i] \in {"done", "failed"}
    /\ at' = "close" /\ current' = i
    /\ active' = active \ {i} /\ held' = held \ {i}
    /\ Complete(i)
    /\ blocked' = (blocked \/ worker[i] = "failed")
    /\ UNCHANGED <<batch, worker, open, results, signal, reason, verdict>>

\* enqueueFollowUpWorkItems: of what is asked for, as much as the bound leaves
\* room for is taken, and what has the id of a row in the queue passed over (two
\* of one list may have one id); whatever is not accepted, or not valid, is a
\* blocker.
Enqueue ==
    LET room == MaxExpansion - Cardinality(Generated) IN
    \E asked \in SUBSET FollowUp : \E taken \in SUBSET asked :
        LET accepted == {i \in taken : \A j \in Rows : Id[j] # Id[i]} IN
        /\ Cardinality(taken) <= room
        /\ taken = asked \/ Cardinality(taken) = room
        /\ item' = [i \in Item |-> IF i \in accepted THEN "pending" ELSE item[i]]
        /\ \E invalid \in BOOLEAN : blocked' = (blocked \/ accepted # asked \/ invalid)

\* The session record is closed and the result kept; a completed one's
\* follow-ups are enqueued.
Close ==
    /\ at = "close" /\ at' = "closed"
    /\ open' = open \ {current} /\ results' = [results EXCEPT ![current] = @ + 1]
    /\ \/ worker[current] = "done" /\ Enqueue
       \/ UNCHANGED <<item, blocked>>
    /\ UNCHANGED <<batch, active, held, current, worker, signal, reason, verdict>>

\* mutant: slots are refilled only when something new came into the queue.
ClosedToLoop ==
    /\ at = "closed" /\ at' = "top" /\ current' = None /\ WriteAll(blocked)
    /\ UNCHANGED <<item, batch, active, held, worker, open, results, signal, reason, verdict>>

Closed ==
    /\ at = "closed" /\ at' = "refill" /\ current' = None /\ WriteAll(blocked)
    /\ UNCHANGED <<item, batch, active, held, worker, open, results, signal, reason, verdict>>

-----------------------------------------------------------------------------
(* The end.                                                                *)

\* mutant: only the sessions waited for are given a result.
StoppedWithoutTheRest == active

\* stopScheduler gives one to each of them, and to every item that has not ended
\* and has not the id of one of them.
StoppedResults ==
    active \cup {i \in Unfinished : \A j \in active : Id[j] # Id[i]}

\* What the sessions waited for complete by id, and whatever has not ended.
Blocked ==
    Unfinished \cup {i \in Item : FirstOfId(i) /\ \E j \in active : Id[j] = Id[i]}

\* After onStop: the sessions are closed (a record that cannot be is left).
SettleStopped ==
    /\ at = "stopping" /\ at' = "stopped"
    /\ results' = [i \in Item |-> results[i] + IF i \in StoppedResults THEN 1 ELSE 0]
    /\ item' = [i \in Item |-> IF i \in Blocked THEN "blocked" ELSE item[i]]
    /\ held' = held \ active /\ active' = {}
    /\ \E S \in SUBSET active : open' = open \ S
    /\ UNCHANGED <<batch, current, worker, endVars>>

Stopped ==
    /\ at = "stopped" /\ at' = "drain" /\ WriteAll(blocked)
    /\ UNCHANGED <<queueVars, signal, reason, verdict>>

\* What is left over is a blocker, or the run is drained.
Drain ==
    /\ at = "drain" /\ at' = "drained"
    /\ WriteAll(blocked \/ Unfinished # {} \/ active # {} \/ held # {})
    /\ UNCHANGED <<queueVars, signal, reason, verdict>>

\* The last writeAll may still take the claim back.
Return ==
    /\ at = "drained" /\ at' = "end" /\ WriteAll(blocked)
    /\ verdict' = IF blocked' THEN "blocked" ELSE "ok"
    /\ UNCHANGED <<queueVars, signal, reason>>

\* A write that nobody catches throws; the stop signal goes with the call.
Throw ==
    /\ at \in {"init", "close", "closed", "top", "stopped", "drain", "drained"}
    /\ at' = "end" /\ verdict' = "error" /\ current' = None
    /\ UNCHANGED <<item, batch, active, held, worker, open, results, signal, reason, blocked>>

-----------------------------------------------------------------------------
(* Around it.                                                              *)

\* launchSession settles, whether or not the scheduler still waits for it.
WorkerEnds(i) ==
    /\ worker[i] = "on"
    /\ \E s \in {"done", "failed"} : worker' = [worker EXCEPT ![i] = s]
    /\ UNCHANGED <<at, item, batch, active, held, current, open, results, endVars>>

\* The wall budget is used up, or the caller aborts.
Signal ==
    /\ at # "end" /\ ~signal /\ signal' = TRUE
    /\ UNCHANGED <<at, queueVars, reason, blocked, verdict>>

\* Nothing is left to do.
Ended == at = "end" /\ (\A i \in Item : worker[i] # "on") /\ UNCHANGED vars

Step ==
    \/ Initialise \/ Collect \/ Dispatch \/ DispatchFails \/ Dispatched
    \/ StopOnSignal \/ Loop \/ (\E i \in Item : Settle(i)) \/ Close \/ Closed
    \/ SettleStopped \/ Stopped \/ Drain \/ Return \/ Throw

Next == Step \/ Signal \/ Ended \/ \E i \in Item : WorkerEnds(i)

Spec == Init /\ [][Next]_vars

\* What is awaited ends: files are written, callbacks are bounded by timers
\* and the wall budget has one too.  A worker may never settle.
FairSpec == Spec /\ WF_vars(Step) /\ WF_vars(Signal)

-----------------------------------------------------------------------------
(* Properties.                                                             *)

\* While the scheduler waits, no worker could be started: the target is
\* reached, or whatever is ready writes a path that is being written.
NoIdleSlot ==
    at = "wait" => \/ Cardinality(active) = Target
                   \/ \A i \in Ready : ~Clear(i, Running)

\* Every item that came into the queue under an id of its own has one result when
\* the scheduler returns, whoever settled it (of two rows with one id the code
\* completes one twice: one may get none, or two); and a success leaves no session
\* record open.
EveryItemAnswered ==
    /\ verdict \in {"ok", "blocked"} =>
          \A i \in Item : IF i \notin Rows THEN results[i] = 0
                          ELSE Alone(i) => results[i] = 1
    /\ verdict = "ok" => open = {}

\* Two rows of the queue have one id.
Twins == \E i \in Rows : ~Alone(i)

\* The run is given up for its dependencies only when an item failed or names an
\* id that is not in the queue, and never for want of a slot; unless two rows have
\* one id, when the code leaves one of them running for ever.
StallsOnlyOnFailure ==
    /\ reason = "no_slot" => Twins
    /\ reason = "dependencies" =>
          \/ \E i \in Item : item[i] = "failed"
          \/ \E i \in Rows : \E d \in Deps[i] : \A j \in Rows : Id[j] # d
          \/ Twins

\* Whatever its workers do, the scheduler comes to an end.
Returns == <>(at = "end")

\* What an item is to WorkPool is what its worker does.
Work(i) == IF item[i] = "absent" THEN "absent"
           ELSE IF worker[i] = "none" THEN "waiting"
           ELSE IF worker[i] = "on" THEN "running" ELSE worker[i]

Answered == IF verdict # None THEN verdict
            ELSE IF reason # None THEN "stopping" ELSE "open"

Pool == INSTANCE WorkPool WITH work <- [i \in Item |-> Work(i)], answer <- Answered

\* Refinement: launches, stops and answers of the scheduler are the pool's.
ImplementsWorkPool == Pool!PoolSpec
=============================================================================
