------------------------ MODULE ModelCallSemaphore ------------------------
(***************************************************************************)
(* The semaphore of the model calls to one provider                        *)
(* (core/codex-control/model-call-concurrency.ts).                         *)
(*                                                                         *)
(* All calls run in one event loop.  run() is synchronous up to the await  *)
(* of acquire(), and a call that has been given a slot goes on in a later  *)
(* turn of the loop: between the two it holds the slot without running.    *)
(* Other calls may enter, end and be granted slots in that window.         *)
(***************************************************************************)
EXTENDS Naturals, Sequences, FiniteSets

CONSTANTS
    Call,      \* callers of run(); a caller may call again and again
    Budget

ASSUME CallAssumption == IsFiniteSet(Call)
ASSUME BudgetAssumption == Budget \in Nat \ {0}

VARIABLES
    inUse,     \* the field "active"
    queued, maxObserved,
    waiters,   \* resolve functions of the calls that wait, first come first
    pc         \* "out", "waiting", "granted" or "running"

semaphoreVars == <<inUse, queued, maxObserved, waiters, pc>>

SemaphoreTypeOK ==
    /\ inUse \in Nat
    /\ queued \in Nat
    /\ maxObserved \in Nat
    /\ waiters \in Seq(Call)
    /\ pc \in [Call -> {"out", "waiting", "granted", "running"}]

SemaphoreInit ==
    /\ inUse = 0 /\ queued = 0 /\ maxObserved = 0
    /\ waiters = <<>>
    /\ pc = [c \in Call |-> "out"]

Become(c, state) == pc' = [pc EXCEPT ![c] = state]

\* acquire() with a free slot.
Acquire(c) ==
    /\ pc[c] = "out"
    /\ inUse < Budget
    /\ inUse' = inUse + 1
    /\ maxObserved' = IF inUse' > maxObserved THEN inUse' ELSE maxObserved
    /\ Become(c, "granted")
    /\ UNCHANGED <<queued, waiters>>

Unqueued(c) ==   \* mutant: the newest waiter is served first
    <<c>> \o waiters

Queued(c) == Append(waiters, c)

\* acquire() without one.
Await(c) ==
    /\ pc[c] = "out"
    /\ inUse >= Budget
    /\ queued' = queued + 1
    /\ waiters' = Queued(c)
    /\ Become(c, "waiting")
    /\ UNCHANGED <<inUse, maxObserved>>

UnqueueAgain(c) ==   \* mutant: the woken call takes itself off the queue count too
    /\ pc[c] = "granted"
    /\ Become(c, "running")
    /\ queued' = queued - 1
    /\ UNCHANGED <<inUse, maxObserved, waiters>>

\* The event loop comes to a call that holds a slot: the task starts.
Resume(c) ==
    /\ pc[c] = "granted"
    /\ Become(c, "running")
    /\ UNCHANGED <<inUse, queued, maxObserved, waiters>>

FreeFirst ==   \* mutant: the slot is free until the waiter resumes
    inUse' = inUse - 1

KeepSlot == inUse' = inUse

LostWake(c) ==   \* mutant: the waiter is shifted but not woken
    /\ pc[c] = "running"
    /\ waiters # <<>>
    /\ queued' = queued - 1
    /\ waiters' = Tail(waiters)
    /\ Become(c, "out")
    /\ UNCHANGED <<inUse, maxObserved>>

\* release() in the finally of run(), the task has ended or has thrown: the
\* slot passes to the first waiter ...
HandOver(c) ==
    /\ pc[c] = "running"
    /\ waiters # <<>>
    /\ queued' = queued - 1
    /\ waiters' = Tail(waiters)
    /\ pc' = [pc EXCEPT ![c] = "out", ![Head(waiters)] = "granted"]
    /\ KeepSlot
    /\ UNCHANGED maxObserved

\* ... or is free.
Release(c) ==
    /\ pc[c] = "running"
    /\ waiters = <<>>
    /\ inUse' = IF inUse > 0 THEN inUse - 1 ELSE 0
    /\ Become(c, "out")
    /\ UNCHANGED <<queued, maxObserved, waiters>>

End(c) == HandOver(c) \/ Release(c)

SemaphoreNext == \E c \in Call : Acquire(c) \/ Await(c) \/ Resume(c) \/ HandOver(c) \/ Release(c)

SemaphoreSpec == SemaphoreInit /\ [][SemaphoreNext]_semaphoreVars

\* The event loop gets to every call that holds a slot, and tasks end: a model
\* call has a timeout.  Nobody has to call.
Fairness == \A c \in Call : WF_semaphoreVars(Resume(c)) /\ WF_semaphoreVars(End(c))

FairSemaphore == SemaphoreSpec /\ Fairness

-----------------------------------------------------------------------------
(***************************************************************************)
(* Properties                                                              *)
(***************************************************************************)
Using == {c \in Call : pc[c] \in {"granted", "running"}}

\* No more calls hold a slot than the budget allows, whatever the counter says:
\* no slot is given twice in the turn between release and resume.
WithinBudget == Cardinality(Using) <= Budget

\* A slot is never idle while a call waits: a slot lost on the way from a task
\* that throws would leave calls waiting beside it.
NoSlotIdle == waiters # <<>> => Cardinality(Using) = Budget

\* Who waits is served, however many others call in the meantime.
WaiterServed == \A c \in Call : pc[c] = "waiting" ~> pc[c] = "running"
=============================================================================
