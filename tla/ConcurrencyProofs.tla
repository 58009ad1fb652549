------------------------- MODULE ConcurrencyProofs --------------------------
(***************************************************************************)
(* Proofs about what bounds how many agents and how many model calls are   *)
(* at work: AgentScheduler, for any items, dependencies and bounds, and    *)
(* ModelCallSemaphore, for any callers and any budget, at the end.         *)
(*                                                                         *)
(* The scheduler's inductive invariant relates the five accounts it keeps  *)
(* of an item (its status, the batch, the sessions waited for, the records *)
(* and the results) to each other and to what the worker really does.      *)
(***************************************************************************)
EXTENDS AgentScheduler, ModelCallSemaphore, FiniteSetTheorems, TLAPS

\* The status of an item against its worker.  The worker of a row whose id is not
\* its own may have completed another: only the first row of an id is ever completed.
Bookkeeping ==
    /\ \A i \in active : /\ item[i] # "absent" /\ worker[i] # "none"
                         /\ Alone(i) => item[i] = "running"
    /\ \A i \in batch : /\ item[i] = "running" /\ worker[i] = "none"
                        /\ \A d \in Deps[i] : \E j \in Item : Id[j] = d /\ item[j] = "completed"
    /\ \A i \in Item : item[i] \in {"absent", "pending"} => worker[i] = "none"
    /\ \A i \in Item : item[i] = "completed" => \E j \in Item : Id[j] = Id[i] /\ worker[j] = "done"
    /\ \A i \in Item : item[i] = "running" /\ Alone(i) => i \in active \/ i \in batch \/ at = "stopping"
    /\ \A i \in Item : worker[i] = "on" => i \in active \/ reason # None
    /\ reason = None => \A i \in Rows : item[i] \in {"pending", "running"} \/ FirstOfId(i)

\* What a stop has done, and what is over when it is.
Stopping ==
    /\ reason # None => at \in {"stopping", "stopped", "drain", "drained", "end"} /\ blocked
    /\ at = "stopping" => reason # None
    /\ verdict # None <=> at = "end"
    /\ verdict = "ok" => ~blocked
    /\ ~blocked => reason = None /\ \A i \in Item : item[i] \notin {"failed", "blocked"}
    /\ at \in {"stopped", "drain", "drained"} \/ verdict \in {"ok", "blocked"} =>
          active = {} /\ Unfinished = {}

\* No more than may be are waited for, launched and enqueued.
Fits ==
    /\ Cardinality(active) + Cardinality(batch) <= Target
    /\ Cardinality(Generated) <= MaxExpansion

\* No result for what has not ended, nor for the row being settled; and one for what
\* has, if no other row has its id.
Accounting ==
    /\ verdict # "error" =>
        /\ \A i \in Item : \/ item[i] \in {"absent", "pending"}
                           \/ i \in active \cup batch
                           \/ at = "close" /\ i = current
                           => results[i] = 0
        /\ \A i \in Item : Alone(i) =>
              results[i] = IF /\ item[i] \in {"completed", "failed", "blocked"}
                              /\ ~(at = "close" /\ i = current)
                           THEN 1 ELSE 0
    /\ at \in {"stopped", "drain", "drained", "end"} \/ \A i \in Item : results[i] <= 1
    /\ at = "close" => /\ worker[current] # "none" /\ current \notin active
                       /\ Alone(current) => item[current] \in {"completed", "failed"}

\* Until a stop, slots and records are those of the sessions waited for.
Records ==
    reason = None /\ verdict # "error" =>
        /\ held = active
        /\ \A i \in open : i \in active \/ (at = "close" /\ i = current)

\* A batch takes all that fits.
Busy ==
    at \in {"dispatch", "dispatched", "top", "wait"} =>
        \/ Cardinality(active) + Cardinality(batch) = Target
        \/ \A i \in Ready : ~Clear(i, Running)

SchedulerInv ==
    TypeOK /\ Bookkeeping /\ Stopping /\ Fits /\ Accounting /\ Records /\ Busy

\* The initial state satisfies the invariant.
LEMMA InitInv == Init => SchedulerInv
  <1> SUFFICES ASSUME Init PROVE SchedulerInv
    OBVIOUS
  <1> USE DEF Init
  <1>0. Generated = {} /\ Cardinality({}) = 0
    BY FS_EmptySet, ItemAssumption DEF Generated
  <1>1. TypeOK
    <2>1. item \in [Item -> Status] /\ worker \in [Item -> {"none", "on", "done", "failed"}] /\ at \in At
      BY DEF At, Status
    <2>2. results \in [Item -> 0..2]
      <3>1. 0 \in 0..2
        OBVIOUS
      <3> QED BY <3>1
    <2> QED BY <2>1, <2>2 DEF TypeOK
  <1>2. Bookkeeping
    BY DEF Bookkeeping, Rows
  <1>3. Stopping
    BY NoneAssumption DEF Stopping
  <1>4. Fits
    BY <1>0, BoundAssumption DEF Fits
  <1>5. Accounting
    BY DEF Accounting
  <1>6. Records /\ Busy
    BY DEF Records, Busy
  <1> QED BY <1>1, <1>2, <1>3, <1>4, <1>5, <1>6 DEF SchedulerInv

\* The sets whose sizes are compared are finite.
LEMMA Sizes ==
    ASSUME TypeOK
    PROVE  /\ IsFiniteSet(active) /\ Cardinality(active) \in Nat
           /\ IsFiniteSet(batch) /\ Cardinality(batch) \in Nat
           /\ IsFiniteSet(Generated) /\ Cardinality(Generated) \in Nat
           /\ Cardinality({}) = 0
  <1>1. active \subseteq Item /\ batch \subseteq Item /\ Generated \subseteq Item
    BY ItemAssumption DEF TypeOK, Generated
  <1> QED BY <1>1, ItemAssumption, FS_Subset, FS_CardinalityType, FS_EmptySet

\* While no row comes into the queue, who is first and who is alone stays.
LEMMA SameRows ==
    ASSUME \A i \in Item : item'[i] = "absent" <=> item[i] = "absent"
    PROVE  /\ Rows' = Rows /\ Rows \subseteq Item
           /\ \A i \in Item : (Alone(i)' <=> Alone(i)) /\ (FirstOfId(i)' <=> FirstOfId(i))
  <1>1. Rows' = Rows
    BY DEF Rows
  <1>2. Rows \subseteq Item
    BY DEF Rows
  <1> QED BY <1>1, <1>2 DEF Alone, FirstOfId

\* Initialise keeps the invariant.
LEMMA InitialiseKeeps ==
    ASSUME SchedulerInv, Initialise PROVE SchedulerInv'
  <1> USE DEF SchedulerInv, Initialise, WriteAll, queueVars
  <1>0. item' = item
    OBVIOUS
  <1>s. /\ Rows' = Rows /\ Rows \subseteq Item
        /\ \A j \in Item : (Alone(j)' <=> Alone(j)) /\ (FirstOfId(j)' <=> FirstOfId(j))
    BY <1>0, SameRows
  <1>1. TypeOK'
    BY NoneAssumption DEF TypeOK, At, Reason, Status
  <1>2. Bookkeeping'
    BY <1>s, NoneAssumption DEF TypeOK, Bookkeeping, Reason
  <1>3. Stopping'
    BY NoneAssumption DEF TypeOK, Stopping, Unfinished, Reason
  <1>4. Fits'
    BY NoneAssumption DEF Fits, Generated
  <1>5. Accounting'
    BY <1>s, NoneAssumption DEF TypeOK, Accounting, Stopping
  <1>6. Records'
    BY NoneAssumption DEF TypeOK, Records, Stopping
  <1>7. Busy'
    BY NoneAssumption DEF Busy, Ready, Running, Clear
  <1> QED BY <1>1, <1>2, <1>3, <1>4, <1>5, <1>6, <1>7

\* Collect keeps the invariant.
LEMMA CollectKeeps ==
    ASSUME SchedulerInv, Collect PROVE SchedulerInv'
  <1>p. PICK B \in Batches :
          /\ batch' = B
          /\ item' = [i \in Item |-> IF i \in B THEN "running" ELSE item[i]]
          /\ IF B # {} THEN at' = "dispatch" /\ UNCHANGED <<reason, blocked>>
             ELSE IF active = {} /\ Ready # {} THEN StopFor("no_slot")
             ELSE at' = "top" /\ UNCHANGED <<reason, blocked>>
    BY DEF Collect
  <1>u. /\ at = "refill"
        /\ UNCHANGED <<active, held, current, worker, open, results, signal, verdict>>
    BY DEF Collect
  <1>a. /\ B \subseteq Ready /\ B \subseteq Item
        /\ \A i \in B : Clear(i, Running \cup B)
        /\ Cardinality(active) + Cardinality(B) <= Target
        /\ \/ Target \in {Cardinality(active) + Cardinality(B), Cardinality(held) + Cardinality(B)}
           \/ \A i \in Ready \ B : ~Clear(i, Running \cup B)
    BY <1>p DEF Batches, Ready
  <1>b. /\ batch = {} /\ reason = None /\ verdict = None /\ held = active /\ current = None
        /\ active \subseteq Item
    BY <1>u, NoneAssumption DEF SchedulerInv, TypeOK, Stopping, Records
  <1>c. /\ item \in [Item -> Status] /\ worker \in [Item -> {"none", "on", "done", "failed"}]
        /\ \A i \in B : item[i] = "pending" /\ worker[i] = "none"
        /\ \A i \in B : \A d \in Deps[i] : \E j \in Item : Id[j] = d /\ item[j] = "completed"
    BY <1>a DEF SchedulerInv, TypeOK, Bookkeeping, Ready
  <1>d. \A i \in Item : item'[i] = IF i \in B THEN "running" ELSE item[i]
    BY <1>p
  <1>s. /\ Rows' = Rows /\ Rows \subseteq Item
        /\ \A j \in Item : (Alone(j)' <=> Alone(j)) /\ (FirstOfId(j)' <=> FirstOfId(j))
    BY <1>c, <1>d, SameRows
  <1>e. \/ at' \in {"dispatch", "top"} /\ reason' = reason /\ blocked' = blocked
        \/ at' = "stopping" /\ reason' = "no_slot" /\ blocked' = TRUE /\ B = {}
    <2>1. CASE B # {}
      BY <1>p, <2>1
    <2>2. CASE B = {} /\ active = {} /\ Ready # {}
      BY <1>p, <2>2 DEF StopFor
    <2>3. CASE B = {} /\ ~(active = {} /\ Ready # {})
      BY <1>p, <2>3
    <2> QED BY <2>1, <2>2, <2>3
  <1>f. B # {} => at' = "dispatch"
    BY <1>p
  <1>g. Generated' = Generated
    BY <1>p, <1>c, ItemAssumption DEF Generated
  <1>1. TypeOK'
    BY <1>a, <1>b, <1>c, <1>e, <1>f, <1>p, <1>u DEF SchedulerInv, TypeOK, At, Reason, Status
  <1>2. Bookkeeping'
    <2> USE DEF SchedulerInv, Bookkeeping
    <2>1. \A i \in active : /\ item'[i] # "absent" /\ worker[i] # "none"
                            /\ Alone(i)' => item'[i] = "running"
      BY <1>b, <1>d, <1>s
    <2>2. \A i \in B : /\ item'[i] = "running" /\ worker[i] = "none"
                       /\ \A d \in Deps[i] : \E j \in Item : Id[j] = d /\ item'[j] = "completed"
      <3>1. \A j \in Item : item[j] = "completed" => item'[j] = "completed"
        BY <1>c, <1>d
      <3> QED BY <3>1, <1>a, <1>c, <1>d
    <2>3. \A i \in Item : item'[i] \in {"absent", "pending"} => worker[i] = "none"
      BY <1>d
    <2>4. \A i \in Item : item'[i] = "completed" => \E j \in Item : Id[j] = Id[i] /\ worker[j] = "done"
      BY <1>d
    <2>5. \A i \in Item : item'[i] = "running" /\ Alone(i)' => i \in active \/ i \in B
      BY <1>b, <1>d, <1>s, <1>u
    <2>6. \A i \in Item : worker[i] = "on" => i \in active
      BY <1>b
    <2>7. \A i \in Rows' : item'[i] \in {"pending", "running"} \/ FirstOfId(i)'
      BY <1>b, <1>d, <1>s
    <2> QED BY <2>1, <2>2, <2>3, <2>4, <2>5, <2>6, <2>7, <1>p, <1>u
  <1>3. Stopping'
    BY <1>b, <1>c, <1>e, <1>p, <1>u, NoneAssumption DEF SchedulerInv, Stopping, Reason
  <1>4. Fits'
    BY <1>a, <1>g, <1>p, <1>u DEF SchedulerInv, Fits
  <1>5. Accounting'
    BY <1>a, <1>b, <1>c, <1>d, <1>e, <1>p, <1>s, <1>u, NoneAssumption DEF SchedulerInv, Accounting
  <1>6. Records'
    BY <1>b, <1>e, <1>u DEF SchedulerInv, Records
  <1>7. Busy'
    <2>1. Running' = Running \cup B
      BY <1>a, <1>c, <1>p DEF Running
    <2>2. Ready' \subseteq Ready \ B
      BY <1>a, <1>c, <1>p DEF Ready
    <2>3. CASE \A i \in Ready \ B : ~Clear(i, Running \cup B)
      <3>1. \A i \in Ready' : ~Clear(i, Running')
        BY <2>1, <2>2, <2>3
      <3>2. \A i : Clear(i, Running)' = Clear(i, Running')
        BY DEF Clear
      <3> QED BY <3>1, <3>2 DEF Busy, Clear
    <2>4. CASE Target = Cardinality(active) + Cardinality(B)
      BY <2>4, <1>p, <1>u DEF Busy
    <2> QED BY <2>3, <2>4, <1>a, <1>b
  <1> QED BY <1>1, <1>2, <1>3, <1>4, <1>5, <1>6, <1>7 DEF SchedulerInv

\* Dispatch keeps the invariant.
LEMMA DispatchKeeps ==
    ASSUME SchedulerInv, Dispatch PROVE SchedulerInv'
  <1> USE DEF SchedulerInv, Dispatch, WriteAll
  <1>a. /\ active \cap batch = {} /\ current = None
        /\ Cardinality(active \cup batch) = Cardinality(active) + Cardinality(batch)
    <2>1. active \cap batch = {} /\ current = None
      BY NoneAssumption DEF Bookkeeping, TypeOK
    <2>2. Cardinality(active \cup batch) = Cardinality(active) + Cardinality(batch) - Cardinality(active \cap batch)
      BY Sizes, FS_Union
    <2>3. Cardinality(active \cap batch) = 0
      BY <2>1, FS_EmptySet
    <2> QED BY <2>1, <2>2, <2>3, Sizes
  <1>0. item' = item
    OBVIOUS
  <1>s. /\ Rows' = Rows /\ Rows \subseteq Item
        /\ \A j \in Item : (Alone(j)' <=> Alone(j)) /\ (FirstOfId(j)' <=> FirstOfId(j))
    BY <1>0, SameRows
  <1>1. TypeOK'
    BY NoneAssumption DEF TypeOK, At, Reason, Status
  <1>2. Bookkeeping'
    BY <1>s, NoneAssumption DEF TypeOK, Bookkeeping, Reason
  <1>3. Stopping'
    BY NoneAssumption DEF TypeOK, Stopping, Unfinished, Reason
  <1>4. Fits'
    BY <1>a, Sizes, BoundAssumption DEF Fits, Generated
  <1>5. Accounting'
    BY <1>s, NoneAssumption DEF TypeOK, Accounting, Stopping
  <1>6. Records'
    BY NoneAssumption DEF TypeOK, Records, Stopping
  <1>7. Busy'
    <2>1. Ready' = Ready /\ Running' = Running
      BY DEF Ready, Running
    <2>2. Cardinality(active') + Cardinality(batch') = Cardinality(active) + Cardinality(batch)
      BY <1>a, Sizes
    <2> QED BY <2>1, <2>2 DEF Busy, Clear
  <1> QED BY <1>1, <1>2, <1>3, <1>4, <1>5, <1>6, <1>7

\* DispatchFails keeps the invariant.
LEMMA DispatchFailsKeeps ==
    ASSUME SchedulerInv, DispatchFails PROVE SchedulerInv'
  <1> USE DEF SchedulerInv, DispatchFails, StopFor
  <1>0. item' = item
    OBVIOUS
  <1>s. /\ Rows' = Rows /\ Rows \subseteq Item
        /\ \A j \in Item : (Alone(j)' <=> Alone(j)) /\ (FirstOfId(j)' <=> FirstOfId(j))
    BY <1>0, SameRows
  <1>1. TypeOK'
    BY NoneAssumption DEF TypeOK, At, Reason, Status
  <1>2. Bookkeeping'
    <2>1. reason' # None /\ at' = "stopping" /\ batch' = {}
      BY NoneAssumption DEF Reason
    <2>2. item' = item /\ worker' = worker /\ active' = active
      OBVIOUS
    <2> HIDE DEF DispatchFails
    <2> QED BY <2>1, <2>2, <1>s DEF Bookkeeping, TypeOK
  <1>3. Stopping'
    BY NoneAssumption DEF TypeOK, Stopping, Unfinished, Reason
  <1>4. Fits'
    <2>1. Generated' = Generated
      BY DEF Generated
    <2>2. Cardinality(active) + Cardinality(batch') <= Target
      BY Sizes, BoundAssumption DEF Fits
    <2> QED BY <2>1, <2>2 DEF Fits
  <1>5. Accounting'
    BY <1>s, NoneAssumption DEF TypeOK, Accounting, Stopping
  <1>6. Records'
    <2>1. reason' # None
      BY NoneAssumption DEF Reason
    <2> QED BY <2>1 DEF Records
  <1>7. Busy'
    BY NoneAssumption DEF Busy, Ready, Running, Clear
  <1> QED BY <1>1, <1>2, <1>3, <1>4, <1>5, <1>6, <1>7

\* Dispatched keeps the invariant.
LEMMA DispatchedKeeps ==
    ASSUME SchedulerInv, Dispatched PROVE SchedulerInv'
  <1> USE DEF SchedulerInv, Dispatched, WriteAll, queueVars
  <1>0. item' = item
    OBVIOUS
  <1>s. /\ Rows' = Rows /\ Rows \subseteq Item
        /\ \A j \in Item : (Alone(j)' <=> Alone(j)) /\ (FirstOfId(j)' <=> FirstOfId(j))
    BY <1>0, SameRows
  <1>1. TypeOK'
    BY NoneAssumption DEF TypeOK, At, Reason, Status
  <1>2. Bookkeeping'
    BY <1>s, NoneAssumption DEF TypeOK, Bookkeeping, Reason
  <1>3. Stopping'
    BY NoneAssumption DEF TypeOK, Stopping, Unfinished, Reason
  <1>4. Fits'
    BY NoneAssumption DEF Fits, Generated
  <1>5. Accounting'
    BY <1>s, NoneAssumption DEF TypeOK, Accounting, Stopping
  <1>6. Records'
    BY NoneAssumption DEF TypeOK, Records, Stopping
  <1>7. Busy'
    BY NoneAssumption DEF Busy, Ready, Running, Clear
  <1> QED BY <1>1, <1>2, <1>3, <1>4, <1>5, <1>6, <1>7

\* StopOnSignal keeps the invariant.
LEMMA StopOnSignalKeeps ==
    ASSUME SchedulerInv, StopOnSignal PROVE SchedulerInv'
  <1> USE DEF SchedulerInv, StopOnSignal, StopFor, queueVars
  <1>0. item' = item
    OBVIOUS
  <1>s. /\ Rows' = Rows /\ Rows \subseteq Item
        /\ \A j \in Item : (Alone(j)' <=> Alone(j)) /\ (FirstOfId(j)' <=> FirstOfId(j))
    BY <1>0, SameRows
  <1>1. TypeOK'
    BY NoneAssumption DEF TypeOK, At, Reason, Status
  <1>2. Bookkeeping'
    BY <1>s, NoneAssumption DEF TypeOK, Bookkeeping, Reason
  <1>3. Stopping'
    BY NoneAssumption DEF TypeOK, Stopping, Unfinished, Reason
  <1>4. Fits'
    BY NoneAssumption DEF Fits, Generated
  <1>5. Accounting'
    BY <1>s, NoneAssumption DEF TypeOK, Accounting, Stopping
  <1>6. Records'
    BY NoneAssumption DEF TypeOK, Records, Stopping
  <1>7. Busy'
    BY NoneAssumption DEF Busy, Ready, Running, Clear
  <1> QED BY <1>1, <1>2, <1>3, <1>4, <1>5, <1>6, <1>7

\* Loop keeps the invariant.
LEMMA LoopKeeps ==
    ASSUME SchedulerInv, Loop PROVE SchedulerInv'
  <1> USE DEF SchedulerInv, Loop, StopFor, queueVars
  <1>0. item' = item
    OBVIOUS
  <1>s. /\ Rows' = Rows /\ Rows \subseteq Item
        /\ \A j \in Item : (Alone(j)' <=> Alone(j)) /\ (FirstOfId(j)' <=> FirstOfId(j))
    BY <1>0, SameRows
  <1>1. TypeOK'
    BY NoneAssumption DEF TypeOK, At, Reason, Status
  <1>2. Bookkeeping'
    BY <1>s, NoneAssumption DEF TypeOK, Bookkeeping, Reason
  <1>3. Stopping'
    BY NoneAssumption DEF TypeOK, Stopping, Unfinished, Reason
  <1>4. Fits'
    BY NoneAssumption DEF Fits, Generated
  <1>5. Accounting'
    BY <1>s, NoneAssumption DEF TypeOK, Accounting, Stopping
  <1>6. Records'
    BY NoneAssumption DEF TypeOK, Records, Stopping
  <1>7. Busy'
    BY NoneAssumption DEF Busy, Ready, Running, Clear
  <1> QED BY <1>1, <1>2, <1>3, <1>4, <1>5, <1>6, <1>7

\* Settle keeps the invariant.
LEMMA SettleKeeps ==
    ASSUME NEW i \in Item, SchedulerInv, Settle(i) PROVE SchedulerInv'
  <1> USE DEF SchedulerInv
  <1>u. /\ at = "wait" /\ i \in active /\ worker[i] \in {"done", "failed"}
        /\ at' = "close" /\ current' = i
        /\ active' = active \ {i} /\ held' = held \ {i}
        /\ blocked' = (blocked \/ worker[i] = "failed")
        /\ UNCHANGED <<batch, worker, open, results, signal, reason, verdict>>
    BY DEF Settle
  <1>p. PICK r \in Item :
          /\ FirstOfId(r) /\ Id[r] = Id[i]
          /\ item' = [item EXCEPT ![r] = IF worker[i] = "done" THEN "completed" ELSE "failed"]
    BY DEF Settle, Complete
  <1>a. /\ verdict = None /\ current = None /\ batch = {} /\ reason = None
        /\ item[i] # "absent" /\ item[r] # "absent"
        /\ item \in [Item -> Status] /\ results \in [Item -> 0..2]
    BY <1>p, <1>u, NoneAssumption DEF TypeOK, Stopping, Bookkeeping, FirstOfId, Rows
  <1>d. /\ item'[r] = IF worker[i] = "done" THEN "completed" ELSE "failed"
        /\ item'[r] \in {"completed", "failed"}
        /\ \A j \in Item : j # r => item'[j] = item[j]
    BY <1>p, <1>a
  <1>s. /\ Rows' = Rows /\ Rows \subseteq Item
        /\ \A j \in Item : (Alone(j)' <=> Alone(j)) /\ (FirstOfId(j)' <=> FirstOfId(j))
    BY <1>a, <1>d, SameRows
  <1>e. \A j \in Item : Alone(j) /\ Id[j] = Id[i] => j = i /\ r = i
    BY <1>a, <1>p DEF Alone, Rows
  <1>1. TypeOK'
    BY <1>a, <1>p, <1>u, NoneAssumption DEF TypeOK, At, Reason, Status
  <1>2. Bookkeeping'
    <2> USE DEF Bookkeeping
    <2>1. \A j \in active' : /\ item'[j] # "absent" /\ worker[j] # "none"
                             /\ Alone(j)' => item'[j] = "running"
      <3>1. \A j \in active' : j \in Item /\ j # i
        BY <1>u DEF TypeOK
      <3> QED BY <3>1, <1>d, <1>e, <1>p, <1>s, <1>u
    <2>2. \A j \in Item : item'[j] \in {"absent", "pending"} => worker[j] = "none"
      BY <1>d
    <2>3. \A j \in Item : item'[j] = "completed" => \E k \in Item : Id[k] = Id[j] /\ worker[k] = "done"
      BY <1>d, <1>p, <1>u
    <2>4. \A j \in Item : item'[j] = "running" /\ Alone(j)' => j \in active'
      BY <1>a, <1>d, <1>e, <1>p, <1>s, <1>u
    <2>5. \A j \in Item : worker[j] = "on" => j \in active'
      BY <1>a, <1>u
    <2>6. \A j \in Rows' : item'[j] \in {"pending", "running"} \/ FirstOfId(j)'
      BY <1>a, <1>d, <1>p, <1>s
    <2> QED BY <2>1, <2>2, <2>3, <2>4, <2>5, <2>6, <1>a, <1>u
  <1>3. Stopping'
    BY <1>a, <1>d, <1>u, NoneAssumption DEF TypeOK, Stopping
  <1>4. Fits'
    <2>1. Generated' = Generated
      BY <1>a, <1>d, ItemAssumption DEF Generated
    <2>2. Cardinality(active') <= Cardinality(active) /\ Cardinality(active') \in Nat
      BY <1>u, Sizes, FS_Subset, FS_CardinalityType
    <2> QED BY <2>1, <2>2, <1>u, Sizes, BoundAssumption DEF Fits
  <1>5. Accounting'
    <2>1. /\ \A j \in Item : item[j] \in {"absent", "pending"} \/ j \in active => results[j] = 0
          /\ \A j \in Item : results[j] <= 1
          /\ \A j \in Item : Alone(j) =>
                results[j] = IF item[j] \in {"completed", "failed", "blocked"} THEN 1 ELSE 0
      BY <1>a, <1>u, NoneAssumption DEF Accounting
    <2>2. \A j \in Item : item'[j] \in {"absent", "pending"} \/ j \in active' \/ j = i => results[j] = 0
      BY <2>1, <1>d, <1>u
    <2>3. Alone(i)' => item'[i] \in {"completed", "failed"}
      BY <1>d, <1>e, <1>s
    <2>4. ASSUME NEW j \in Item, Alone(j)'
          PROVE  results[j] = IF item'[j] \in {"completed", "failed", "blocked"} /\ j # i THEN 1 ELSE 0
      <3>1. CASE j = i
        BY <3>1, <2>2
      <3>2. CASE j # i
        <4>1. j # r
          BY <3>2, <2>4, <1>e, <1>p, <1>s
        <4> QED BY <4>1, <3>2, <2>1, <2>4, <1>d, <1>s
      <3> QED BY <3>1, <3>2
    <2>5. worker'[i] # "none" /\ i \notin active'
      BY <1>u
    <2> QED BY <2>1, <2>2, <2>3, <2>4, <2>5, <1>a, <1>u DEF Accounting
  <1>6. Records'
    BY <1>u, NoneAssumption DEF TypeOK, Records, Stopping
  <1>7. Busy'
    BY <1>u DEF Busy
  <1> QED BY <1>1, <1>2, <1>3, <1>4, <1>5, <1>6, <1>7

\* What Close takes into the queue was absent, and has the id of no row of it.
LEMMA CloseTakes ==
    ASSUME SchedulerInv, Close
    PROVE  \E A \in SUBSET FollowUp :
             /\ \A i \in A : item[i] = "absent" /\ \A j \in Rows : Id[j] # Id[i]
             /\ item' = [i \in Item |-> IF i \in A THEN "pending" ELSE item[i]]
             /\ Cardinality(Generated \cup A) <= MaxExpansion
             /\ blocked \in BOOLEAN => blocked' \in BOOLEAN /\ (blocked => blocked')
  <1>0. item \in [Item -> Status]
    BY DEF SchedulerInv, TypeOK
  <1>1. CASE UNCHANGED <<item, blocked>>
    <2>1. Generated \cup {} = Generated /\ Cardinality(Generated) <= MaxExpansion
      BY DEF SchedulerInv, Fits
    <2>2. item' = [i \in Item |-> IF i \in {} THEN "pending" ELSE item[i]]
      BY <1>1, <1>0
    <2>3. blocked \in BOOLEAN => blocked' \in BOOLEAN /\ (blocked => blocked')
      BY <1>1
    <2> WITNESS {} \in SUBSET FollowUp
    <2> QED BY <2>1, <2>2, <2>3
  <1>2. CASE Enqueue
    <2> DEFINE New(taken) == {i \in taken : \A j \in Rows : Id[j] # Id[i]}
    <2>0. PICK asked \in SUBSET FollowUp : \E taken \in SUBSET asked :
            /\ Cardinality(taken) <= MaxExpansion - Cardinality(Generated)
            /\ item' = [i \in Item |-> IF i \in New(taken) THEN "pending" ELSE item[i]]
            /\ \E invalid \in BOOLEAN : blocked' = (blocked \/ New(taken) # asked \/ invalid)
      BY <1>2 DEF Enqueue
    <2>1. PICK taken \in SUBSET asked :
            /\ Cardinality(taken) <= MaxExpansion - Cardinality(Generated)
            /\ item' = [i \in Item |-> IF i \in New(taken) THEN "pending" ELSE item[i]]
            /\ \E invalid \in BOOLEAN : blocked' = (blocked \/ New(taken) # asked \/ invalid)
      BY <2>0
    <2> DEFINE A == New(taken)
    <2>2. /\ A \in SUBSET FollowUp /\ A \subseteq taken
          /\ \A i \in A : item[i] = "absent" /\ \A j \in Rows : Id[j] # Id[i]
      BY ItemAssumption DEF Rows
    <2>3. taken \subseteq Item /\ IsFiniteSet(taken)
      BY ItemAssumption, FS_Subset
    <2>4. /\ IsFiniteSet(A) /\ Cardinality(A) \in Nat /\ Cardinality(taken) \in Nat
          /\ Cardinality(A) <= Cardinality(taken)
      BY <2>2, <2>3, FS_Subset, FS_CardinalityType
    <2>5. Cardinality(Generated \cup A) = Cardinality(Generated) + Cardinality(A)
      <3>1. Generated \cap A = {}
        BY <2>2 DEF Generated
      <3> HIDE DEF A
      <3>2. IsFiniteSet(Generated) /\ Cardinality(Generated) \in Nat /\ Cardinality({}) = 0
        BY Sizes DEF SchedulerInv
      <3>3. Cardinality(Generated \cup A) = Cardinality(Generated) + Cardinality(A) - Cardinality(Generated \cap A)
        BY <3>2, <2>4, FS_Union
      <3>4. Cardinality(Generated \cap A) = 0
        BY <3>1, FS_EmptySet
      <3> QED BY <3>2, <3>3, <3>4, <2>4
    <2>6. Cardinality(Generated \cup A) <= MaxExpansion
      BY <2>1, <2>4, <2>5, Sizes, BoundAssumption DEF SchedulerInv
    <2>7. item' = [i \in Item |-> IF i \in A THEN "pending" ELSE item[i]]
      BY <2>1
    <2>8. blocked \in BOOLEAN => blocked' \in BOOLEAN /\ (blocked => blocked')
      BY <2>1
    <2> HIDE DEF A
    <2> QED BY <2>2, <2>6, <2>7, <2>8
  <1> QED BY <1>1, <1>2 DEF Close

\* Close keeps the invariant.
LEMMA CloseKeeps ==
    ASSUME SchedulerInv, Close PROVE SchedulerInv'
  <1>u. /\ at = "close" /\ at' = "closed" /\ open' = open \ {current}
        /\ results' = [results EXCEPT ![current] = @ + 1]
        /\ UNCHANGED <<batch, active, held, current, worker, signal, reason, verdict>>
    BY DEF Close
  <1>b. /\ verdict = None /\ reason = None /\ batch = {} /\ current \in Item
        /\ item[current] \notin {"absent", "pending"} /\ current \notin active
        /\ Alone(current) => item[current] \in {"completed", "failed"}
        /\ item \in [Item -> Status] /\ results \in [Item -> 0..2]
    BY <1>u, NoneAssumption DEF SchedulerInv, TypeOK, Stopping, Accounting, Bookkeeping
  <1>p. PICK A \in SUBSET FollowUp :
          /\ \A i \in A : item[i] = "absent" /\ \A j \in Rows : Id[j] # Id[i]
          /\ item' = [i \in Item |-> IF i \in A THEN "pending" ELSE item[i]]
          /\ Cardinality(Generated \cup A) <= MaxExpansion
          /\ blocked \in BOOLEAN => blocked' \in BOOLEAN /\ (blocked => blocked')
    BY CloseTakes
  <1>c. blocked \in BOOLEAN /\ blocked' \in BOOLEAN /\ (blocked => blocked')
    BY <1>p DEF SchedulerInv, TypeOK
  <1>d. /\ \A i \in Item : i \notin A => item'[i] = item[i]
        /\ \A i \in A : i \in Item /\ item[i] = "absent" /\ item'[i] = "pending"
        /\ item' \in [Item -> Status]
    BY <1>b, <1>p, ItemAssumption DEF Status
  <1>s. /\ Rows' = Rows \cup A /\ Rows \subseteq Item
        /\ \A i \in Item : Alone(i)' => Alone(i)
        /\ \A i \in Rows : FirstOfId(i) => FirstOfId(i)'
    <2>1. Rows' = Rows \cup A /\ Rows \subseteq Item
      BY <1>d DEF Rows
    <2> QED BY <2>1, <1>p DEF Alone, FirstOfId
  <1>r. /\ results[current] = 0
        /\ \A i \in Item : item[i] \in {"absent", "pending"} \/ i \in active => results[i] = 0
        /\ \A i \in Item : results[i] <= 1
        /\ \A i \in Item : Alone(i) =>
              results[i] = IF /\ item[i] \in {"completed", "failed", "blocked"} /\ i # current THEN 1 ELSE 0
    BY <1>b, <1>u, NoneAssumption DEF SchedulerInv, Accounting
  <1>1. TypeOK'
    <2>1. results' \in [Item -> 0..2]
      BY <1>b, <1>r, <1>u
    <2> QED BY <2>1, <1>b, <1>c, <1>d, <1>u DEF SchedulerInv, TypeOK, At
  <1>2. Bookkeeping'
    <2> USE DEF SchedulerInv, Bookkeeping
    <2>1. \A i \in active : /\ i \in Item /\ i \notin A
                            /\ item'[i] # "absent" /\ worker[i] # "none"
                            /\ Alone(i)' => item'[i] = "running"
      BY <1>d, <1>s DEF TypeOK
    <2>2. \A i \in Item : item'[i] \in {"absent", "pending"} => worker[i] = "none"
      BY <1>d
    <2>3. \A i \in Item : item'[i] = "completed" => \E j \in Item : Id[j] = Id[i] /\ worker[j] = "done"
      BY <1>d
    <2>4. \A i \in Item : item'[i] = "running" /\ Alone(i)' => i \in active
      BY <1>b, <1>d, <1>s, <1>u
    <2>5. \A i \in Item : worker[i] = "on" => i \in active
      BY <1>b
    <2>6. \A i \in Rows' : item'[i] \in {"pending", "running"} \/ FirstOfId(i)'
      BY <1>b, <1>d, <1>s
    <2> QED BY <2>1, <2>2, <2>3, <2>4, <2>5, <2>6, <1>b, <1>u
  <1>3. Stopping'
    BY <1>b, <1>c, <1>d, <1>u, NoneAssumption DEF SchedulerInv, Stopping
  <1>4. Fits'
    <2>1. Generated' = Generated \cup A
      BY <1>d, <1>p, ItemAssumption DEF Generated
    <2> QED BY <2>1, <1>p, <1>u DEF SchedulerInv, Fits
  <1>5. Accounting'
    <2>1. results'[current] = 1 /\ \A i \in Item : i # current => results'[i] = results[i]
      BY <1>b, <1>r, <1>u
    <2>2. \A i \in Item : item'[i] \in {"absent", "pending"} \/ i \in active => results'[i] = 0
      BY <2>1, <1>b, <1>d, <1>r
    <2>3. \A i \in Item : results'[i] <= 1
      BY <2>1, <1>r
    <2>4. ASSUME NEW i \in Item, Alone(i)'
          PROVE  results'[i] = IF item'[i] \in {"completed", "failed", "blocked"} THEN 1 ELSE 0
      <3>1. Alone(i)
        BY <2>4, <1>s
      <3>2. CASE i = current
        BY <3>1, <3>2, <2>1, <1>b, <1>d
      <3>3. CASE i # current /\ i \in A
        BY <3>3, <2>2, <1>d
      <3>4. CASE i # current /\ i \notin A
        BY <3>1, <3>4, <2>1, <1>d, <1>r
      <3> QED BY <3>2, <3>3, <3>4
    <2> QED BY <2>2, <2>3, <2>4, <1>b, <1>u DEF Accounting
  <1>6. Records'
    BY <1>b, <1>u DEF SchedulerInv, Records
  <1>7. Busy'
    BY <1>u DEF Busy
  <1> QED BY <1>1, <1>2, <1>3, <1>4, <1>5, <1>6, <1>7 DEF SchedulerInv

\* Closed keeps the invariant.
LEMMA ClosedKeeps ==
    ASSUME SchedulerInv, Closed PROVE SchedulerInv'
  <1> USE DEF SchedulerInv, Closed, WriteAll
  <1>0. item' = item
    OBVIOUS
  <1>s. /\ Rows' = Rows /\ Rows \subseteq Item
        /\ \A j \in Item : (Alone(j)' <=> Alone(j)) /\ (FirstOfId(j)' <=> FirstOfId(j))
    BY <1>0, SameRows
  <1>1. TypeOK'
    BY NoneAssumption DEF TypeOK, At, Reason, Status
  <1>2. Bookkeeping'
    BY <1>s, NoneAssumption DEF TypeOK, Bookkeeping, Reason
  <1>3. Stopping'
    BY NoneAssumption DEF TypeOK, Stopping, Unfinished, Reason
  <1>4. Fits'
    BY NoneAssumption DEF Fits, Generated
  <1>5. Accounting'
    BY <1>s, NoneAssumption DEF TypeOK, Accounting, Stopping
  <1>6. Records'
    BY NoneAssumption DEF TypeOK, Records, Stopping
  <1>7. Busy'
    BY NoneAssumption DEF Busy, Ready, Running, Clear
  <1> QED BY <1>1, <1>2, <1>3, <1>4, <1>5, <1>6, <1>7

\* SettleStopped keeps the invariant.
LEMMA SettleStoppedKeeps ==
    ASSUME SchedulerInv, SettleStopped PROVE SchedulerInv'
  <1>u. /\ at = "stopping" /\ at' = "stopped" /\ active' = {} /\ held' = held \ active
        /\ UNCHANGED <<batch, current, worker, signal, reason, blocked, verdict>>
        /\ item' = [i \in Item |-> IF i \in Blocked THEN "blocked" ELSE item[i]]
        /\ results' = [i \in Item |-> results[i] + IF i \in StoppedResults THEN 1 ELSE 0]
    BY DEF SettleStopped, endVars
  <1>b. /\ verdict = None /\ batch = {} /\ reason \in Reason /\ blocked
        /\ item \in [Item -> Status] /\ results \in [Item -> 0..2]
    <2>1. reason # None
      BY <1>u DEF SchedulerInv, Stopping
    <2> QED BY <2>1, <1>u, NoneAssumption DEF SchedulerInv, TypeOK, Stopping
  <1>d. /\ \A i \in Item : item'[i] = IF i \in Blocked THEN "blocked" ELSE item[i]
        /\ Unfinished \subseteq Blocked
        /\ \A i \in Item : i \in Blocked => item[i] # "absent"
    BY <1>u DEF Unfinished, Blocked, FirstOfId, Rows
  <1>s. /\ Rows' = Rows /\ Rows \subseteq Item
        /\ \A j \in Item : (Alone(j)' <=> Alone(j)) /\ (FirstOfId(j)' <=> FirstOfId(j))
    BY <1>d, SameRows
  <1>q. /\ \A i \in Item : item[i] \in {"absent", "pending"} \/ i \in active => results[i] = 0
        /\ \A i \in Item : results[i] <= 1
        /\ \A i \in Item : Alone(i) =>
              results[i] = IF item[i] \in {"completed", "failed", "blocked"} THEN 1 ELSE 0
    BY <1>b, <1>u, NoneAssumption DEF SchedulerInv, Accounting
  <1>e. \A i \in Item : i \in active => item[i] # "absent" /\ i \in Rows
    BY DEF SchedulerInv, Bookkeeping, Rows
  <1>r. /\ \A i \in Item : results'[i] \in 0..2
        /\ \A i \in Item : item[i] = "absent" => results'[i] = 0
        /\ \A i \in Item : Alone(i) => results'[i] = IF item[i] = "absent" THEN 0 ELSE 1
    <2>1. \A i \in Item : results'[i] = IF i \in StoppedResults THEN results[i] + 1 ELSE results[i]
      BY <1>b, <1>u
    <2>2. \A i \in Item : results'[i] \in 0..2
      <3> TAKE i \in Item
      <3>1. results[i] \in 0..2 /\ results[i] <= 1
        BY <1>b, <1>q
      <3> QED BY <2>1, <3>1
    <2>3. \A i \in Item : item[i] = "absent" => results'[i] = 0
      <3>1. \A i \in Item : item[i] = "absent" => i \notin StoppedResults
        BY <1>e DEF StoppedResults, Unfinished
      <3> QED BY <3>1, <2>1, <1>q
    <2>4. ASSUME NEW i \in Item, Alone(i), item[i] # "absent" PROVE results'[i] = 1
      <3>1. \A j \in active : Id[j] = Id[i] => j = i
        BY <2>4, <1>e DEF Alone, SchedulerInv, TypeOK
      <3>2. i \in StoppedResults <=> item[i] \in {"pending", "running"}
        <4>1. i \in active => item[i] = "running"
          BY <2>4 DEF SchedulerInv, Bookkeeping
        <4> QED BY <4>1, <3>1 DEF StoppedResults, Unfinished
      <3>3. CASE item[i] \in {"pending", "running"}
        BY <3>2, <3>3, <2>1, <2>4, <1>q
      <3>4. CASE item[i] \in {"completed", "failed", "blocked"}
        BY <3>2, <3>4, <2>1, <2>4, <1>q
      <3> QED BY <3>3, <3>4, <2>4, <1>b DEF Status
    <2> QED BY <2>2, <2>3, <2>4
  <1>f. Unfinished' = {}
    BY <1>d DEF Unfinished
  <1>1. TypeOK'
    <2>1. item' \in [Item -> Status]
      BY <1>b, <1>u, <1>d DEF Status
    <2>2. results' \in [Item -> 0..2]
      <3>1. results' = [i \in Item |-> results'[i]]
        BY <1>u
      <3> QED BY <3>1, <1>r
    <2>3. open' \subseteq Item
      BY DEF SchedulerInv, TypeOK, SettleStopped
    <2> QED BY <2>1, <2>2, <2>3, <1>b, <1>u DEF SchedulerInv, TypeOK, At
  <1>2. Bookkeeping'
    <2>1. reason' # None
      BY <1>b, <1>u, NoneAssumption
    <2>2. \A i \in Item : item'[i] \notin {"pending", "running"}
      BY <1>f DEF Unfinished
    <2> QED BY <2>1, <2>2, <1>b, <1>d, <1>u DEF SchedulerInv, Bookkeeping
  <1>3. Stopping'
    BY <1>b, <1>f, <1>u, NoneAssumption DEF SchedulerInv, Stopping
  <1>4. Fits'
    <2>1. Generated' = Generated
      BY <1>d, ItemAssumption DEF Generated
    <2>2. Cardinality(active') + Cardinality(batch') <= Target
      BY <1>b, <1>u, Sizes, BoundAssumption DEF SchedulerInv
    <2> QED BY <2>1, <2>2, <1>b, <1>u DEF SchedulerInv, Fits
  <1>5. Accounting'
    <2>1. \A i \in Item : item'[i] \in Status /\ item'[i] \notin {"pending", "running"}
      BY <1>b, <1>d, <1>f DEF Status, Unfinished
    <2>2. \A i \in Item : item'[i] \in {"completed", "failed", "blocked"} <=> item[i] # "absent"
      BY <2>1, <1>d DEF Status
    <2>3. \A i \in Item : Alone(i)' =>
            results'[i] = IF item'[i] \in {"completed", "failed", "blocked"} THEN 1 ELSE 0
      BY <2>2, <1>r, <1>s
    <2>4. \A i \in Item : item'[i] \in {"absent", "pending"} => results'[i] = 0
      BY <2>1, <2>2, <1>r
    <2> QED BY <2>3, <2>4, <1>b, <1>u DEF Accounting
  <1>6. Records'
    BY <1>b, <1>u, NoneAssumption DEF SchedulerInv, Records
  <1>7. Busy'
    BY <1>u DEF Busy
  <1> QED BY <1>1, <1>2, <1>3, <1>4, <1>5, <1>6, <1>7 DEF SchedulerInv

\* Stopped keeps the invariant.
LEMMA StoppedKeeps ==
    ASSUME SchedulerInv, Stopped PROVE SchedulerInv'
  <1> USE DEF SchedulerInv, Stopped, WriteAll, queueVars
  <1>0. item' = item
    OBVIOUS
  <1>s. /\ Rows' = Rows /\ Rows \subseteq Item
        /\ \A j \in Item : (Alone(j)' <=> Alone(j)) /\ (FirstOfId(j)' <=> FirstOfId(j))
    BY <1>0, SameRows
  <1>1. TypeOK'
    BY NoneAssumption DEF TypeOK, At, Reason, Status
  <1>2. Bookkeeping'
    BY <1>s, NoneAssumption DEF TypeOK, Bookkeeping, Reason
  <1>3. Stopping'
    BY NoneAssumption DEF TypeOK, Stopping, Unfinished, Reason
  <1>4. Fits'
    BY NoneAssumption DEF Fits, Generated
  <1>5. Accounting'
    BY <1>s, NoneAssumption DEF TypeOK, Accounting, Stopping
  <1>6. Records'
    BY NoneAssumption DEF TypeOK, Records, Stopping
  <1>7. Busy'
    BY NoneAssumption DEF Busy, Ready, Running, Clear
  <1> QED BY <1>1, <1>2, <1>3, <1>4, <1>5, <1>6, <1>7

\* Drain keeps the invariant.
LEMMA DrainKeeps ==
    ASSUME SchedulerInv, Drain PROVE SchedulerInv'
  <1> USE DEF SchedulerInv, Drain, WriteAll, queueVars
  <1>0. item' = item
    OBVIOUS
  <1>s. /\ Rows' = Rows /\ Rows \subseteq Item
        /\ \A j \in Item : (Alone(j)' <=> Alone(j)) /\ (FirstOfId(j)' <=> FirstOfId(j))
    BY <1>0, SameRows
  <1>1. TypeOK'
    BY NoneAssumption DEF TypeOK, At, Reason, Status
  <1>2. Bookkeeping'
    BY <1>s, NoneAssumption DEF TypeOK, Bookkeeping, Reason
  <1>3. Stopping'
    BY NoneAssumption DEF TypeOK, Stopping, Unfinished, Reason
  <1>4. Fits'
    BY NoneAssumption DEF Fits, Generated
  <1>5. Accounting'
    BY <1>s, NoneAssumption DEF TypeOK, Accounting, Stopping
  <1>6. Records'
    BY NoneAssumption DEF TypeOK, Records, Stopping
  <1>7. Busy'
    BY NoneAssumption DEF Busy, Ready, Running, Clear
  <1> QED BY <1>1, <1>2, <1>3, <1>4, <1>5, <1>6, <1>7

\* Return keeps the invariant.
LEMMA ReturnKeeps ==
    ASSUME SchedulerInv, Return PROVE SchedulerInv'
  <1> USE DEF SchedulerInv, Return, WriteAll, queueVars
  <1>0. item' = item
    OBVIOUS
  <1>s. /\ Rows' = Rows /\ Rows \subseteq Item
        /\ \A j \in Item : (Alone(j)' <=> Alone(j)) /\ (FirstOfId(j)' <=> FirstOfId(j))
    BY <1>0, SameRows
  <1>1. TypeOK'
    BY NoneAssumption DEF TypeOK, At, Reason, Status
  <1>2. Bookkeeping'
    BY <1>s, NoneAssumption DEF TypeOK, Bookkeeping, Reason
  <1>3. Stopping'
    BY NoneAssumption DEF TypeOK, Stopping, Unfinished, Reason
  <1>4. Fits'
    BY NoneAssumption DEF Fits, Generated
  <1>5. Accounting'
    BY <1>s, NoneAssumption DEF TypeOK, Accounting, Stopping
  <1>6. Records'
    BY NoneAssumption DEF TypeOK, Records, Stopping
  <1>7. Busy'
    BY NoneAssumption DEF Busy, Ready, Running, Clear
  <1> QED BY <1>1, <1>2, <1>3, <1>4, <1>5, <1>6, <1>7

\* Throw keeps the invariant.
LEMMA ThrowKeeps ==
    ASSUME SchedulerInv, Throw PROVE SchedulerInv'
  <1> USE DEF SchedulerInv, Throw
  <1>0. item' = item
    OBVIOUS
  <1>s. /\ Rows' = Rows /\ Rows \subseteq Item
        /\ \A j \in Item : (Alone(j)' <=> Alone(j)) /\ (FirstOfId(j)' <=> FirstOfId(j))
    BY <1>0, SameRows
  <1>1. TypeOK'
    BY NoneAssumption DEF TypeOK, At, Reason, Status
  <1>2. Bookkeeping'
    BY <1>s, NoneAssumption DEF TypeOK, Bookkeeping, Reason
  <1>3. Stopping'
    BY NoneAssumption DEF TypeOK, Stopping, Unfinished, Reason
  <1>4. Fits'
    BY NoneAssumption DEF Fits, Generated
  <1>5. Accounting'
    BY <1>s, NoneAssumption DEF TypeOK, Accounting, Stopping
  <1>6. Records'
    BY NoneAssumption DEF TypeOK, Records, Stopping
  <1>7. Busy'
    BY NoneAssumption DEF Busy, Ready, Running, Clear
  <1> QED BY <1>1, <1>2, <1>3, <1>4, <1>5, <1>6, <1>7

\* WorkerEnds keeps the invariant.
LEMMA WorkerEndsKeeps ==
    ASSUME NEW i \in Item, SchedulerInv, WorkerEnds(i) PROVE SchedulerInv'
  <1> USE DEF SchedulerInv, WorkerEnds, endVars
  <1>0. item' = item
    OBVIOUS
  <1>s. /\ Rows' = Rows /\ Rows \subseteq Item
        /\ \A j \in Item : (Alone(j)' <=> Alone(j)) /\ (FirstOfId(j)' <=> FirstOfId(j))
    BY <1>0, SameRows
  <1>1. TypeOK'
    BY NoneAssumption DEF TypeOK, At, Reason, Status
  <1>2. Bookkeeping'
    BY <1>s, NoneAssumption DEF TypeOK, Bookkeeping, Reason
  <1>3. Stopping'
    BY NoneAssumption DEF TypeOK, Stopping, Unfinished, Reason
  <1>4. Fits'
    BY NoneAssumption DEF Fits, Generated
  <1>5. Accounting'
    BY <1>s, NoneAssumption DEF TypeOK, Accounting, Stopping
  <1>6. Records'
    BY NoneAssumption DEF TypeOK, Records, Stopping
  <1>7. Busy'
    BY NoneAssumption DEF Busy, Ready, Running, Clear
  <1> QED BY <1>1, <1>2, <1>3, <1>4, <1>5, <1>6, <1>7

\* Signal keeps the invariant.
LEMMA SignalKeeps ==
    ASSUME SchedulerInv, Signal PROVE SchedulerInv'
  <1> USE DEF SchedulerInv, Signal, queueVars
  <1>0. item' = item
    OBVIOUS
  <1>s. /\ Rows' = Rows /\ Rows \subseteq Item
        /\ \A j \in Item : (Alone(j)' <=> Alone(j)) /\ (FirstOfId(j)' <=> FirstOfId(j))
    BY <1>0, SameRows
  <1>1. TypeOK'
    BY NoneAssumption DEF TypeOK, At, Reason, Status
  <1>2. Bookkeeping'
    BY <1>s, NoneAssumption DEF TypeOK, Bookkeeping, Reason
  <1>3. Stopping'
    BY NoneAssumption DEF TypeOK, Stopping, Unfinished, Reason
  <1>4. Fits'
    BY NoneAssumption DEF Fits, Generated
  <1>5. Accounting'
    BY <1>s, NoneAssumption DEF TypeOK, Accounting, Stopping
  <1>6. Records'
    BY NoneAssumption DEF TypeOK, Records, Stopping
  <1>7. Busy'
    BY NoneAssumption DEF Busy, Ready, Running, Clear
  <1> QED BY <1>1, <1>2, <1>3, <1>4, <1>5, <1>6, <1>7

\* Every step keeps the invariant.
LEMMA NextInv == SchedulerInv /\ [Next]_vars => SchedulerInv'
  <1> SUFFICES ASSUME SchedulerInv, [Next]_vars PROVE SchedulerInv'
    OBVIOUS
  <1>1. CASE UNCHANGED vars
    BY <1>1 DEF vars, queueVars, endVars, SchedulerInv, TypeOK, Bookkeeping, Stopping, Fits,
                Accounting, Records, Busy, Unfinished, Generated, Ready, Running, Clear,
                Rows, Alone, FirstOfId
  <1>2. CASE Step
    BY <1>2, InitialiseKeeps, CollectKeeps, DispatchKeeps, DispatchFailsKeeps, DispatchedKeeps, StopOnSignalKeeps, LoopKeeps, SettleKeeps, CloseKeeps, ClosedKeeps, SettleStoppedKeeps, StoppedKeeps, DrainKeeps, ReturnKeeps, ThrowKeeps DEF Step
  <1>3. CASE Signal
    BY <1>3, SignalKeeps
  <1>4. CASE Ended
    BY <1>1, <1>4 DEF Ended
  <1>5. ASSUME NEW i \in Item, WorkerEnds(i) PROVE SchedulerInv'
    BY <1>5, WorkerEndsKeeps
  <1> QED BY <1>1, <1>2, <1>3, <1>4, <1>5 DEF Next

\* What the scheduler knows of an item agrees with what the worker did, at
\* every await of runAgentScheduler.
THEOREM SchedulerInvariant == Spec => []SchedulerInv
  BY InitInv, NextInv, PTL DEF Spec

\* runAgentScheduler's variables keep their types.
THEOREM SchedulerTypes == Spec => []TypeOK
  <1>1. SchedulerInv => TypeOK
    BY DEF SchedulerInv
  <1> QED BY <1>1, SchedulerInvariant, PTL

\* collectLaunchBatch leaves no slot idle that could be used: while the loop
\* waits, the target is reached or what is ready conflicts.
THEOREM SlotsAreUsed == Spec => []NoIdleSlot
  <1>1. SchedulerInv => NoIdleSlot
    <2> SUFFICES ASSUME SchedulerInv, at = "wait" PROVE NoIdleSlot
      BY DEF NoIdleSlot
    <2>1. batch = {} /\ TypeOK
      BY DEF SchedulerInv, TypeOK
    <2>2. Cardinality(batch) = 0 /\ Cardinality(active) \in Nat
      BY <2>1, Sizes, FS_EmptySet
    <2> QED BY <2>2 DEF SchedulerInv, Busy, NoIdleSlot
  <1> QED BY <1>1, SchedulerInvariant, PTL

\* Whoever settles an item, a worker or stopScheduler, pushes one result for
\* it, if no other row of the queue has its id; and a success leaves no session
\* record open.
THEOREM ItemsAnswered == Spec => []EveryItemAnswered
  <1>1. SchedulerInv => EveryItemAnswered
    <2> SUFFICES ASSUME SchedulerInv, verdict \in {"ok", "blocked"}
                 PROVE  /\ \A i \in Item : IF i \notin Rows THEN results[i] = 0
                                           ELSE Alone(i) => results[i] = 1
                        /\ verdict = "ok" => open = {}
      BY NoneAssumption DEF EveryItemAnswered
    <2>1. at = "end" /\ active = {} /\ Unfinished = {}
      BY NoneAssumption DEF SchedulerInv, Stopping
    <2>2. /\ \A i \in Item : item[i] = "absent" => results[i] = 0
          /\ \A i \in Item : Alone(i) =>
                results[i] = IF item[i] \in {"completed", "failed", "blocked"} THEN 1 ELSE 0
      BY <2>1, NoneAssumption DEF SchedulerInv, Accounting
    <2>3. \A i \in Item : item[i] \in {"completed", "failed", "blocked"} <=> item[i] # "absent"
      BY <2>1 DEF SchedulerInv, TypeOK, Status, Unfinished
    <2>4. verdict = "ok" => open = {}
      BY <2>1 DEF SchedulerInv, Stopping, Records
    <2> QED BY <2>2, <2>3, <2>4 DEF Rows
  <1> QED BY <1>1, SchedulerInvariant, PTL

\* No set of items depends on the ids of its own members only.
Acyclic ==
    \A S \in SUBSET Item : S # {} => \E i \in S : Deps[i] \cap {Id[j] : j \in S} = {}

\* Until a stop nothing is blocked.
StallInv == StallsOnlyOnFailure /\ (reason = None => \A i \in Item : item[i] # "blocked")

\* Two rows are twins as long as no row comes into the queue.
LEMMA SameTwins ==
    ASSUME \A i \in Item : item'[i] = "absent" <=> item[i] = "absent"
    PROVE  Rows' = Rows /\ (Twins' <=> Twins)
  <1>1. /\ Rows' = Rows /\ Rows \subseteq Item
        /\ \A i \in Item : Alone(i)' <=> Alone(i)
    BY SameRows
  <1> QED BY <1>1 DEF Twins

\* When the loop gives the run up for its dependencies, one can be named.
LEMMA LoopStalls ==
    ASSUME Acyclic, SchedulerInv, StallInv, Loop
    PROVE  StallInv'
  <1>1. item' = item /\ at = "top" /\ reason = None /\ batch = {}
    BY DEF Loop, queueVars, SchedulerInv, Stopping, TypeOK
  <1>s. Rows' = Rows /\ (Twins' <=> Twins)
    BY <1>1, SameTwins
  <1>2. CASE reason' = reason
    BY <1>1, <1>2, <1>s, NoneAssumption DEF StallInv, StallsOnlyOnFailure, Reason
  <1>3. CASE active = {} /\ Unfinished # {} /\ Ready = {} /\ reason' = "dependencies"
    <2> DEFINE T == {i \in Item : item[i] = "pending"}
    <2>0. reason' # None /\ reason' # "no_slot"
      BY <1>3, NoneAssumption DEF Reason
    <2>1. CASE Twins
      BY <2>0, <2>1, <1>s DEF StallInv, StallsOnlyOnFailure
    <2>2. CASE ~Twins
      <3>1. \A i \in Item : item[i] = "running" => Alone(i)
        BY <2>2 DEF Twins, Rows
      <3>2. T = Unfinished
        BY <3>1, <1>1, <1>3 DEF SchedulerInv, Bookkeeping, Unfinished
      <3>3. PICK i \in T : Deps[i] \cap {Id[j] : j \in T} = {}
        BY <3>2, <1>3 DEF Acyclic
      <3>4. PICK d \in Deps[i] : \A j \in Item : Id[j] = d => item[j] # "completed"
        BY <3>3, <1>3 DEF Ready
      <3>5. \A j \in Rows : Id[j] = d => item[j] = "failed"
        <4> SUFFICES ASSUME NEW j \in Rows, Id[j] = d PROVE item[j] = "failed"
          OBVIOUS
        <4>1. j \in Item /\ j \notin T /\ item[j] \notin {"absent", "completed"}
          BY <3>3, <3>4 DEF Rows
        <4>2. item[j] \in Status /\ item[j] # "blocked" /\ j \notin Unfinished
          BY <4>1, <3>2, <1>1 DEF StallInv, SchedulerInv, TypeOK
        <4> QED BY <4>1, <4>2 DEF Status, Unfinished
      <3>6. i \in Rows
        BY <3>3 DEF Rows
      <3>7. CASE \E j \in Rows : Id[j] = d
        <4>1. \E j \in Item : item[j] = "failed"
          BY <3>5, <3>7 DEF Rows
        <4> QED BY <4>1, <2>0, <1>1 DEF StallInv, StallsOnlyOnFailure
      <3>8. CASE \A j \in Rows : Id[j] # d
        BY <3>4, <3>6, <3>8, <2>0, <1>s DEF StallInv, StallsOnlyOnFailure
      <3> QED BY <3>7, <3>8
    <2> QED BY <2>1, <2>2
  <1> QED BY <1>2, <1>3 DEF Loop, StopFor

\* A batch that can be leased has a slot, unless a twin was left running.
LEMMA CollectStalls ==
    ASSUME SchedulerInv, StallInv, Collect
    PROVE  StallInv'
  <1>p. PICK B \in Batches :
          /\ item' = [i \in Item |-> IF i \in B THEN "running" ELSE item[i]]
          /\ IF B # {} THEN at' = "dispatch" /\ UNCHANGED <<reason, blocked>>
             ELSE IF active = {} /\ Ready # {} THEN StopFor("no_slot")
             ELSE at' = "top" /\ UNCHANGED <<reason, blocked>>
    BY DEF Collect
  <1>1. at = "refill" /\ verdict = None /\ reason = None /\ held = active /\ batch = {}
    BY NoneAssumption DEF Collect, SchedulerInv, Stopping, Records, TypeOK
  <1>s. Rows' = Rows /\ (Twins' <=> Twins)
    <2>1. \A i \in Item : item'[i] = "absent" <=> item[i] = "absent"
      BY <1>p DEF Batches, Ready
    <2> QED BY <2>1, SameTwins
  <1>2. reason' = reason \/ (reason' = "no_slot" /\ Twins)
    <2>1. CASE B = {} /\ active = {} /\ Ready # {}
      <3> SUFFICES ASSUME ~Twins PROVE FALSE
        BY <1>p, <2>1 DEF StopFor
      <3>1. Running = {}
        <4>1. \A i \in Item : item[i] = "running" => Alone(i)
          BY DEF Twins, Rows
        <4> QED BY <4>1, <2>1, <1>1 DEF SchedulerInv, Bookkeeping, Running
      <3>2. Target # Cardinality({}) + Cardinality({})
        BY FS_EmptySet, BoundAssumption
      <3>3. \A i \in Ready : ~Clear(i, {})
        BY <2>1, <1>1, <3>1, <3>2 DEF Batches
      <3> QED BY <3>3, <2>1 DEF Clear
    <2>2. CASE ~(B = {} /\ active = {} /\ Ready # {})
      BY <1>p, <2>2
    <2> QED BY <2>1, <2>2
  <1>3. \A i \in Item : item'[i] # "blocked"
    BY <1>p, <1>1 DEF StallInv
  <1> QED BY <1>1, <1>2, <1>3, <1>s, NoneAssumption DEF StallInv, StallsOnlyOnFailure, Reason

\* What a stop blocks was not failed, but for a row whose twin is waited for.
LEMMA StopStalls ==
    ASSUME SchedulerInv, StallInv, SettleStopped
    PROVE  StallInv'
  <1>1. /\ reason' = reason /\ reason # None
        /\ \A i \in Item : item'[i] = IF i \in Blocked THEN "blocked" ELSE item[i]
    BY DEF SettleStopped, SchedulerInv, Stopping, endVars
  <1>2. \A i \in Item : i \in Blocked => item[i] # "absent"
    BY DEF Blocked, Unfinished, FirstOfId, Rows
  <1>s. Rows' = Rows /\ (Twins' <=> Twins)
    BY <1>1, <1>2, SameTwins
  <1>3. ASSUME NEW i \in Item, item[i] = "failed", i \in Blocked PROVE Twins
    <2>1. PICK j \in active : Id[j] = Id[i]
      BY <1>3 DEF Blocked, Unfinished
    <2>2. i \in Rows /\ j \in Rows
      BY <1>3, <2>1 DEF SchedulerInv, Bookkeeping, TypeOK, Rows
    <2>3. CASE Alone(i)
      <3>1. j = i
        BY <2>1, <2>2, <2>3 DEF Alone
      <3> QED BY <3>1, <2>1, <2>3, <1>3 DEF SchedulerInv, Bookkeeping
    <2>4. CASE ~Alone(i)
      BY <2>2, <2>4 DEF Twins
    <2> QED BY <2>3, <2>4
  <1> QED BY <1>1, <1>3, <1>s DEF StallInv, StallsOnlyOnFailure

\* So do the other steps.
LEMMA NextStalls ==
    ASSUME Acyclic, SchedulerInv, StallInv, [Next]_vars
    PROVE  StallInv'
  <1>0. ASSUME item' = item, reason' = reason PROVE StallInv'
    BY <1>0, SameTwins DEF StallInv, StallsOnlyOnFailure
  <1>1. CASE UNCHANGED vars
    BY <1>0, <1>1 DEF vars, queueVars, endVars
  <1>2. CASE Initialise \/ Dispatched \/ Stopped \/ Drain \/ Return \/ Signal \/ Throw \/ Dispatch \/ Closed
    BY <1>0, <1>2 DEF Initialise, Dispatched, Stopped, Drain, Return, Signal, Throw, Dispatch, Closed, queueVars
  <1>3. CASE DispatchFails \/ StopOnSignal
    BY <1>3, NoneAssumption DEF DispatchFails, StopOnSignal, StopFor, queueVars, Reason, StallInv, StallsOnlyOnFailure
  <1>4. ASSUME NEW i \in Item, Settle(i) PROVE StallInv'
    <2>1. reason' = reason /\ reason = None /\ \A j \in Item : item'[j] = item[j] \/ item'[j] \in {"completed", "failed"}
      BY <1>4 DEF Settle, Complete, SchedulerInv, TypeOK, Stopping
    <2> QED BY <2>1, NoneAssumption DEF Reason, StallInv, StallsOnlyOnFailure
  <1>5. CASE Close
    <2>1. reason' = reason /\ reason = None /\ \A j \in Item : item'[j] = item[j] \/ item'[j] = "pending"
      BY <1>5 DEF Close, Enqueue, SchedulerInv, Stopping
    <2> QED BY <2>1, NoneAssumption DEF Reason, StallInv, StallsOnlyOnFailure
  <1>7. ASSUME NEW i \in Item, WorkerEnds(i) PROVE StallInv'
    BY <1>0, <1>7 DEF WorkerEnds, endVars
  <1>8. CASE Ended
    BY <1>1, <1>8 DEF Ended
  <1> QED BY <1>1, <1>2, <1>3, <1>4, <1>5, <1>7, <1>8, LoopStalls, CollectStalls, StopStalls DEF Next, Step

\* With dependencies in no circle and no two rows of one id,
\* scheduler_unresolvable_dependencies always has a failed item or an id that never
\* came, and no_slot is never the reason.
THEOREM StallsExplained ==
    ASSUME Acyclic PROVE Spec => []StallsOnlyOnFailure
  <1>1. Init => StallInv
    BY NoneAssumption DEF Init, StallInv, StallsOnlyOnFailure, Reason
  <1>2. SchedulerInv /\ StallInv /\ [Next]_vars => StallInv'
    BY NextStalls
  <1>3. StallInv => StallsOnlyOnFailure
    BY DEF StallInv
  <1> QED BY <1>1, <1>2, <1>3, SchedulerInvariant, PTL DEF Spec

-----------------------------------------------------------------------------
(* The slices, whose ids are numbered: no two of them have one id.  Their  *)
(* rows are then alone for good, so that one that is waited for is also    *)
(* marked as running, and its paths are seen when a batch is leased.       *)

SliceIds == \A i, j \in Item \ FollowUp : Id[i] = Id[j] => i = j

SliceInv ==
    /\ \A i \in Item \ FollowUp : i \in Rows /\ Alone(i)
    /\ \A i, j \in active \cup batch : i = j \/ Paths[i] \cap Paths[j] = {}

\* Slices start alone.
LEMMA SliceInit == ASSUME SliceIds, Init PROVE SliceInv
  <1>1. Rows = Item \ FollowUp
    BY DEF Init, Rows
  <1>2. active = {} /\ batch = {}
    BY DEF Init
  <1> QED BY <1>1, <1>2 DEF SliceInv, SliceIds, Alone

\* A step that brings no row into the queue and leases nothing keeps them apart.
LEMMA SliceSame ==
    ASSUME SliceInv, \A i \in Item : item'[i] = "absent" <=> item[i] = "absent",
           active' \cup batch' \subseteq active \cup batch
    PROVE  SliceInv'
  <1>1. Rows' = Rows /\ \A i \in Item : Alone(i)' <=> Alone(i)
    BY SameRows
  <1>2. \A i, j \in active' \cup batch' : i = j \/ Paths[i] \cap Paths[j] = {}
    BY DEF SliceInv
  <1>3. \A i \in Item \ FollowUp : i \in Rows' /\ Alone(i)'
    BY <1>1 DEF SliceInv
  <1> QED BY <1>2, <1>3 DEF SliceInv

\* What a batch leases is clear of the slices that are waited for.
LEMMA SliceCollect == ASSUME SchedulerInv, SliceInv, Collect PROVE SliceInv'
  <1>1. PICK B \in Batches : batch' = B /\ item' = [i \in Item |-> IF i \in B THEN "running" ELSE item[i]]
    BY DEF Collect
  <1>2. /\ B \subseteq Ready /\ B \subseteq Item /\ active' = active /\ active \subseteq Item
        /\ \A i \in B : Clear(i, Running \cup B)
    BY DEF Batches, Ready, Collect, SchedulerInv, TypeOK
  <1>3. \A i \in Item : item'[i] = "absent" <=> item[i] = "absent"
    BY <1>1, <1>2 DEF Ready
  <1>4. Rows' = Rows /\ \A i \in Item : Alone(i)' <=> Alone(i)
    BY <1>3, SameRows
  <1>5. ASSUME NEW i \in B, NEW j \in active \cup B, i # j
        PROVE  Paths[i] \cap Paths[j] = {} /\ Paths[j] \cap Paths[i] = {}
    <2>1. CASE j \in FollowUp
      BY <2>1, PathAssumption
    <2>2. CASE j \in active /\ j \notin FollowUp
      <3>1. j \in Running
        BY <1>2, <2>2 DEF SchedulerInv, Bookkeeping, SliceInv, Running
      <3> QED BY <1>2, <1>5, <3>1 DEF Clear
    <2>3. CASE j \in B
      BY <1>2, <1>5, <2>3 DEF Clear
    <2> QED BY <2>1, <2>2, <2>3
  <1>6. \A i, j \in active' \cup batch' : i = j \/ Paths[i] \cap Paths[j] = {}
    BY <1>1, <1>2, <1>5 DEF SliceInv
  <1>7. \A i \in Item \ FollowUp : i \in Rows' /\ Alone(i)'
    BY <1>4 DEF SliceInv
  <1> QED BY <1>6, <1>7 DEF SliceInv

\* No follow-up is taken that has the id of a slice.
LEMMA SliceClose == ASSUME SchedulerInv, SliceInv, Close PROVE SliceInv'
  <1>1. PICK A \in SUBSET FollowUp :
          /\ \A i \in A : item[i] = "absent" /\ \A j \in Rows : Id[j] # Id[i]
          /\ item' = [i \in Item |-> IF i \in A THEN "pending" ELSE item[i]]
    BY CloseTakes
  <1>2. Rows' = Rows \cup A
    BY <1>1, ItemAssumption DEF Rows
  <1>3. \A i \in Item \ FollowUp : i \in Rows' /\ Alone(i)'
    BY <1>1, <1>2 DEF SliceInv, Alone
  <1>4. active' = active /\ batch' = batch
    BY DEF Close
  <1> QED BY <1>3, <1>4 DEF SliceInv

\* Slices stay apart.
LEMMA SliceNext == SchedulerInv /\ SliceInv /\ [Next]_vars => SliceInv'
  <1> SUFFICES ASSUME SchedulerInv, SliceInv, [Next]_vars PROVE SliceInv'
    OBVIOUS
  <1>1. ASSUME \/ Initialise \/ Dispatch \/ DispatchFails \/ Dispatched \/ StopOnSignal \/ Loop
               \/ Closed \/ Stopped \/ Drain \/ Return \/ Throw \/ Signal \/ Ended \/ UNCHANGED vars
        PROVE  SliceInv'
    <2>1. item' = item /\ active' \cup batch' \subseteq active \cup batch
      BY <1>1 DEF Initialise, Dispatch, DispatchFails, Dispatched, StopOnSignal, Loop, Closed, Stopped,
         Drain, Return, Throw, Signal, Ended, vars, queueVars
    <2> QED BY <2>1, SliceSame
  <1>2. ASSUME NEW i \in Item, Settle(i) PROVE SliceInv'
    <2>1. \A j \in Item : item'[j] = "absent" <=> item[j] = "absent"
      BY <1>2 DEF Settle, Complete, FirstOfId, Rows, SchedulerInv, TypeOK
    <2>2. active' \cup batch' \subseteq active \cup batch
      BY <1>2 DEF Settle
    <2> QED BY <2>1, <2>2, SliceSame
  <1>3. ASSUME SettleStopped PROVE SliceInv'
    <2>1. \A j \in Item : item'[j] = "absent" <=> item[j] = "absent"
      BY <1>3 DEF SettleStopped, Blocked, Unfinished, FirstOfId, Rows
    <2>2. active' \cup batch' \subseteq active \cup batch
      BY <1>3 DEF SettleStopped
    <2> QED BY <2>1, <2>2, SliceSame
  <1>4. ASSUME NEW i \in Item, WorkerEnds(i) PROVE SliceInv'
    <2>1. item' = item /\ active' = active /\ batch' = batch
      BY <1>4 DEF WorkerEnds
    <2> QED BY <2>1, SliceSame
  <1> QED BY <1>1, <1>2, <1>3, <1>4, SliceCollect, SliceClose DEF Next, Step

-----------------------------------------------------------------------------
(* The refinement.                                                         *)

\* A row that was completed before any stop, or with the rest, was so by a worker
\* under its id.
LEMMA DoneById ==
    ASSUME SchedulerInv, NEW i \in Item, item[i] = "completed"
    PROVE  \E j \in Item : Id[j] = Id[i] /\ Work(j) = "done"
  <1>1. PICK j \in Item : Id[j] = Id[i] /\ worker[j] = "done"
    BY DEF SchedulerInv, Bookkeeping
  <1>2. item[j] # "absent"
    BY <1>1 DEF SchedulerInv, Bookkeeping
  <1> QED BY <1>1, <1>2 DEF Work

\* When nothing is left to do and there was no stop, no two rows have one id: the
\* first of them would have been completed, and the other not.
LEMMA AllAlone ==
    ASSUME SchedulerInv, reason = None, Unfinished = {}
    PROVE  \A i \in Rows : Alone(i)
  <1>1. \A i \in Rows : i \in Item /\ FirstOfId(i)
    BY DEF SchedulerInv, Bookkeeping, Unfinished, Rows
  <1>2. \A i, j \in Rows : Id[i] = Id[j] => Rank[i] <= Rank[j] /\ Rank[j] <= Rank[i]
    BY <1>1 DEF FirstOfId
  <1>3. \A i, j \in Rows : Id[i] = Id[j] => i = j
    BY <1>1, <1>2, RankAssumption
  <1> QED BY <1>3 DEF Alone

\* Nothing of the pool has moved if items kept their worker and none came.
LEMMA PoolStutter ==
    ASSUME UNCHANGED <<worker, reason, verdict>>,
           \A i \in Item : item[i] = "absent" <=> item'[i] = "absent"
    PROVE  UNCHANGED Pool!poolVars
  <1>1. \A i \in Item : Work(i)' = Work(i)
    BY DEF Work
  <1>2. [i \in Item |-> Work(i)]' = [i \in Item |-> Work(i)]
    BY <1>1
  <1> QED BY <1>2 DEF Answered, Pool!poolVars

\* A stop of the scheduler is one of the pool.
LEMMA PoolStop ==
    ASSUME UNCHANGED <<worker, verdict>>, verdict = None, reason = None, reason' \in Reason,
           \A i \in Item : item[i] = "absent" <=> item'[i] = "absent"
    PROVE  Pool!Stop
  <1>1. \A i \in Item : Work(i)' = Work(i)
    BY DEF Work
  <1>2. [i \in Item |-> Work(i)]' = [i \in Item |-> Work(i)]
    BY <1>1
  <1>3. Answered = "open" /\ Answered' = "stopping"
    BY NoneAssumption DEF Answered
  <1> QED BY <1>2, <1>3 DEF Pool!Stop

\* The pool counts as the scheduler does.
LEMMA PoolCounts == ASSUME NEW S PROVE Pool!Cardinality(S) = Cardinality(S)
  BY DEF Pool!Cardinality, Cardinality

\* Until a stop, only what is waited for is at work; afterwards nobody knows.
LEMMA AtWork ==
    ASSUME SchedulerInv
    PROVE  /\ Pool!OnWork \subseteq Item
           /\ reason = None => Pool!OnWork \subseteq active
           /\ Pool!Admitted = Generated
           /\ verdict = None /\ reason = None => Answered = "open"
  <1>1. \A i \in Item : Work(i) = "running" => worker[i] = "on"
    BY DEF Work, SchedulerInv, TypeOK
  <1>2. \A i \in Item : (Work(i) = "absent") <=> (item[i] = "absent")
    BY DEF Work, SchedulerInv, TypeOK
  <1>3. Pool!Admitted = Generated
    BY <1>2, ItemAssumption DEF Pool!Admitted, Generated
  <1>4. reason = None => Pool!OnWork \subseteq active
    BY <1>1 DEF Pool!OnWork, SchedulerInv, Bookkeeping
  <1> QED BY <1>3, <1>4 DEF Pool!OnWork, Answered

\* A batch that is dispatched may be launched.
LEMMA DispatchLaunches == ASSUME SchedulerInv, SliceInv, Dispatch PROVE Pool!Launch(batch)
  <1>1. /\ at = "dispatch" /\ verdict = None /\ reason = None
        /\ UNCHANGED <<item, reason, verdict>>
        /\ worker' = [i \in Item |-> IF i \in batch THEN "on" ELSE worker[i]]
    BY NoneAssumption DEF Dispatch, SchedulerInv, Stopping
  <1>2. Answered = "open" /\ Answered' = Answered
    BY <1>1, AtWork DEF Answered
  <1>3. \A i \in batch : /\ i \in Item /\ Work(i) = "waiting" /\ Work(i)' = "running"
                         /\ \A d \in Deps[i] : \E j \in Item : Id[j] = d /\ Work(j) = "done"
    <2>1. \A i \in batch : i \in Item /\ item[i] = "running" /\ worker[i] = "none"
      BY DEF SchedulerInv, TypeOK, Bookkeeping
    <2>2. \A i \in batch : \A d \in Deps[i] : \E j \in Item : Id[j] = d /\ item[j] = "completed"
      BY DEF SchedulerInv, Bookkeeping
    <2>3. \A i \in batch : Work(i) = "waiting" /\ Work(i)' = "running"
      BY <1>1, <2>1 DEF Work
    <2>4. ASSUME NEW i \in batch, NEW d \in Deps[i]
          PROVE  \E j \in Item : Id[j] = d /\ Work(j) = "done"
      BY <2>2, DoneById
    <2> QED BY <2>1, <2>3, <2>4
  <1>4. \A i \in Item : i \notin batch => Work(i)' = Work(i)
    BY <1>1 DEF Work
  <1>5. [i \in Item |-> Work(i)]' = [i \in Item |-> IF i \in batch THEN "running" ELSE Work(i)]
    BY <1>3, <1>4
  <1>6. Pool!OnWork \subseteq active /\ active \subseteq Item /\ batch \subseteq Item
    BY <1>1, AtWork DEF SchedulerInv, TypeOK
  <1>7. Pool!Compatible(Pool!OnWork \cup batch)
    BY <1>6 DEF Pool!Compatible, SliceInv
  <1>8. Cardinality(Pool!OnWork \cup batch) <= Target
    <2>1. /\ IsFiniteSet(active) /\ Cardinality(active) \in Nat
          /\ IsFiniteSet(batch) /\ Cardinality(batch) \in Nat
      BY Sizes DEF SchedulerInv
    <2>2. /\ Cardinality(active \cup batch) = Cardinality(active) + Cardinality(batch) - Cardinality(active \cap batch)
          /\ IsFiniteSet(active \cup batch)
      BY <2>1, FS_Union
    <2>3. Cardinality(active \cap batch) \in Nat
      BY <2>1, FS_Intersection, FS_CardinalityType
    <2>4. Pool!OnWork \cup batch \subseteq active \cup batch
      BY <1>6
    <2>5. /\ Cardinality(Pool!OnWork \cup batch) <= Cardinality(active \cup batch)
          /\ Cardinality(Pool!OnWork \cup batch) \in Nat
      BY <2>2, <2>4, FS_Subset, FS_CardinalityType
    <2>6. Cardinality(active) + Cardinality(batch) <= Target
      BY DEF SchedulerInv, Fits
    <2> QED BY <2>1, <2>2, <2>3, <2>5, <2>6, BoundAssumption
  <1>9. \A i \in batch : /\ [j \in Item |-> Work(j)][i] = "waiting"
                         /\ \A d \in Deps[i] : \E k \in Item : Id[k] = d /\ [j \in Item |-> Work(j)][k] = "done"
    BY <1>3
  <1>10. [i \in Item |-> Work(i)]' = [i \in Item |-> IF i \in batch THEN "running" ELSE [j \in Item |-> Work(j)][i]]
    BY <1>5
  <1> QED BY <1>2, <1>7, <1>8, <1>9, <1>10, PoolCounts DEF Pool!Launch

\* What Close takes into the queue is admitted.
LEMMA CloseAdmits ==
    ASSUME SchedulerInv, Close PROVE (\E A \in SUBSET FollowUp : Pool!Admit(A)) \/ UNCHANGED Pool!poolVars
  <1> DEFINE A == {i \in Generated' : item[i] = "absent"}
  <1>1. /\ verdict = None /\ reason = None /\ UNCHANGED <<worker, reason, verdict>>
        /\ item \in [Item -> Status]
    BY NoneAssumption DEF Close, SchedulerInv, Stopping, TypeOK
  <1>2. \A i \in Item : \/ item'[i] = item[i]
                        \/ item[i] = "absent" /\ item'[i] = "pending" /\ i \in FollowUp
    BY CloseTakes, <1>1
  <1>3. A \in SUBSET FollowUp /\ Generated' = Generated \cup A /\ A \subseteq Item /\ A \cap Generated = {}
    BY <1>2, ItemAssumption DEF Generated
  <1>4. Cardinality(Generated \cup A) <= MaxExpansion
    BY <1>3, CloseKeeps DEF SchedulerInv, Fits
  <1>5. \A i \in A : item'[i] = "pending" /\ worker[i] = "none"
    BY <1>2, <1>3 DEF SchedulerInv, Bookkeeping, Generated
  <1>6. \A i \in Item : i \notin A => item'[i] = item[i]
    BY <1>2 DEF Generated
  <1> HIDE DEF A
  <1>7. \A i \in Item : Work(i)' = IF i \in A THEN "waiting" ELSE Work(i)
    BY <1>1, <1>5, <1>6 DEF Work
  <1>8. [i \in Item |-> Work(i)]' = [i \in Item |-> IF i \in A THEN "waiting" ELSE [j \in Item |-> Work(j)][i]]
    BY <1>7
  <1>9. Answered = "open" /\ Answered' = Answered /\ Pool!Admitted = Generated
    BY <1>1, AtWork DEF Answered
  <1>10. Pool!Admit(A)
    BY <1>3, <1>4, <1>8, <1>9, PoolCounts DEF Pool!Admit
  <1> QED BY <1>3, <1>10

\* Every step of the scheduler is one of the pool, or none.
LEMMA NextServes == SchedulerInv /\ SliceInv /\ [Next]_vars => [Pool!PoolNext]_Pool!poolVars
  <1> SUFFICES ASSUME SchedulerInv, SliceInv, [Next]_vars
               PROVE  Pool!PoolNext \/ UNCHANGED Pool!poolVars
    OBVIOUS
  <1>1. CASE UNCHANGED vars
    BY <1>1, PoolStutter DEF vars, queueVars, endVars
  <1>2. CASE Initialise \/ Dispatched \/ Stopped \/ Drain \/ Signal \/ Closed
    BY <1>2, PoolStutter DEF Initialise, Dispatched, Stopped, Drain, Signal, Closed, queueVars
  <1>3. CASE Dispatch
    <2>1. batch \in SUBSET Item
      BY DEF SchedulerInv, TypeOK
    <2> QED BY <1>3, <2>1, DispatchLaunches DEF Pool!PoolNext
  <1>4. CASE DispatchFails \/ StopOnSignal
    <2>1. verdict = None /\ reason = None
      BY <1>4, NoneAssumption DEF DispatchFails, StopOnSignal, SchedulerInv, Stopping
    <2>2. reason' \in Reason /\ UNCHANGED <<item, worker, verdict>>
      BY <1>4 DEF DispatchFails, StopOnSignal, StopFor, queueVars, Reason
    <2>3. Pool!Stop
      BY <2>1, <2>2, PoolStop
    <2> QED BY <2>3 DEF Pool!PoolNext
  <1>5. CASE Collect
    <2>1. PICK B \in Batches : item' = [i \in Item |-> IF i \in B THEN "running" ELSE item[i]]
      BY <1>5 DEF Collect
    <2>2. verdict = None /\ reason = None /\ UNCHANGED <<worker, verdict>>
      BY <1>5, NoneAssumption DEF Collect, SchedulerInv, Stopping
    <2>3. \A i \in Item : item[i] = "absent" <=> item'[i] = "absent"
      BY <2>1 DEF Batches, Ready
    <2>4. reason' = reason \/ reason' \in Reason
      BY <1>5 DEF Collect, StopFor, Reason
    <2>5. CASE reason' = reason
      BY <2>2, <2>3, <2>5, PoolStutter
    <2>6. CASE reason' \in Reason
      <3>1. Pool!Stop
        BY <2>2, <2>3, <2>6, PoolStop
      <3> QED BY <3>1 DEF Pool!PoolNext
    <2> QED BY <2>4, <2>5, <2>6
  <1>6. CASE Loop
    <2>1. verdict = None /\ reason = None /\ UNCHANGED <<item, worker, verdict>>
      BY <1>6, NoneAssumption DEF Loop, queueVars, SchedulerInv, Stopping
    <2>2. CASE reason' = reason
      BY <2>1, <2>2, PoolStutter
    <2>3. CASE reason' \in Reason
      <3>1. Pool!Stop
        BY <2>1, <2>3, PoolStop
      <3> QED BY <3>1 DEF Pool!PoolNext
    <2>4. reason' = reason \/ reason' \in Reason
      BY <1>6 DEF Loop, StopFor, Reason
    <2> QED BY <2>2, <2>3, <2>4
  <1>7. ASSUME NEW i \in Item, Settle(i) PROVE UNCHANGED Pool!poolVars
    <2>1. UNCHANGED <<worker, reason, verdict>> /\ \A j \in Item : item[j] = "absent" <=> item'[j] = "absent"
      BY <1>7 DEF Settle, Complete, FirstOfId, Rows, SchedulerInv, TypeOK
    <2> QED BY <2>1, PoolStutter
  <1>8. CASE Close
    BY <1>8, CloseAdmits DEF Pool!PoolNext
  <1>9. CASE SettleStopped
    <2>1. UNCHANGED <<worker, reason, verdict>> /\ \A j \in Item : item[j] = "absent" <=> item'[j] = "absent"
      BY <1>9 DEF SettleStopped, Blocked, FirstOfId, Rows, endVars, Unfinished
    <2> QED BY <2>1, PoolStutter
  <1>10. CASE Return
    <2>1. /\ at = "drained" /\ verdict = None /\ active = {} /\ Unfinished = {}
          /\ verdict' = IF blocked' THEN "blocked" ELSE "ok"
          /\ UNCHANGED <<item, worker, reason>> /\ blocked' \in {blocked, TRUE}
      BY <1>10, NoneAssumption DEF Return, WriteAll, queueVars, SchedulerInv, Stopping
    <2>2. [i \in Item |-> Work(i)]' = [i \in Item |-> Work(i)]
      BY <2>1 DEF Work
    <2>3. Answered' = verdict' /\ Answered \in {"open", "stopping"} /\ (Answered = "open" <=> reason = None)
      BY <2>1, NoneAssumption DEF Answered
    <2>4. ASSUME verdict' = "ok" PROVE reason = None /\ \A i \in Item : Work(i) \in {"absent", "done"}
      <3>1. ~blocked
        BY <2>1, <2>4 DEF SchedulerInv, TypeOK
      <3>2. reason = None /\ \A i \in Item : item[i] \in {"absent", "completed"}
        BY <2>1, <3>1 DEF SchedulerInv, Stopping, TypeOK, Status, Unfinished
      <3>3. ASSUME NEW i \in Item, item[i] = "completed" PROVE worker[i] = "done"
        <4>1. PICK j \in Item : Id[j] = Id[i] /\ worker[j] = "done" /\ item[j] # "absent"
          BY <3>3 DEF SchedulerInv, Bookkeeping
        <4>2. i \in Rows /\ j \in Rows /\ Alone(i)
          BY <2>1, <3>2, <3>3, <4>1, AllAlone DEF Rows
        <4> QED BY <4>1, <4>2 DEF Alone
      <3> QED BY <3>2, <3>3 DEF Work
    <2>5. reason = None => Pool!OnWork = {}
      BY <2>1, AtWork
    <2>6. Pool!Answer(verdict')
      BY <2>2, <2>3, <2>4, <2>5 DEF Pool!Answer, Pool!Verdict
    <2>7. verdict' \in Pool!Verdict
      BY <2>1 DEF Pool!Verdict
    <2> QED BY <2>6, <2>7 DEF Pool!PoolNext
  <1>11. CASE Throw
    <2>1. verdict = None /\ verdict' = "error" /\ UNCHANGED <<item, worker, reason>>
      BY <1>11, NoneAssumption DEF Throw, SchedulerInv, Stopping
    <2>2. [i \in Item |-> Work(i)]' = [i \in Item |-> Work(i)]
      BY <2>1 DEF Work
    <2>3. Answered' = "error" /\ Answered \in {"open", "stopping"}
      BY <2>1, NoneAssumption DEF Answered
    <2>4. Pool!Answer("error") /\ "error" \in Pool!Verdict
      BY <2>2, <2>3 DEF Pool!Answer, Pool!Verdict
    <2> QED BY <2>4 DEF Pool!PoolNext
  <1>12. ASSUME NEW i \in Item, WorkerEnds(i) PROVE Pool!Finish(i)
    <2>1. PICK s \in {"done", "failed"} : worker' = [worker EXCEPT ![i] = s]
      BY <1>12 DEF WorkerEnds
    <2>2. worker[i] = "on" /\ item[i] # "absent" /\ UNCHANGED <<item, reason, verdict>>
      BY <1>12 DEF WorkerEnds, endVars, SchedulerInv, Bookkeeping
    <2>3. Work(i) = "running" /\ Work(i)' = s
      BY <2>1, <2>2 DEF Work, SchedulerInv, TypeOK
    <2>4. \A j \in Item : j # i => Work(j)' = Work(j)
      BY <2>1, <2>2 DEF Work, SchedulerInv, TypeOK
    <2>5. [j \in Item |-> Work(j)]' = [[j \in Item |-> Work(j)] EXCEPT ![i] = s]
      BY <2>3, <2>4
    <2>6. Answered' = Answered
      BY <2>2 DEF Answered
    <2> QED BY <2>3, <2>5, <2>6 DEF Pool!Finish
  <1>13. CASE Ended
    BY <1>1, <1>13 DEF Ended
  <1> QED BY <1>1, <1>2, <1>3, <1>4, <1>5, <1>6, <1>7, <1>8, <1>9, <1>10, <1>11, <1>12, <1>13
          DEF Next, Step, Pool!PoolNext

\* If the slices have ids of their own, runAgentScheduler never does more with its
\* workers, nor says more of them, than WorkPool allows.
THEOREM SchedulerServes ==
    ASSUME SliceIds PROVE Spec => ImplementsWorkPool
  <1>1. Init => Pool!PoolInit
    <2> SUFFICES ASSUME Init PROVE Pool!PoolInit
      OBVIOUS
    <2>1. \A i \in Item : Work(i) = IF i \in FollowUp THEN "absent" ELSE "waiting"
      BY DEF Init, Work
    <2>2. Answered = "open"
      BY DEF Init, Answered
    <2> QED BY <2>1, <2>2 DEF Pool!PoolInit
  <1>2. Init => SliceInv
    BY SliceInit
  <1> QED BY <1>1, <1>2, SliceNext, NextServes, SchedulerInvariant, PTL DEF Spec, ImplementsWorkPool, Pool!PoolSpec

-----------------------------------------------------------------------------
(* The workers themselves, which outlive the books a stop closes.          *)

AtWorkNow == {i \in Item : worker[i] = "on"}

WorkersFit ==
    /\ \A i, j \in AtWorkNow : i = j \/ Paths[i] \cap Paths[j] = {}
    /\ Cardinality(AtWorkNow) <= Target

\* Also after a stop, while workers nobody waits for any more are still going: no two write
\* one path, they are no more than the target, and none was started before what its
\* item depends on was done.
WorkersKeptApart ==
    /\ WorkersFit
    /\ \A i \in Item : worker[i] # "none" =>
          \A d \in Deps[i] : \E j \in Item : Id[j] = d /\ worker[j] = "done"

\* Before a stop the scheduler's own books bound the workers.
LEMMA WorkersInBooks == SchedulerInv /\ SliceInv /\ reason = None => WorkersFit
  <1> SUFFICES ASSUME SchedulerInv, SliceInv, reason = None PROVE WorkersFit
    OBVIOUS
  <1>1. AtWorkNow \subseteq active
    BY DEF AtWorkNow, SchedulerInv, Bookkeeping
  <1>2. Cardinality(AtWorkNow) <= Cardinality(active) /\ Cardinality(AtWorkNow) \in Nat
    BY <1>1, Sizes, FS_Subset, FS_CardinalityType DEF SchedulerInv
  <1>3. Cardinality(active) + Cardinality(batch) <= Target
    BY DEF SchedulerInv, Fits
  <1>4. Cardinality(active) \in Nat /\ Cardinality(batch) \in Nat
    BY Sizes DEF SchedulerInv
  <1>5. Cardinality(AtWorkNow) <= Target
    BY <1>2, <1>3, <1>4, BoundAssumption
  <1> QED BY <1>1, <1>5 DEF WorkersFit, SliceInv

\* A worker that ends leaves the others apart, and is done for no item before it.
LEMMA EndKeepsApart ==
    ASSUME SchedulerInv, WorkersKeptApart, NEW i \in Item, WorkerEnds(i)
    PROVE  WorkersKeptApart'
  <1>1. worker[i] = "on" /\ \A j \in Item \ {i} : worker'[j] = worker[j]
    BY DEF WorkerEnds, SchedulerInv, TypeOK
  <1>2. AtWorkNow' \subseteq AtWorkNow
    BY <1>1 DEF AtWorkNow, WorkerEnds, SchedulerInv, TypeOK
  <1>3. IsFiniteSet(AtWorkNow)
    BY ItemAssumption, FS_Subset DEF AtWorkNow
  <1>4. Cardinality(AtWorkNow') <= Target
    BY <1>2, <1>3, FS_Subset, FS_CardinalityType, BoundAssumption DEF WorkersKeptApart, WorkersFit
  <1>5. \A j \in Item : worker[j] = "done" => worker'[j] = "done"
    BY <1>1
  <1>6. \A j \in Item : worker'[j] # "none" =>
           \A d \in Deps[j] : \E k \in Item : Id[k] = d /\ worker'[k] = "done"
    BY <1>1, <1>5 DEF WorkersKeptApart
  <1> QED BY <1>2, <1>4, <1>6 DEF WorkersKeptApart, WorkersFit

\* What is launched had its dependencies done, and fits beside what is at work.
LEMMA LaunchKeepsApart ==
    ASSUME SchedulerInv, SchedulerInv', SliceInv', WorkersKeptApart, Dispatch
    PROVE  WorkersKeptApart'
  <1>1. (reason = None)'
    BY DEF Dispatch, SchedulerInv, Stopping
  <1>2. WorkersFit'
    BY <1>1, WorkersInBooks, PTL
  <1>3. \A i \in Item : worker'[i] = IF i \in batch THEN "on" ELSE worker[i]
    BY DEF Dispatch
  <1>4. \A i \in batch : /\ worker[i] = "none"
                         /\ \A d \in Deps[i] : \E j \in Item : Id[j] = d /\ item[j] = "completed"
    BY DEF SchedulerInv, Bookkeeping
  <1>5. \A i \in batch : \A d \in Deps[i] : \E j \in Item : Id[j] = d /\ worker[j] = "done"
    <2>1. \A k \in Item : item[k] = "completed" => \E j \in Item : Id[j] = Id[k] /\ worker[j] = "done"
      BY DEF SchedulerInv, Bookkeeping
    <2> QED BY <1>4, <2>1
  <1>6. \A j \in Item : worker[j] = "done" => worker'[j] = "done"
    BY <1>3, <1>4
  <1>7. \A i \in Item : worker'[i] # "none" =>
           \A d \in Deps[i] : \E j \in Item : Id[j] = d /\ worker'[j] = "done"
    <2>1. \A i \in Item : worker'[i] # "none" =>
             \A d \in Deps[i] : \E j \in Item : Id[j] = d /\ worker[j] = "done"
      BY <1>3, <1>5 DEF WorkersKeptApart
    <2> QED BY <1>6, <2>1
  <1> QED BY <1>2, <1>7 DEF WorkersKeptApart

\* If the slices have ids of their own, runAgentScheduler never lets agents write one
\* path at once, exceed the target or run ahead of their dependencies, also when it has
\* stopped waiting for them.
THEOREM WorkersNeverCollide ==
    ASSUME SliceIds PROVE Spec => []WorkersKeptApart
  <1>1. Init => WorkersKeptApart
    <2> SUFFICES ASSUME Init PROVE WorkersKeptApart
      OBVIOUS
    <2>1. AtWorkNow = {}
      BY DEF Init, AtWorkNow
    <2> QED BY <2>1, FS_EmptySet, BoundAssumption DEF Init, WorkersKeptApart, WorkersFit
  <1>2. SchedulerInv /\ SchedulerInv' /\ SliceInv' /\ WorkersKeptApart /\ [Next]_vars => WorkersKeptApart'
    <2> SUFFICES ASSUME SchedulerInv, SchedulerInv', SliceInv', WorkersKeptApart, [Next]_vars
                 PROVE  WorkersKeptApart'
      OBVIOUS
    <2>1. ASSUME UNCHANGED worker PROVE WorkersKeptApart'
      BY <2>1 DEF WorkersKeptApart, WorkersFit, AtWorkNow
    <2>2. ASSUME Step, ~Dispatch PROVE UNCHANGED worker
      BY <2>2 DEF Step, Initialise, Collect, DispatchFails, Dispatched, StopOnSignal, Loop, Settle, Close,
         Closed, SettleStopped, Stopped, Drain, Return, Throw, queueVars
    <2>3. ASSUME Signal \/ Ended \/ UNCHANGED vars PROVE UNCHANGED worker
      BY <2>3 DEF Signal, Ended, vars, queueVars
    <2> QED BY <2>1, <2>2, <2>3, EndKeepsApart, LaunchKeepsApart DEF Next
  <1>3. Init => SliceInv
    BY SliceInit
  <1> QED BY <1>1, <1>2, <1>3, SliceNext, SchedulerInvariant, PTL DEF Spec

-----------------------------------------------------------------------------
(***************************************************************************)
(* ModelCallSemaphore.                                                     *)
(*                                                                         *)
(* Neither property is inductive.  That the budget is kept rests on the    *)
(* counter counting the calls that hold a slot (Accounted), which a hand   *)
(* over preserves only because the call it wakes was waiting (Queue); and  *)
(* that no slot is idle beside a waiter, on calls queueing only when the   *)
(* counter is at the budget (Full).                                        *)
(***************************************************************************)
USE CallAssumption, BudgetAssumption

States == {"out", "waiting", "granted", "running"}

\* The counter is the number of calls that hold a slot.
Accounted ==
    /\ inUse \in Nat
    /\ inUse <= Budget
    /\ inUse = Cardinality(Using)

\* The queue holds calls that wait, each once.
Queue ==
    /\ waiters \in Seq(Call)
    /\ queued = Len(waiters)
    /\ \A i \in 1..Len(waiters) : pc[waiters[i]] = "waiting"
    /\ \A i, j \in 1..Len(waiters) : i # j => waiters[i] # waiters[j]

\* Calls wait only when all slots are taken.
Full == waiters # <<>> => inUse = Budget

SlotInv ==
    /\ pc \in [Call -> States]
    /\ maxObserved \in Nat
    /\ Accounted
    /\ Queue
    /\ Full

\* The calls that hold a slot can be counted.
LEMMA UsingFinite == IsFiniteSet(Using)
<1>1. Using \in SUBSET Call
  BY DEF Using
<1> QED
  BY <1>1, FS_Subset

\* One more call holds a slot.
LEMMA OneMore ==
    ASSUME NEW c \in Call, c \notin Using, Using' = Using \cup {c}
    PROVE  Cardinality(Using)' = Cardinality(Using) + 1
BY UsingFinite, FS_AddElement

\* One call fewer holds a slot.
LEMMA OneFewer ==
    ASSUME NEW c \in Using, Using' = Using \ {c}
    PROVE  Cardinality(Using)' = Cardinality(Using) - 1
BY UsingFinite, FS_RemoveElement

\* A slot changes hands: as many calls hold one.
LEMMA AsMany ==
    ASSUME NEW c \in Using, NEW d \in Call, d \notin Using,
           Using' = (Using \ {c}) \cup {d}
    PROVE  Cardinality(Using)' = Cardinality(Using)
<1>1. /\ IsFiniteSet(Using \ {c})
      /\ Cardinality(Using \ {c}) = Cardinality(Using) - 1
  BY UsingFinite, FS_RemoveElement
<1>2. Cardinality((Using \ {c}) \cup {d}) = Cardinality(Using \ {c}) + 1
  BY <1>1, FS_AddElement
<1>3. Cardinality(Using) \in Nat
  BY UsingFinite, FS_CardinalityType
<1> QED
  BY <1>1, <1>2, <1>3

\* At the start no call holds a slot or waits.
LEMMA InvInit == SemaphoreInit => SlotInv
<1> SUFFICES ASSUME SemaphoreInit PROVE SlotInv
  OBVIOUS
<1>1. Using = {}
  BY DEF SemaphoreInit, Using
<1>2. Accounted
  BY <1>1, FS_EmptySet DEF SemaphoreInit, Accounted
<1> QED
  BY <1>2 DEF SemaphoreInit, SlotInv, Queue, Full, States

\* Acquire, enqueue, resume, hand over and release keep the invariant.
LEMMA InvNext == SlotInv /\ [SemaphoreNext]_semaphoreVars => SlotInv'
<1> SUFFICES ASSUME SlotInv, [SemaphoreNext]_semaphoreVars PROVE SlotInv'
  OBVIOUS
<1> USE DEF SlotInv, States
<1>1. ASSUME NEW c \in Call, Acquire(c) PROVE SlotInv'
  <2>1. Using' = Using \cup {c} /\ c \notin Using
    BY <1>1 DEF Acquire, Become, Using
  <2>2. Accounted'
    BY <1>1, <2>1, OneMore DEF Acquire, Accounted
  <2>3. waiters = <<>>
    BY <1>1 DEF Acquire, Accounted, Full
  <2>4. Queue' /\ Full'
    BY <1>1, <2>3 DEF Acquire, Queue, Full
  <2>5. (pc \in [Call -> States] /\ maxObserved \in Nat)'
    BY <1>1, <2>2 DEF Acquire, Become, Accounted
  <2> QED
    BY <2>2, <2>4, <2>5
<1>2. ASSUME NEW c \in Call, Await(c) PROVE SlotInv'
  <2>1. Using' = Using
    BY <1>2 DEF Await, Become, Using
  <2>2. Accounted' /\ Full'
    BY <1>2, <2>1 DEF Await, Accounted, Full
  <2>3. \A i \in 1..Len(waiters) : waiters[i] # c
    BY <1>2 DEF Await, Queue
  <2>4. Queue'
    BY <1>2, <2>3 DEF Await, Queued, Become, Queue
  <2> QED
    BY <1>2, <2>2, <2>4 DEF Await, Become
<1>3. ASSUME NEW c \in Call, Resume(c) PROVE SlotInv'
  <2>1. Using' = Using
    BY <1>3 DEF Resume, Become, Using
  <2>2. Accounted' /\ Full'
    BY <1>3, <2>1 DEF Resume, Accounted, Full
  <2>3. Queue'
    BY <1>3 DEF Resume, Become, Queue
  <2> QED
    BY <1>3, <2>2, <2>3 DEF Resume, Become
<1>4. ASSUME NEW c \in Call, HandOver(c) PROVE SlotInv'
  <2> DEFINE d == Head(waiters)
  <2>1. d \in Call /\ d = waiters[1] /\ pc[d] = "waiting" /\ d # c
    BY <1>4 DEF HandOver, Queue
  <2>2. Using' = (Using \ {c}) \cup {d} /\ c \in Using /\ d \notin Using
    BY <1>4, <2>1 DEF HandOver, Using
  <2>3. Accounted'
    BY <1>4, <2>1, <2>2, AsMany DEF HandOver, KeepSlot, Accounted
  <2>4. Full'
    BY <1>4 DEF HandOver, KeepSlot, Full
  <2>5. /\ waiters' \in Seq(Call)
        /\ Len(waiters') = Len(waiters) - 1
        /\ \A i \in 1..Len(waiters') : waiters'[i] = waiters[i + 1]
    BY <1>4 DEF HandOver, Queue
  <2>6. \A i \in 1..Len(waiters') : waiters'[i] # d /\ waiters'[i] # c
    BY <1>4, <2>1, <2>5 DEF HandOver, Queue
  <2>7. Queue'
    BY <1>4, <2>5, <2>6 DEF HandOver, Queue
  <2> QED
    BY <1>4, <2>1, <2>3, <2>4, <2>7 DEF HandOver
<1>5. ASSUME NEW c \in Call, Release(c) PROVE SlotInv'
  <2>1. Using' = Using \ {c} /\ c \in Using
    BY <1>5 DEF Release, Become, Using
  <2>2. inUse > 0
    BY <2>1, UsingFinite, FS_EmptySet DEF Accounted
  <2>3. Cardinality(Using)' = Cardinality(Using) - 1
    BY <2>1, OneFewer
  <2>4. Accounted'
    BY <1>5, <2>2, <2>3 DEF Release, Accounted
  <2>5. Queue' /\ Full'
    BY <1>5 DEF Release, Queue, Full
  <2> QED
    BY <1>5, <2>4, <2>5 DEF Release, Become
<1>6. CASE UNCHANGED semaphoreVars
  BY <1>6 DEF semaphoreVars, Accounted, Queue, Full, Using
<1> QED
  BY <1>1, <1>2, <1>3, <1>4, <1>5, <1>6 DEF SemaphoreNext

\* The invariant holds in every state.
LEMMA SemaphoreInv == SemaphoreSpec => []SlotInv
BY InvInit, InvNext, PTL DEF SemaphoreSpec

\* The counters are never negative and every caller is in one of its states.
THEOREM SemaphoreTypes == SemaphoreSpec => []SemaphoreTypeOK
<1>1. SlotInv => SemaphoreTypeOK
  BY DEF SlotInv, SemaphoreTypeOK, Accounted, Queue, States
<1> QED
  BY <1>1, SemaphoreInv, PTL

\* No more calls hold a slot than the budget allows.
THEOREM BudgetKept == SemaphoreSpec => []WithinBudget
<1>1. SlotInv => WithinBudget
  BY DEF SlotInv, WithinBudget, Accounted
<1> QED
  BY <1>1, SemaphoreInv, PTL

\* While a call waits, as many calls hold a slot as the budget allows.
THEOREM SlotsInUse == SemaphoreSpec => []NoSlotIdle
<1>1. SlotInv => NoSlotIdle
  BY DEF SlotInv, NoSlotIdle, Accounted, Full
<1> QED
  BY <1>1, SemaphoreInv, PTL

\* Who waits is in the queue, so that a release finds it; and what the concurrency report
\* says of the semaphore (queued, maxObserved) is so: as many calls are queued, and no more
\* held a slot, nor may.
NobodyForgotten ==
    /\ \A c \in Call : pc[c] = "waiting" => \E i \in 1..Len(waiters) : waiters[i] = c
    /\ queued = Len(waiters)
    /\ inUse <= maxObserved /\ maxObserved <= Budget

\* No call is lost between the queue and its slot, whoever calls, ends or fails meanwhile.
THEOREM WaitersRemembered == SemaphoreSpec => []NobodyForgotten
<1>1. SemaphoreInit => NobodyForgotten
  BY DEF SemaphoreInit, NobodyForgotten
<1>2. SlotInv /\ SlotInv' /\ NobodyForgotten /\ [SemaphoreNext]_semaphoreVars => NobodyForgotten'
  <2> SUFFICES ASSUME SlotInv, SlotInv', NobodyForgotten, [SemaphoreNext]_semaphoreVars
               PROVE  NobodyForgotten'
    OBVIOUS
  <2>1. /\ pc \in [Call -> States] /\ waiters \in Seq(Call) /\ (queued = Len(waiters))'
        /\ inUse \in Nat /\ inUse <= Budget /\ maxObserved \in Nat
    BY DEF SlotInv, Queue, Accounted
  <2> USE DEF NobodyForgotten, Become, States
  <2>2. ASSUME NEW c \in Call, Acquire(c) PROVE NobodyForgotten'
    BY <2>1, <2>2 DEF Acquire
  <2>3. ASSUME NEW c \in Call, Await(c) PROVE NobodyForgotten'
    <3>1. /\ Len(waiters') = Len(waiters) + 1 /\ waiters'[Len(waiters) + 1] = c
          /\ \A i \in 1..Len(waiters) : waiters'[i] = waiters[i]
      BY <2>1, <2>3 DEF Await, Queued
    <3>2. \A d \in Call \ {c} : pc'[d] = pc[d]
      BY <2>1, <2>3 DEF Await
    <3> QED
      BY <2>1, <2>3, <3>1, <3>2 DEF Await
  <2>4. ASSUME NEW c \in Call, Resume(c) PROVE NobodyForgotten'
    BY <2>1, <2>4 DEF Resume
  <2>5. ASSUME NEW c \in Call, HandOver(c) PROVE NobodyForgotten'
    <3>1. waiters # <<>> /\ waiters' = Tail(waiters) /\ Len(waiters') = Len(waiters) - 1
      BY <2>1, <2>5 DEF HandOver
    <3>2. \A i \in 2..Len(waiters) : waiters'[i - 1] = waiters[i]
      BY <2>1, <3>1
    <3>3. \A d \in Call : pc'[d] = "waiting" => pc[d] = "waiting" /\ d # waiters[1]
      BY <2>1, <2>5, <3>1 DEF HandOver
    <3>4. ASSUME NEW d \in Call, pc'[d] = "waiting"
          PROVE  \E i \in 1..Len(waiters') : waiters'[i] = d
      <4>1. PICK i \in 1..Len(waiters) : waiters[i] = d /\ i # 1
        BY <3>3, <3>4
      <4> QED
        BY <2>1, <3>1, <3>2, <4>1
    <3> QED
      BY <2>1, <2>5, <3>4 DEF HandOver, KeepSlot
  <2>6. ASSUME NEW c \in Call, Release(c) PROVE NobodyForgotten'
    BY <2>1, <2>6 DEF Release
  <2>7. CASE UNCHANGED semaphoreVars
    BY <2>7 DEF semaphoreVars
  <2> QED
    BY <2>2, <2>3, <2>4, <2>5, <2>6, <2>7 DEF SemaphoreNext
<1> QED
  BY <1>1, <1>2, SemaphoreInv, PTL DEF SemaphoreSpec
=============================================================================
