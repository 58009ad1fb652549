SPECIFICATION FairSemaphore
CONSTANTS
    Call = {c1, c2, c3, c4, c5}
    Budget = 2
INVARIANTS SemaphoreTypeOK WithinBudget NoSlotIdle
PROPERTIES WaiterServed
