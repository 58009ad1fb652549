------------------------------- MODULE Mutex -------------------------------
(***************************************************************************)
(* What withFileLock promises its callers, with nothing of how: a lock has *)
(* at most one holder, it is taken only when it is free, and it never      *)
(* passes from one holder to another without being free in between.  A     *)
(* holder lets go by returning from its critical section or by dying.      *)
(***************************************************************************)
CONSTANTS
    Actor,   \* the calls that compete for the lock
    None     \* no call

VARIABLE holder   \* the call inside its critical section, or None

Init == holder = None

Acquire(a) == holder = None /\ holder' = a

LetGo(a) == holder = a /\ holder' = None

Next == \E a \in Actor : Acquire(a) \/ LetGo(a)

Spec == Init /\ [][Next]_holder
=============================================================================
