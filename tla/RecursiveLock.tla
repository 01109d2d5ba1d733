---------------------------- MODULE RecursiveLock ----------------------------
(***************************************************************************)
(* What mutex_lock_t promises its callers: one owner at a time, which may  *)
(* acquire the lock again and gives it up with the release that matches    *)
(* its first acquire.                                                      *)
(***************************************************************************)
EXTENDS Naturals

CONSTANT Thread

VARIABLES owners,  \* the threads that own the lock: none or one
          depth    \* how many of its acquires the owner has not yet released

vars == << owners, depth >>

Init == owners = {} /\ depth = 0

Acquire(t) ==
  /\ owners \in {{}, {t}}
  /\ owners' = {t}
  /\ depth' = depth + 1

Release(t) ==
  /\ owners = {t}
  /\ depth' = depth - 1
  /\ owners' = IF depth = 1 THEN {} ELSE {t}

Next == \E t \in Thread : Acquire(t) \/ Release(t)

Spec == Init /\ [][Next]_vars

=============================================================================
