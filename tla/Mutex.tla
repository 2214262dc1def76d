------------------------------- MODULE Mutex -------------------------------
(***************************************************************************)
(* What the locks of threads/synch.c promise ("a semaphore with an initial *)
(* value of 1 ... the same thread must both acquire and release it"): each *)
(* lock has at most one owner, a thread becomes the owner only of a lock   *)
(* that nobody owns, and only giving the lock up ends its ownership.       *)
(***************************************************************************)
CONSTANTS Thread, Lock, NULL

VARIABLE owner

Init == owner = [l \in Lock |-> NULL]

Acquire(t, l) ==
  /\ owner[l] = NULL
  /\ owner' = [owner EXCEPT ![l] = t]

Release(l) ==
  /\ owner[l] # NULL
  /\ owner' = [owner EXCEPT ![l] = NULL]

Next == \E l \in Lock : Release(l) \/ \E t \in Thread : Acquire(t, l)

Spec == Init /\ [][Next]_owner

=============================================================================
