----------------------------- MODULE SynchMutex -----------------------------
(* The locks built from semaphores in Synch implement Mutex.               *)
EXTENDS Synch

\* The thread that is between taking and giving back the semaphore of l.
Owner(l) ==
  IF \E t \in Thread : Owns(t, l) THEN CHOOSE t \in Thread : Owns(t, l) ELSE NULL

M == INSTANCE Mutex WITH owner <- [l \in Lock |-> Owner(l)]

(***************************************************************************)
(* lock_acquire(), lock_try_acquire(), lock_release() and the lock calls   *)
(* inside cond_wait() and allocate_tid() implement an abstract mutex: the  *)
(* ownership of a lock never passes from one thread to another except      *)
(* through the lock being free, and two locks never change hands at once.  *)
(***************************************************************************)
LocksAreMutexes == M!Spec

=============================================================================
