------------------------------ MODULE SynchInv ------------------------------
(***************************************************************************)
(* The inductive invariant of Synch: what has to hold of the queues, the   *)
(* idle thread and the calls in progress for the properties of Synch to be *)
(* kept by every step.                                                     *)
(***************************************************************************)
EXTENDS SynchMutex

IdleLabel == {"idle_start", "idle_up", "idle_block", "hlt"}

\* A thread is on a wait list only while it is blocked inside sema_down() on
\* that very semaphore; lists do not repeat; the run queue is exact.
QueueInv ==
  /\ IsInjective(ready_list)
  /\ \A s \in Sema : IsInjective(waiters[s])
  /\ \A s \in Sema : \A t \in Range(waiters[s]) :
       status[t] = "blocked" /\ pc[t] = "woken" /\ on[t] = s
  /\ ReadyQueueExact

\* Until thread_start() only the initial thread exists; from then until the
\* idle thread has run, the idle thread is ready or running, so that schedule()
\* finds a thread; afterwards idle_thread is there to be found.
IdleInv ==
  /\ pc[idle] \in IdleLabel \cup {"none"}
  /\ \A t \in Thread : pc[t] \in IdleLabel => t = idle
  /\ \A t \in Thread : pc[t] = "boot" =>
       /\ t = initial_thread /\ running = t /\ idle_thread = NULL
       /\ \A u \in Thread \ {t} : pc[u] = "none" /\ tid[u] = 0 /\ status[u] = "free"
  /\ idle_thread = NULL =>
       \/ pc[initial_thread] = "boot"
       \/ pc[idle] = "idle_start" /\ status[idle] \in {"ready", "running"}

\* What the arguments of a call in progress are: thread t is at label p, its call
\* is about semaphore or lock o and condition variable c.
ArgOK(t, p, o, c) ==
  /\ p \in {"sema_down", "woken"} => o \in Semaphore \cup Lock \cup {t}
  /\ p \in {"sema_down", "woken"} /\ o = t => c \in Condition
  /\ p \in {"wait_release", "wait_up", "broadcast", "broadcast_up"} => c \in Condition
  /\ p \in {"set_holder", "sema_up", "wait_release", "wait_up"} => o \in Lock
  /\ p \in {"signal_up", "broadcast_up"} => o \in Thread
  /\ p \in {"tid_read", "tid_write", "tid_release", "tid_up"} => o = tid_lock
  /\ p \in {"sema_up", "wait_release", "wait_up", "thread_unblock"} => o # tid_lock

ArgInv == \A t \in Thread : ArgOK(t, pc[t], on[t], cv[t])

\* The thread that thread_create() is making is blocked, on no list, has no code
\* of its own to run yet and is made by nobody else.
NewInv ==
  /\ \A t \in Thread : status[t] = "free" => pc[t] = "none"
  /\ \A t \in Thread :
       on[t] = tid_lock \/ pc[t] = "thread_unblock" => new[t] # NULL
  /\ \A t \in Thread : new[t] # NULL =>
       /\ status[new[t]] = "blocked" /\ pc[new[t]] = "none"
       /\ new[t] # idle
       /\ \A u \in Thread : new[u] = new[t] => u = t

\* A thread at one of these points holds the lock its call is about.
Holding == {"wait_release", "tid_read", "tid_write", "tid_release"}

\* lock->holder inside lock_acquire(), lock_release() and their callers.
HolderInv ==
  \A t \in Thread :
    /\ pc[t] \in Holding => holder[on[t]] = t
    /\ pc[t] \in Between => holder[on[t]] = NULL

\* Identifiers in use are below next_tid, and the copy that allocate_tid() has
\* made of next_tid is up to date.
TidInv ==
  /\ \A t \in Thread : tid[t] < next_tid
  /\ next_tid > 0
  /\ \A t \in Thread : pc[t] = "tid_write" => tmp[t] = next_tid
  /\ UniqueTids

(***************************************************************************)
(* The inductive invariant: what every call in progress may rely on when   *)
(* it is preempted in the middle of thread.c or synch.c.                   *)
(***************************************************************************)
Inductive ==
  /\ TypeOK /\ QueueInv /\ IdleInv /\ ArgInv /\ NewInv
  /\ HolderInv /\ LockExclusive /\ TidInv

=============================================================================
