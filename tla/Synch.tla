------------------------------- MODULE Synch -------------------------------
(***************************************************************************)
(* Semaphores, locks and condition variables (threads/synch.c) and the     *)
(* threads that call them, on top of the scheduler (Sched).                *)
(*                                                                         *)
(* Only the running thread takes steps.  A step is a stretch of code with  *)
(* interrupts off, or the code between two points where another thread may *)
(* observe a difference; between steps the timer may preempt the thread    *)
(* unless it has just been woken inside sema_down(), which still has       *)
(* interrupts off then.  pc[t] is the point that thread t has reached;     *)
(* "call" is its own code, where it may call any primitive whose           *)
(* assertions hold.                                                        *)
(***************************************************************************)
EXTENDS Sched, FiniteSets, Functions

CONSTANTS Semaphore,     \* semaphores shared by threads
          idle_started,  \* the one thread_start() waits on
          DeviceSema,    \* semaphores that interrupt handlers up
          Lock,
          tid_lock,      \* the lock of allocate_tid()
          Condition,
          LockOf,        \* the lock each condition variable is used with
          MaxValue,      \* bound on the value of a semaphore
          MaxTid         \* bound on thread identifiers

\* Every semaphore: plain ones, the one inside each lock, and the one that
\* cond_wait() puts on the stack of its caller.
Sema == Semaphore \cup Lock \cup Thread

ASSUME SynchAssumption ==
  /\ idle_started \in Semaphore
  /\ DeviceSema \subseteq Semaphore \ {idle_started}
  /\ tid_lock \in Lock
  /\ LockOf \in [Condition -> Lock \ {tid_lock}]
  /\ Semaphore \cap Lock = {}
  /\ Semaphore \cap Thread = {}
  /\ Lock \cap Thread = {}
  /\ NULL \notin Sema \cup Condition
  /\ MaxValue \in Nat
  /\ MaxTid \in Nat

VARIABLES value,         \* sema->value
          waiters,       \* sema->waiters, longest waiting first
          holder,        \* lock->holder
          cond_waiters,  \* cond->waiters, named by the waiting thread
          pc,            \* where each thread is
          on,            \* the semaphore or lock its current call is about
          cv,            \* the condition variable of its current call
          new,           \* the thread its thread_create() is making
          tmp,           \* the identifier its allocate_tid() has read
          next_tid,
          tid

synch_vars == <<value, waiters, holder, cond_waiters>>
call_vars == <<on, cv, new, tmp>>
tid_vars == <<next_tid, tid>>
vars == <<sched_vars, synch_vars, pc, call_vars, tid_vars>>

Label == {"none", "boot", "call", "sema_down", "woken", "set_holder", "sema_up",
          "wait_release", "wait_up", "signal_up", "broadcast", "broadcast_up",
          "tid_read", "tid_write", "tid_release", "tid_up", "thread_unblock",
          "idle_start", "idle_up", "idle_block", "hlt"}

\* Every variable has its type.
TypeOK ==
  /\ SchedTypeOK
  /\ value \in [Sema -> Nat]
  /\ waiters \in [Sema -> Seq(Thread)]
  /\ holder \in [Lock -> Thread \cup {NULL}]
  /\ cond_waiters \in [Condition -> Seq(Thread)]
  /\ pc \in [Thread -> Label]
  /\ on \in [Thread -> Sema \cup {NULL}]
  /\ cv \in [Thread -> Condition \cup {NULL}]
  /\ new \in [Thread -> Thread \cup {NULL}]
  /\ tmp \in [Thread -> Nat]
  /\ next_tid \in Nat
  /\ tid \in [Thread -> Nat]

\* The state when main() calls thread_start(): interrupts are still off, the
\* initial thread has identifier 1, every lock is free.
Init ==
  /\ SchedInit
  /\ value = [s \in Sema |-> IF s \in Lock THEN 1 ELSE 0]
  /\ waiters = [s \in Sema |-> <<>>]
  /\ holder = [l \in Lock |-> NULL]
  /\ cond_waiters = [c \in Condition |-> <<>>]
  /\ pc = [t \in Thread |-> IF t = initial_thread THEN "boot" ELSE "none"]
  /\ on = [t \in Thread |-> NULL]
  /\ cv = [t \in Thread |-> NULL]
  /\ new = [t \in Thread |-> NULL]
  /\ tmp = [t \in Thread |-> 0]
  /\ next_tid = 2
  /\ tid = [t \in Thread |-> IF t = initial_thread THEN 1 ELSE 0]

-----------------------------------------------------------------------------
(* Moving through the code.                                                *)

At(t, label) == running = t /\ pc[t] = label
Goto(t, label) == pc' = [pc EXCEPT ![t] = label]

\* Interrupts are off for a thread still booting or woken inside sema_down().
IntrOn == pc[running] \notin {"boot", "woken"}

\* The idle thread goes round its loop when an interrupt ends its hlt.
AfterInterrupt ==
  pc' = IF pc[running] = "hlt" THEN [pc EXCEPT ![running] = "idle_block"] ELSE pc

-----------------------------------------------------------------------------
(* Semaphores.                                                             *)

\* Mutant: a waiter is woken only if the value was 0.
Wakes_if_zero(s) == waiters[s] # <<>> /\ value[s] = 0

\* Mutant: sema_up() wakes nobody.
Wakes_never(s) == FALSE

\* sema_up() has a thread to wake.
Wakes(s) == waiters[s] # <<>>

\* sema_up(): wakes the longest waiting thread, if any, and does not yield.
sema_up(s) ==
  /\ value' = [value EXCEPT ![s] = @ + 1]
  /\ IF Wakes(s)
     THEN /\ waiters' = [waiters EXCEPT ![s] = Tail(@)]
          /\ thread_unblock(Head(waiters[s]))
     ELSE UNCHANGED <<waiters, status, ready_list>>

\* sema_down() finds the value 0: the caller queues and sleeps.  It tests the
\* value again when it wakes.
sema_down_sleep(t) ==
  /\ running = t /\ pc[t] \in {"sema_down", "woken"}
  /\ value[on[t]] = 0
  /\ waiters' = [waiters EXCEPT ![on[t]] = Append(@, t)]
  /\ thread_block
  /\ Goto(t, "woken")
  /\ UNCHANGED <<all_list, idle_thread, value, holder, cond_waiters, call_vars, tid_vars>>

\* Mutant: a woken thread does not test the value again.
Takes_if_woken(t) == value[on[t]] > 0 \/ pc[t] = "woken"

\* The loop of sema_down() ends.
Takes(t) == value[on[t]] > 0

\* sema_down() finds a positive value and returns: to its caller, into
\* lock_acquire(), or into cond_wait(), which goes on to lock_acquire().
sema_down_take(t) ==
  /\ running = t /\ pc[t] \in {"sema_down", "woken"}
  /\ Takes(t)
  /\ value' = [value EXCEPT ![on[t]] = @ - 1]
  /\ IF on[t] \in Semaphore
     THEN Goto(t, "call") /\ on' = [on EXCEPT ![t] = NULL] /\ UNCHANGED cv
     ELSE IF on[t] \in Lock
     THEN Goto(t, "set_holder") /\ UNCHANGED <<on, cv>>
     ELSE /\ Goto(t, "sema_down")
          /\ on' = [on EXCEPT ![t] = LockOf[cv[t]]]
          /\ cv' = [cv EXCEPT ![t] = NULL]
  /\ UNCHANGED <<sched_vars, waiters, holder, cond_waiters, new, tmp, tid_vars>>

\* A thread calls sema_down() on a shared semaphore.
call_sema_down(t, s) ==
  /\ At(t, "call")
  /\ Goto(t, "sema_down")
  /\ on' = [on EXCEPT ![t] = s]
  /\ UNCHANGED <<sched_vars, synch_vars, cv, new, tmp, tid_vars>>

\* sema_try_down() when it succeeds; when it fails it changes nothing.
sema_try_down(t, s) ==
  /\ At(t, "call")
  /\ value[s] > 0
  /\ value' = [value EXCEPT ![s] = @ - 1]
  /\ UNCHANGED <<sched_vars, waiters, holder, cond_waiters, pc, call_vars, tid_vars>>

\* A thread calls sema_up() on a shared semaphore.
call_sema_up(t, s) ==
  /\ At(t, "call")
  /\ value[s] < MaxValue
  /\ sema_up(s)
  /\ UNCHANGED <<all_list, running, idle_thread, thread_ticks, holder,
                 cond_waiters, pc, call_vars, tid_vars>>

\* An interrupt handler calls sema_up(), as the disk's does on completion.
interrupt_up(s) ==
  /\ IntrOn
  /\ value[s] < MaxValue
  /\ sema_up(s)
  /\ AfterInterrupt
  /\ UNCHANGED <<all_list, running, idle_thread, thread_ticks, holder,
                 cond_waiters, call_vars, tid_vars>>

-----------------------------------------------------------------------------
(* Locks.  A lock is a semaphore of value 1 and a holder, which is set     *)
(* after the semaphore is taken and cleared before it is given back.       *)

\* lock_acquire() asserts that the caller does not hold the lock.
lock_acquire(t, l) ==
  /\ At(t, "call")
  /\ holder[l] # t
  /\ Goto(t, "sema_down")
  /\ on' = [on EXCEPT ![t] = l]
  /\ UNCHANGED <<sched_vars, synch_vars, cv, new, tmp, tid_vars>>

\* lock_try_acquire() when sema_try_down() succeeds.
lock_try_acquire(t, l) ==
  /\ At(t, "call")
  /\ holder[l] # t
  /\ value[l] > 0
  /\ value' = [value EXCEPT ![l] = @ - 1]
  /\ Goto(t, "set_holder")
  /\ on' = [on EXCEPT ![t] = l]
  /\ UNCHANGED <<sched_vars, waiters, holder, cond_waiters, cv, new, tmp, tid_vars>>

\* The rest of lock_acquire() and lock_try_acquire().
set_holder(t) ==
  /\ At(t, "set_holder")
  /\ holder' = [holder EXCEPT ![on[t]] = t]
  /\ IF on[t] = tid_lock
     THEN Goto(t, "tid_read") /\ UNCHANGED on
     ELSE Goto(t, "call") /\ on' = [on EXCEPT ![t] = NULL]
  /\ UNCHANGED <<sched_vars, value, waiters, cond_waiters, cv, new, tmp, tid_vars>>

\* lock_release() asserts that the caller holds the lock, clears the holder...
lock_release(t, l) ==
  /\ At(t, "call")
  /\ holder[l] = t
  /\ holder' = [holder EXCEPT ![l] = NULL]
  /\ Goto(t, "sema_up")
  /\ on' = [on EXCEPT ![t] = l]
  /\ UNCHANGED <<sched_vars, value, waiters, cond_waiters, cv, new, tmp, tid_vars>>

\* The same inside cond_wait() and allocate_tid().
clear_holder(t) ==
  /\ running = t /\ pc[t] \in {"wait_release", "tid_release"}
  /\ holder' = [holder EXCEPT ![on[t]] = NULL]
  /\ Goto(t, IF pc[t] = "wait_release" THEN "wait_up" ELSE "tid_up")
  /\ UNCHANGED <<sched_vars, value, waiters, cond_waiters, call_vars, tid_vars>>

\* Where the code goes on after each call of sema_up().
AfterUp == [sema_up |-> "call", tid_up |-> "thread_unblock", wait_up |-> "sema_down",
            signal_up |-> "call", broadcast_up |-> "broadcast"]

\* ... and then ups the semaphore.  cond_wait() goes on to down its own
\* semaphore; cond_signal() and cond_broadcast() up that of a waiter here.
release_up(t) ==
  /\ running = t /\ pc[t] \in DOMAIN AfterUp
  /\ sema_up(on[t])
  /\ Goto(t, AfterUp[pc[t]])
  /\ on' = [on EXCEPT ![t] = IF pc[t] = "wait_up" THEN t ELSE NULL]
  /\ UNCHANGED <<all_list, running, idle_thread, thread_ticks, holder,
                 cond_waiters, cv, new, tmp, tid_vars>>

-----------------------------------------------------------------------------
(* Condition variables.                                                    *)

\* cond_wait() asserts that the caller holds the lock, initialises its own
\* semaphore and queues it on the condition variable.  It goes on to release
\* the lock (clear_holder, release_up) and to down its own semaphore.
cond_wait(t, c) ==
  /\ At(t, "call")
  /\ holder[LockOf[c]] = t
  /\ value' = [value EXCEPT ![t] = 0]
  /\ waiters' = [waiters EXCEPT ![t] = <<>>]
  /\ cond_waiters' = [cond_waiters EXCEPT ![c] = Append(@, t)]
  /\ Goto(t, "wait_release")
  /\ on' = [on EXCEPT ![t] = LockOf[c]]
  /\ cv' = [cv EXCEPT ![t] = c]
  /\ UNCHANGED <<sched_vars, holder, new, tmp, tid_vars>>

\* Mutant: taking one waiter off drops them all.
pop_waiter_all(t, c) ==
  /\ cond_waiters[c] # <<>>
  /\ cond_waiters' = [cond_waiters EXCEPT ![c] = <<>>]
  /\ on' = [on EXCEPT ![t] = Head(cond_waiters[c])]

\* Takes the longest waiting thread off condition variable c.
pop_waiter(t, c) ==
  /\ cond_waiters[c] # <<>>
  /\ cond_waiters' = [cond_waiters EXCEPT ![c] = Tail(@)]
  /\ on' = [on EXCEPT ![t] = Head(cond_waiters[c])]

\* cond_signal() asserts that the caller holds the lock.  It changes nothing
\* if no thread waits; otherwise it ups the semaphore of the first waiter.
cond_signal(t, c) ==
  /\ At(t, "call")
  /\ holder[LockOf[c]] = t
  /\ pop_waiter(t, c)
  /\ Goto(t, "signal_up")
  /\ UNCHANGED <<sched_vars, value, waiters, holder, cv, new, tmp, tid_vars>>

\* cond_broadcast() signals until no thread waits.
cond_broadcast(t, c) ==
  /\ At(t, "call")
  /\ holder[LockOf[c]] = t
  /\ cond_waiters[c] # <<>>
  /\ Goto(t, "broadcast")
  /\ cv' = [cv EXCEPT ![t] = c]
  /\ UNCHANGED <<sched_vars, synch_vars, on, new, tmp, tid_vars>>

cond_broadcast_next(t) ==
  /\ At(t, "broadcast")
  /\ \/ /\ pop_waiter(t, cv[t])
        /\ Goto(t, "broadcast_up")
        /\ UNCHANGED cv
     \/ /\ cond_waiters[cv[t]] = <<>>
        /\ Goto(t, "call")
        /\ cv' = [cv EXCEPT ![t] = NULL]
        /\ UNCHANGED <<cond_waiters, on>>
  /\ UNCHANGED <<sched_vars, value, waiters, holder, new, tmp, tid_vars>>

-----------------------------------------------------------------------------
(* The life of a thread.                                                   *)

\* thread_start(): makes the idle thread, enables interrupts and waits for
\* the idle thread to have run.  Nothing can interleave before the wait.
thread_start ==
  /\ At(initial_thread, "boot")
  /\ all_list' = all_list \cup {idle}
  /\ thread_unblock(idle)
  /\ tid' = [tid EXCEPT ![idle] = next_tid]
  /\ next_tid' = next_tid + 1
  /\ pc' = [pc EXCEPT ![initial_thread] = "sema_down", ![idle] = "idle_start"]
  /\ on' = [on EXCEPT ![initial_thread] = idle_started]
  /\ UNCHANGED <<running, idle_thread, thread_ticks, synch_vars, cv, new, tmp>>

\* idle() makes itself known...
idle_start ==
  /\ At(idle, "idle_start")
  /\ idle_thread' = idle
  /\ Goto(idle, "idle_up")
  /\ UNCHANGED <<status, ready_list, all_list, running, thread_ticks,
                 synch_vars, call_vars, tid_vars>>

\* ... tells the initial thread...
idle_up ==
  /\ At(idle, "idle_up")
  /\ sema_up(idle_started)
  /\ Goto(idle, "idle_block")
  /\ UNCHANGED <<all_list, running, idle_thread, thread_ticks, holder,
                 cond_waiters, call_vars, tid_vars>>

\* ... and loops: it blocks, and when nothing else is ready it is run again
\* and halts until the next interrupt.
idle_block ==
  /\ At(idle, "idle_block")
  /\ thread_block
  /\ Goto(idle, "hlt")
  /\ UNCHANGED <<all_list, idle_thread, synch_vars, call_vars, tid_vars>>

\* thread_create() gets a free page for u and makes it a blocked thread; when
\* there is none it returns TID_ERROR and changes nothing.  Then it calls
\* allocate_tid(), which takes tid_lock.
thread_create(t, u) ==
  /\ At(t, "call")
  /\ next_tid < MaxTid
  /\ status[u] = "free"
  /\ init_thread(u)
  /\ Goto(t, "sema_down")
  /\ on' = [on EXCEPT ![t] = tid_lock]
  /\ new' = [new EXCEPT ![t] = u]
  /\ UNCHANGED <<ready_list, running, idle_thread, thread_ticks, synch_vars,
                 cv, tmp, tid_vars>>

\* allocate_tid(): tid = next_tid++ under tid_lock, a read and a write.
allocate_tid_read(t) ==
  /\ At(t, "tid_read")
  /\ tmp' = [tmp EXCEPT ![t] = next_tid]
  /\ Goto(t, "tid_write")
  /\ UNCHANGED <<sched_vars, synch_vars, on, cv, new, tid_vars>>

\* Mutant: next_tid is not incremented.
allocate_tid_write_same(t) ==
  /\ At(t, "tid_write")
  /\ next_tid' = tmp[t]
  /\ tid' = [tid EXCEPT ![new[t]] = tmp[t]]
  /\ tmp' = [tmp EXCEPT ![t] = 0]
  /\ Goto(t, "tid_release")
  /\ UNCHANGED <<sched_vars, synch_vars, on, cv, new>>

allocate_tid_write(t) ==
  /\ At(t, "tid_write")
  /\ next_tid' = tmp[t] + 1
  /\ tid' = [tid EXCEPT ![new[t]] = tmp[t]]
  /\ tmp' = [tmp EXCEPT ![t] = 0]
  /\ Goto(t, "tid_release")
  /\ UNCHANGED <<sched_vars, synch_vars, on, cv, new>>

\* The end of thread_create(): the new thread is put on the run queue.
thread_create_unblock(t) ==
  /\ At(t, "thread_unblock")
  /\ thread_unblock(new[t])
  /\ pc' = [pc EXCEPT ![t] = "call", ![new[t]] = "call"]
  /\ new' = [new EXCEPT ![t] = NULL]
  /\ UNCHANGED <<all_list, running, idle_thread, thread_ticks, synch_vars,
                 on, cv, tmp, tid_vars>>

\* A thread that holds no lock returns from its function or calls thread_exit().
thread_exit(t) ==
  /\ At(t, "call")
  /\ \A l \in Lock : holder[l] # t
  /\ exit_thread
  /\ Goto(t, "none")
  /\ tid' = [tid EXCEPT ![t] = 0]
  /\ UNCHANGED <<idle_thread, synch_vars, call_vars, next_tid>>

\* A thread gives up the CPU of its own accord.
call_thread_yield(t) ==
  /\ At(t, "call")
  /\ thread_yield
  /\ UNCHANGED <<all_list, idle_thread, synch_vars, pc, call_vars, tid_vars>>

\* The timer interrupt.
timer_interrupt ==
  /\ IntrOn
  /\ thread_tick
  /\ AfterInterrupt
  /\ UNCHANGED <<all_list, idle_thread, synch_vars, call_vars, tid_vars>>

-----------------------------------------------------------------------------

\* What a thread in its own code may call.
Call(t) ==
  \/ \E s \in Semaphore \ {idle_started} :
       call_sema_down(t, s) \/ sema_try_down(t, s) \/ call_sema_up(t, s)
  \/ \E l \in Lock \ {tid_lock} :
       lock_acquire(t, l) \/ lock_try_acquire(t, l) \/ lock_release(t, l)
  \/ \E c \in Condition :
       cond_wait(t, c) \/ cond_signal(t, c) \/ cond_broadcast(t, c)
  \/ \E u \in Thread \ {idle} : thread_create(t, u)
  \/ thread_exit(t) \/ call_thread_yield(t)

\* The steps inside a call that thread t has begun.
Continue(t) ==
  \/ sema_down_sleep(t) \/ sema_down_take(t)
  \/ set_holder(t) \/ clear_holder(t) \/ release_up(t)
  \/ cond_broadcast_next(t)
  \/ allocate_tid_read(t) \/ allocate_tid_write(t) \/ thread_create_unblock(t)

Boot == thread_start \/ idle_start \/ idle_up

Interrupt == timer_interrupt \/ \E s \in DeviceSema : interrupt_up(s)

Next ==
  \/ \E t \in Thread : Call(t) \/ Continue(t)
  \/ Boot
  \/ idle_block
  \/ Interrupt

Spec == Init /\ [][Next]_vars

\* The CPU keeps executing the code of the running thread once it is inside a
\* call, the idle loop keeps turning, and the timer keeps ticking.  A thread is
\* not obliged to call anything.
Fairness ==
  /\ \A t \in Thread : WF_vars(Continue(t))
  /\ WF_vars(Boot)
  /\ WF_vars(idle_block)
  /\ WF_vars(timer_interrupt)

LiveSpec == Spec /\ Fairness

-----------------------------------------------------------------------------
(* Properties.                                                             *)

(***************************************************************************)
(* struct thread's elem "can be either an element in the run queue, or an  *)
(* element in a semaphore wait list ... because they are mutually          *)
(* exclusive" (threads/thread.h:92): a ready thread is queued for the CPU  *)
(* once, a thread asleep on a semaphore is queued there once, and no       *)
(* thread is on two of these lists.                                        *)
(***************************************************************************)
ElemInOneList ==
  /\ IsInjective(ready_list)
  /\ \A s \in Sema : IsInjective(waiters[s])
  /\ \A t \in Thread, s \in Sema :
       t \in Range(waiters[s]) =>
         /\ t \notin Range(ready_list)
         /\ \A r \in Sema : t \in Range(waiters[r]) => r = s

(***************************************************************************)
(* The CPU is never lost: the running thread, and only it, has status      *)
(* RUNNING (asserted in thread_current() and schedule()), and every ready  *)
(* thread is on the run queue, except for the idle thread, which after it  *)
(* has first run "never appears in the ready list" (threads/thread.c:389). *)
(***************************************************************************)
ReadyQueueExact ==
  /\ \A t \in Thread : status[t] = "running" <=> t = running
  /\ \A t \in Thread :
       t \in Range(ready_list) <=> status[t] = "ready" /\ t # idle_thread

\* A thread at one of these points has the semaphore of a lock but is not, or no
\* longer, its holder.
Between == {"set_holder", "sema_up", "wait_up", "tid_up"}

\* Thread t has taken the semaphore of lock l and not yet given it back.
Owns(t, l) == holder[l] = t \/ (on[t] = l /\ pc[t] \in Between)

(***************************************************************************)
(* Mutual exclusion: no two threads are between the sema_down() of         *)
(* lock_acquire() and the sema_up() of lock_release() on the same lock,    *)
(* and the lock's semaphore is 0 exactly while one is.                     *)
(***************************************************************************)
LockExclusive ==
  \A l \in Lock :
    /\ value[l] = IF \E t \in Thread : Owns(t, l) THEN 0 ELSE 1
    /\ \A t, u \in Thread : Owns(t, l) /\ Owns(u, l) => t = u

\* Threads that sema_up(s) has woken and that have not yet run again.
Woken(s) ==
  {t \in Thread : pc[t] = "woken" /\ on[t] = s /\ t \notin Range(waiters[s])}

(***************************************************************************)
(* No wake-up is lost: while threads sleep on a semaphore, every unit of   *)
(* its value is matched by a thread already woken to take it, although     *)
(* other threads may take units at any time without queueing.              *)
(***************************************************************************)
NoLostWakeup ==
  \A s \in Sema : waiters[s] # <<>> => Cardinality(Woken(s)) >= value[s]

(***************************************************************************)
(* No signal is lost: a thread between queueing itself in cond_wait() and  *)
(* waking up is on the condition variable's list, or a signaller has just  *)
(* taken it off and is about to up its semaphore, or that has been done    *)
(* and is remembered by the semaphore; and the threads on the list are     *)
(* all still inside cond_wait(), so no stack semaphore is used after its   *)
(* function returned.                                                      *)
(***************************************************************************)
Waiting(t, c) ==
  /\ cv[t] = c
  /\ pc[t] \in {"wait_release", "wait_up"} \/ on[t] = t

Signalling(u, t) == on[u] = t /\ pc[u] \in {"signal_up", "broadcast_up"}

NoLostSignal ==
  /\ \A c \in Condition, t \in Thread :
       Waiting(t, c) =>
         \/ t \in Range(cond_waiters[c]) /\ value[t] = 0
         \/ (\E u \in Thread : Signalling(u, t)) /\ value[t] = 0
         \/ value[t] = 1
  /\ \A c \in Condition, t \in Thread : t \in Range(cond_waiters[c]) => Waiting(t, c)
  /\ \A t, u \in Thread : Signalling(u, t) => \E c \in Condition : Waiting(t, c)

\* Thread identifiers are unique: tid_lock makes next_tid++ indivisible.
UniqueTids ==
  \A t, u \in Thread : tid[t] = tid[u] /\ tid[t] # 0 => t = u

\* Round robin: a ready thread is eventually given the CPU, whatever the others
\* do, because the timer preempts them and the run queue is first in first out.
ReadyRuns ==
  \A t \in Thread \ {idle} : status[t] = "ready" ~> status[t] = "running"

\* A lock that is free while threads sleep on it does not stay free: one of the
\* threads lock_release() woke, or a thread that overtook it, gets the lock.
LockHandedOn ==
  \A l \in Lock :
    value[l] = 1 /\ waiters[l] # <<>> ~> value[l] = 0

=============================================================================
