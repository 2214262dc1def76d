---------------------------- MODULE SynchProofs -----------------------------
(***************************************************************************)
(* The first steps of a thread keep the inductive invariant of Synch, so   *)
(* that it holds of every reachable state; the safety properties that      *)
(* follow; and that the locks implement Mutex: every step either leaves    *)
(* alone who owns which lock, or one thread takes one lock that nobody     *)
(* owns, or one thread gives one lock back.                                *)
(***************************************************************************)
EXTENDS SynchSwitch

-----------------------------------------------------------------------------
(* The first steps of a thread.                                            *)

\* thread_start() makes the idle thread.
LEMMA thread_start_keeps ==
  ASSUME Inductive, thread_start
  PROVE  Inductive'
<1> USE ThreadAssumption, SynchAssumption
<1> DEFINE i == initial_thread
<1>1. /\ running = i /\ pc[i] = "boot"
      /\ thread_unblock(idle)
      /\ all_list' = all_list \cup {idle}
      /\ tid' = [tid EXCEPT ![idle] = next_tid]
      /\ next_tid' = next_tid + 1
      /\ pc' = [pc EXCEPT ![i] = "sema_down", ![idle] = "idle_start"]
      /\ on' = [on EXCEPT ![i] = idle_started]
      /\ UNCHANGED <<running, idle_thread, thread_ticks, value, waiters, holder,
                     cond_waiters, cv, new, tmp>>
  BY DEF thread_start, At, synch_vars
<1>2. TypeOK /\ QueueInv /\ IdleInv /\ ArgInv /\ NewInv /\ HolderInv /\ LockExclusive /\ TidInv
  BY DEF Inductive
<1>3. /\ idle_thread = NULL
      /\ \A u \in Thread \ {i} : pc[u] = "none" /\ tid[u] = 0 /\ status[u] = "free"
  BY <1>1, <1>2 DEF IdleInv
<1>4. /\ pc \in [Thread -> Label] /\ on \in [Thread -> Sema \cup {NULL}]
      /\ tid \in [Thread -> Nat] /\ next_tid \in Nat /\ waiters \in [Sema -> Seq(Thread)]
      /\ new \in [Thread -> Thread \cup {NULL}] /\ status \in [Thread -> Status]
  BY SMTT(30), <1>2 DEF TypeOK, SchedTypeOK
<1>5. status[i] = "running"
  BY <1>1, <1>2 DEF QueueInv, ReadyQueueExact
<1>6. /\ status' = [status EXCEPT ![idle] = "ready"]
      /\ status' \in [Thread -> Status] /\ ready_list' \in Seq(Thread)
      /\ IsInjective(ready_list') /\ ReadyQueueExact'
  BY SMTT(30), <1>1, <1>2, <1>3, UnblockEffect
<1>7. /\ pc' \in [Thread -> Label] /\ on' \in [Thread -> Sema \cup {NULL}]
      /\ tid' \in [Thread -> Nat] /\ next_tid' \in Nat
  <2>1. pc' \in [Thread -> Label]
    BY SMTT(30), <1>1, <1>4 DEF Label
  <2>2. on' \in [Thread -> Sema \cup {NULL}]
    BY <1>1, <1>4 DEF Sema
  <2>3. tid' \in [Thread -> Nat] /\ next_tid' \in Nat
    BY <1>1, <1>4
  <2> QED BY SMTT(30), <2>1, <2>2, <2>3
<1>8. TypeOK'
  BY ZenonT(60), <1>1, <1>2, <1>6, <1>7 DEF TypeOK, SchedTypeOK
<1>9. /\ \A w \in Thread : status'[w] = IF w = idle THEN "ready" ELSE status[w]
      /\ \A w \in Thread : pc'[w] = IF w = i THEN "sema_down"
                                    ELSE IF w = idle THEN "idle_start" ELSE pc[w]
      /\ \A w \in Thread : on'[w] = IF w = i THEN idle_started ELSE on[w]
      /\ \A w \in Thread : tid'[w] = IF w = idle THEN next_tid ELSE tid[w]
  BY <1>1, <1>4, <1>6
<1> HIDE DEF i
<1>i. i \in Thread /\ i # idle /\ i = initial_thread
  BY DEF i
<1>10. \A w \in Thread : status[w] # "blocked"
  BY <1>3, <1>5
<1>11. QueueInv'
  <2>1. ASSUME NEW s \in Sema, NEW w \in Range(waiters[s]) PROVE FALSE
    <3>1. w \in Thread
      BY <1>4, MemberOf
    <3>2. status[w] = "blocked"
      BY <1>2 DEF QueueInv
    <3> QED BY <3>1, <3>2, <1>10
  <2> QED BY ZenonT(60), <1>1, <1>2, <1>6, <2>1 DEF QueueInv
<1>12. IdleInv'
  <2>1. \A w \in Thread : pc'[w] # "boot"
    BY <1>3, <1>9
  <2>2. \A w \in Thread : pc'[w] \in IdleLabel => w = idle
    BY <1>3, <1>9 DEF IdleLabel
  <2>3. pc'[idle] = "idle_start" /\ status'[idle] = "ready"
    BY <1>9, <1>i
  <2> QED BY <2>1, <2>2, <2>3 DEF IdleInv, IdleLabel
<1>13. ArgInv'
  <2>1. ASSUME NEW w \in Thread PROVE ArgOK(w, pc'[w], on'[w], cv'[w])
    <3>1. CASE w = i
      <4>1. pc'[w] = "sema_down" /\ on'[w] = idle_started /\ on'[w] # w
        BY SMTT(30), <3>1, <1>9
      <4> QED BY <4>1 DEF ArgOK
    <3>2. CASE w # i
      <4>1. pc'[w] \in {"idle_start", "none"}
        BY <3>2, <1>3, <1>9
      <4> QED BY SMTT(30), <4>1 DEF ArgOK
    <3> QED BY <3>1, <3>2
  <2> QED BY <2>1 DEF ArgInv
<1>14. NewInv'
  <2>1. \A w \in Thread : status'[w] = "free" => pc'[w] = "none"
    BY SMTT(30), <1>3, <1>5, <1>9
  <2>2. \A w \in Thread : new[w] = NULL
    <3> SUFFICES ASSUME NEW w \in Thread, new[w] # NULL PROVE FALSE
      BY ZenonT(60)
    <3>1. new[w] \in Thread /\ status[new[w]] = "blocked"
      BY <1>2, <1>4 DEF NewInv
    <3> QED BY <3>1, <1>10
  <2>3. \A w \in Thread : ~(on'[w] = tid_lock \/ pc'[w] = "thread_unblock")
    <3>1. \A w \in Thread : on[w] # tid_lock
      BY ZenonT(60), <1>2, <2>2 DEF NewInv
    <3> QED BY <3>1, <1>3, <1>9
  <2> QED BY ZenonT(60), <1>1, <2>1, <2>2, <2>3 DEF NewInv
<1>15. HolderInv' /\ LockExclusive'
  <2>1. \A w \in Thread : /\ pc[w] \notin Between \cup Holding
                          /\ pc'[w] \notin Between \cup Holding
    <3>1. \A w \in Thread : pc[w] \in {"boot", "none"}
      BY <1>1, <1>3
    <3>2. \A w \in Thread : pc'[w] \in {"sema_down", "idle_start", "none"}
      BY <1>3, <1>9
    <3> QED BY <3>1, <3>2 DEF Between, Holding
  <2> QED BY ZenonT(60), <1>1, <1>2, <2>1, LockStill
<1>16. TidInv'
  <2>1. (\A w \in Thread : tid[w] < next_tid) /\ next_tid > 0
    BY <1>2 DEF TidInv
  <2>2. \A w \in Thread : tid'[w] < next_tid'
    BY SMTT(30), <1>1, <1>4, <1>9, <2>1
  <2>3. \A w \in Thread : pc'[w] # "tid_write"
    BY <1>3, <1>9
  <2>4. UniqueTids'
    <3>1. ASSUME NEW w \in Thread, w # i PROVE tid'[w] = 0 \/ w = idle
      BY SMTT(30), <3>1, <1>3, <1>9
    <3>2. tid'[i] # tid'[idle]
      <4>1. tid'[idle] = next_tid /\ tid'[i] = tid[i]
        BY <1>9, <1>i
      <4>2. tid[i] \in Nat /\ tid[i] < next_tid
        BY <1>4, <1>i, <2>1
      <4> QED BY <4>1, <4>2, <1>4
    <3> QED BY <3>1, <3>2 DEF UniqueTids
  <2>5. next_tid' > 0
    BY SMTT(30), <1>1, <1>4
  <2> QED BY <2>2, <2>3, <2>4, <2>5 DEF TidInv
<1> QED BY SMTT(30), <1>8, <1>11, <1>12, <1>13, <1>14, <1>15, <1>16 DEF Inductive

\* The idle thread makes itself known.
LEMMA idle_start_keeps ==
  ASSUME Inductive, idle_start
  PROVE  Inductive'
<1> USE ThreadAssumption, SynchAssumption
<1>1. /\ running = idle /\ pc[idle] = "idle_start"
      /\ idle_thread' = idle
      /\ pc' = [pc EXCEPT ![idle] = "idle_up"]
      /\ UNCHANGED <<status, ready_list, all_list, running, thread_ticks, value, waiters,
                     holder, cond_waiters, on, cv, new, tmp, tid_vars>>
  BY DEF idle_start, At, Goto, synch_vars, call_vars
<1>2. TypeOK /\ QueueInv /\ IdleInv /\ ArgInv /\ NewInv /\ HolderInv /\ LockExclusive /\ TidInv
  BY DEF Inductive
<1>3. pc \in [Thread -> Label] /\ pc' \in [Thread -> Label]
  BY SMTT(30), <1>1, <1>2 DEF TypeOK, Label
<1>4. TypeOK'
  BY <1>1, <1>2, <1>3 DEF TypeOK, SchedTypeOK, tid_vars
<1>5. \A w \in Thread : pc'[w] = IF w = idle THEN "idle_up" ELSE pc[w]
  BY <1>1, <1>3
<1>6. status[idle] = "running"
  BY <1>1, <1>2 DEF QueueInv, ReadyQueueExact
<1>7. QueueInv'
  <2>1. ReadyQueueExact'
    <3>1. idle_thread \in {NULL, idle}
      BY SMTT(30), <1>2 DEF TypeOK, SchedTypeOK
    <3>2. \A w \in Thread : status'[w] = "running" <=> w = running'
      BY SMTT(30), <1>1, <1>2 DEF QueueInv, ReadyQueueExact
    <3>3. \A w \in Thread : w \in Range(ready_list) <=> status[w] = "ready" /\ w # idle_thread
      BY <1>2 DEF QueueInv, ReadyQueueExact
    <3>4. \A w \in Thread : w \in Range(ready_list) <=> status[w] = "ready" /\ w # idle
      BY ZenonT(60), <1>6, <3>1, <3>3
    <3> QED BY <1>1, <3>2, <3>4 DEF ReadyQueueExact
  <2>2. ASSUME NEW s \in Sema, NEW w \in Range(waiters[s])
        PROVE  status'[w] = "blocked" /\ pc'[w] = "woken" /\ on'[w] = s
    <3>1. w \in Thread
      BY SMTT(30), <1>2, MemberOf DEF TypeOK
    <3>2. status[w] = "blocked" /\ pc[w] = "woken" /\ on[w] = s
      BY <1>2 DEF QueueInv
    <3> QED BY SMTT(30), <3>1, <3>2, <1>1, <1>5
  <2> QED BY SMTT(30), <1>1, <1>2, <2>1, <2>2 DEF QueueInv
<1>8. IdleInv'
  <2>1. \A w \in Thread : pc[w] # "boot"
    BY SMTT(30), <1>1, <1>2 DEF IdleInv
  <2>2. \A w \in Thread : pc'[w] \in IdleLabel => w = idle
    BY SMTT(30), <1>2, <1>5 DEF IdleInv
  <2> QED BY SMTT(30), <1>1, <1>5, <2>1, <2>2 DEF IdleInv, IdleLabel
<1>9. ArgInv'
  <2>1. ASSUME NEW w \in Thread PROVE ArgOK(w, pc'[w], on'[w], cv'[w])
    <3>1. CASE w = idle
      BY SMTT(30), <3>1, <1>5 DEF ArgOK
    <3>2. CASE w # idle
      BY SMTT(30), <3>2, <1>1, <1>2, <1>5 DEF ArgInv
    <3> QED BY SMTT(30), <3>1, <3>2
  <2> QED BY <2>1 DEF ArgInv
<1>10. NewInv'
  <2>1. new \in [Thread -> Thread \cup {NULL}]
    BY <1>2 DEF TypeOK
  <2>2. \A w \in Thread : pc'[w] = pc[w] \/ (pc[w] = "idle_start" /\ pc'[w] = "idle_up")
    BY <1>1, <1>5
  <2>3. status[idle] # "free"
    BY <1>6
  <2> QED BY SMTT(30), <1>1, <1>2, <2>1, <2>2 DEF NewInv
<1>11. HolderInv' /\ LockExclusive'
  <2>1. \A w \in Thread :
          \/ pc'[w] = pc[w] /\ on'[w] = on[w]
          \/ pc[w] \notin Between \cup Holding /\ pc'[w] \notin Between \cup Holding
    BY <1>1, <1>5 DEF Between, Holding
  <2> QED BY SMTT(30), <1>1, <1>2, <2>1, LockStill
<1>12. TidInv'
  <2>1. \A w \in Thread : pc'[w] = "tid_write" => pc[w] = "tid_write"
    BY <1>5
  <2>2. UNCHANGED <<tmp, next_tid, tid>>
    BY <1>1 DEF tid_vars
  <2> QED BY <1>2, <2>1, <2>2 DEF TidInv, UniqueTids
<1> QED BY <1>4, <1>7, <1>8, <1>9, <1>10, <1>11, <1>12 DEF Inductive

-----------------------------------------------------------------------------
(* The invariant and what follows from it.                                 *)

\* The state in which main() calls thread_start() satisfies the invariant.
LEMMA InitInductive == Init => Inductive
<1> SUFFICES ASSUME Init PROVE Inductive
  BY SMTT(30)
<1> USE ThreadAssumption, SynchAssumption, SliceAssumption
<1>1. TypeOK
  <2>1. SchedTypeOK
    BY EmptyMembers DEF Init, SchedInit, SchedTypeOK, Status
  <2>2. value \in [Sema -> Nat] /\ waiters \in [Sema -> Seq(Thread)]
    BY EmptyMembers DEF Init
  <2>3. holder \in [Lock -> Thread \cup {NULL}] /\ cond_waiters \in [Condition -> Seq(Thread)]
    BY EmptyMembers DEF Init
  <2>4. /\ pc \in [Thread -> Label] /\ on \in [Thread -> Sema \cup {NULL}]
        /\ cv \in [Thread -> Condition \cup {NULL}] /\ new \in [Thread -> Thread \cup {NULL}]
    BY DEF Init, Label
  <2>5. tmp \in [Thread -> Nat] /\ next_tid \in Nat /\ tid \in [Thread -> Nat]
    BY DEF Init
  <2> QED BY SMTT(30), <2>1, <2>2, <2>3, <2>4, <2>5 DEF TypeOK
<1>2. QueueInv
  <2>1. IsInjective(<<>>) /\ Range(<<>>) = {}
    BY EmptyMembers
  <2>2. ready_list = <<>> /\ \A s \in Sema : waiters[s] = <<>>
    BY DEF Init, SchedInit
  <2>3. ReadyQueueExact
    BY SMTT(30), <2>1 DEF Init, SchedInit, ReadyQueueExact
  <2> QED BY <2>1, <2>2, <2>3 DEF QueueInv
<1>3. IdleInv
  BY DEF Init, SchedInit, IdleInv, IdleLabel
<1>4. ArgInv
  BY ZenonT(60) DEF Init, ArgInv, ArgOK
<1>5. NewInv
  BY DEF Init, SchedInit, NewInv, Sema
<1>6. HolderInv
  BY ZenonT(60) DEF Init, HolderInv, Holding, Between
<1>7. LockExclusive
  <2>1. \A t \in Thread, l \in Lock : ~Owns(t, l)
    BY DEF Init, Owns, Between
  <2>2. \A l \in Lock : value[l] = 1
    BY DEF Init, Sema
  <2> QED BY <2>1, <2>2 DEF LockExclusive
<1>8. TidInv
  BY DEF Init, TidInv, UniqueTids
<1> QED BY SMTT(30), <1>1, <1>2, <1>3, <1>4, <1>5, <1>6, <1>7, <1>8 DEF Inductive

\* Every step keeps it, and so does a step of the rest of the world.
LEMMA NextInductive == Inductive /\ [Next]_vars => Inductive'
<1> SUFFICES ASSUME Inductive, [Next]_vars PROVE Inductive'
  OBVIOUS
<1>1. ASSUME NEW t \in Thread, Call(t) PROVE Inductive'
  BY SMTT(30), <1>1, call_sema_down_keeps, sema_try_down_keeps, call_sema_up_keeps,
     lock_acquire_keeps, lock_try_acquire_keeps, lock_release_keeps,
     cond_wait_keeps, cond_signal_keeps, cond_broadcast_keeps,
     thread_create_keeps, thread_exit_keeps, call_thread_yield_keeps DEF Call
<1>2. ASSUME NEW t \in Thread, Continue(t) PROVE Inductive'
  <2>1. CASE sema_down_take(t)
    BY <2>1, take_semaphore_keeps, take_lock_keeps, take_own_keeps
  <2>2. CASE cond_broadcast_next(t)
    BY <2>2, cond_broadcast_pop_keeps, cond_broadcast_end_keeps
  <2> QED BY SMTT(30), <1>2, <2>1, <2>2, sema_down_sleep_keeps, set_holder_keeps, clear_holder_keeps,
             release_up_keeps, allocate_tid_read_keeps, allocate_tid_write_keeps,
             thread_create_unblock_keeps DEF Continue
<1>3. ASSUME Boot PROVE Inductive'
  BY <1>3, thread_start_keeps, idle_start_keeps, idle_up_keeps DEF Boot
<1>4. ASSUME Interrupt PROVE Inductive'
  BY <1>4, timer_interrupt_keeps, interrupt_up_keeps DEF Interrupt
<1>5. ASSUME UNCHANGED vars PROVE Inductive'
  <2>1. /\ UNCHANGED <<status, ready_list, all_list, running, idle_thread, thread_ticks>>
        /\ UNCHANGED <<value, waiters, holder, cond_waiters, pc, on, cv, new, tmp>>
        /\ UNCHANGED <<next_tid, tid>>
    BY SMTT(30), <1>5 DEF vars, sched_vars, synch_vars, call_vars, tid_vars
  <2>2. TypeOK'
    BY SMTT(30), <2>1 DEF Inductive, TypeOK, SchedTypeOK
  <2>3. QueueInv' /\ IdleInv'
    BY SMTT(30), <2>1 DEF Inductive, QueueInv, ReadyQueueExact, IdleInv
  <2>4. ArgInv' /\ NewInv'
    BY SMTT(30), <2>1 DEF Inductive, ArgInv, NewInv
  <2>5. HolderInv' /\ LockExclusive'
    BY SMTT(30), <2>1 DEF Inductive, HolderInv, LockExclusive, Owns
  <2>6. TidInv'
    BY <2>1 DEF Inductive, TidInv, UniqueTids
  <2> QED BY SMTT(30), <2>2, <2>3, <2>4, <2>5, <2>6 DEF Inductive
<1> QED BY <1>1, <1>2, <1>3, <1>4, <1>5, idle_block_keeps DEF Next

(***************************************************************************)
(* Whatever the number of threads, semaphores, locks and condition         *)
(* variables, the invariant holds in every state that thread.c and synch.c *)
(* can reach from thread_start() on.                                       *)
(***************************************************************************)
THEOREM InductiveHolds == Spec => []Inductive
<1>1. Init => Inductive
  BY InitInductive
<1>2. Inductive /\ [Next]_vars => Inductive'
  BY NextInductive
<1> QED BY <1>1, <1>2, PTL DEF Spec

\* Type correctness.
THEOREM TypeCorrect == Spec => []TypeOK
<1>1. Inductive => TypeOK
  BY DEF Inductive
<1> QED BY <1>1, InductiveHolds, PTL

\* A thread's elem is on at most one of the run queue and the wait lists.
THEOREM ElemExclusive == Spec => []ElemInOneList
<1>1. Inductive => ElemInOneList
  <2> SUFFICES ASSUME Inductive PROVE ElemInOneList
    OBVIOUS
  <2>1. TypeOK /\ QueueInv
    BY DEF Inductive
  <2>2. ASSUME NEW t \in Thread, NEW s \in Sema, t \in Range(waiters[s])
        PROVE  /\ t \notin Range(ready_list)
               /\ \A r \in Sema : t \in Range(waiters[r]) => r = s
    BY SMTT(30), <2>1, <2>2 DEF QueueInv, ReadyQueueExact
  <2> QED BY <2>1, <2>2 DEF ElemInOneList, QueueInv
<1> QED BY <1>1, InductiveHolds, PTL

\* The run queue is exact and one thread has the CPU.
THEOREM RunQueueExact == Spec => []ReadyQueueExact
<1>1. Inductive => ReadyQueueExact
  BY DEF Inductive, QueueInv
<1> QED BY <1>1, InductiveHolds, PTL

\* Mutual exclusion between lock_acquire() and lock_release().
THEOREM MutualExclusion == Spec => []LockExclusive
<1>1. Inductive => LockExclusive
  BY SMTT(30) DEF Inductive
<1> QED BY <1>1, InductiveHolds, PTL

\* No two threads get the same identifier.
THEOREM TidsUnique == Spec => []UniqueTids
<1>1. Inductive => UniqueTids
  BY DEF Inductive, TidInv
<1> QED BY <1>1, InductiveHolds, PTL

-----------------------------------------------------------------------------
(* The locks implement Mutex.                                              *)

\* The three kinds of steps, said of the ownership of locks.
OwnersStay == \A u \in Thread, m \in Lock : Owns(u, m)' <=> Owns(u, m)
OthersStay(t, l) ==
  \A u \in Thread, m \in Lock : u # t \/ m # l => (Owns(u, m)' <=> Owns(u, m))
Takes1(t, l) == (\A u \in Thread : ~Owns(u, l)) /\ Owns(t, l)' /\ OthersStay(t, l)
Gives1(t, l) == Owns(t, l) /\ ~Owns(t, l)' /\ OthersStay(t, l)
OwnerStep ==
  OwnersStay \/ \E t \in Thread, l \in Lock : Takes1(t, l) \/ Gives1(t, l)

-----------------------------------------------------------------------------
(* Steps and ownership.                                                    *)

\* A step that changes no holder and no call inside an operation on a lock.
LEMMA QuietStep ==
  ASSUME UNCHANGED holder,
         \A u \in Thread :
           \/ pc'[u] = pc[u] /\ on'[u] = on[u]
           \/ pc[u] \notin Between /\ pc'[u] \notin Between
  PROVE  OwnersStay
BY DEF OwnersStay, Owns

\* The same for a step that only thread t makes.
LEMMA QuietThread ==
  ASSUME TypeOK, NEW t \in Thread, UNCHANGED holder,
         NEW p \in Label, pc' = [pc EXCEPT ![t] = p],
         \A u \in Thread \ {t} : on'[u] = on[u],
         pc[t] \notin Between, p \notin Between
  PROVE  OwnersStay
<1>1. \A u \in Thread : u # t => pc'[u] = pc[u] /\ on'[u] = on[u]
  BY SMTT(30) DEF TypeOK
<1>2. pc'[t] = p
  BY DEF TypeOK
<1> QED BY SMTT(30), <1>1, <1>2, QuietStep

\* Thread t has taken the semaphore of lock l, which was up.
LEMMA TakesOne ==
  ASSUME TypeOK, LockExclusive, NEW t \in Thread, NEW l \in Lock,
         value[l] > 0, UNCHANGED holder, pc[t] \notin Between,
         pc' = [pc EXCEPT ![t] = "set_holder"], on' = [on EXCEPT ![t] = l]
  PROVE  Takes1(t, l)
<1>1. \A u \in Thread : ~Owns(u, l)
  BY DEF LockExclusive
<1>2. pc'[t] = "set_holder" /\ on'[t] = l
  BY DEF TypeOK
<1>3. \A u \in Thread : u # t => pc'[u] = pc[u] /\ on'[u] = on[u]
  BY DEF TypeOK
<1>4. Owns(t, l)'
  BY <1>2 DEF Owns, Between
<1>5. OthersStay(t, l)
  BY SMTT(30), <1>2, <1>3 DEF OthersStay, Owns
<1> QED BY <1>1, <1>4, <1>5 DEF Takes1

\* A thread in its own code takes a step.
LEMMA CallOwners ==
  ASSUME Inductive, NEW t \in Thread, Call(t)
  PROVE  OwnerStep
<1> USE ThreadAssumption, SynchAssumption
<1>1. TypeOK /\ LockExclusive
  BY SMTT(30) DEF Inductive
<1>2. pc[t] = "call"
  BY DEF Call, call_sema_down, sema_try_down, call_sema_up, lock_acquire, lock_try_acquire,
         lock_release, cond_wait, cond_signal, cond_broadcast, thread_create, thread_exit,
         call_thread_yield, At
<1>3. "call" \notin Between
  BY SMTT(30) DEF Between
<1>4. ASSUME NEW s \in Semaphore, call_sema_down(t, s) PROVE OwnersStay
  <2>1. \A u \in Thread \ {t} : on'[u] = on[u]
    BY SMTT(30), <1>1, <1>4 DEF call_sema_down, TypeOK
  <2> QED BY ZenonT(60), <1>1, <1>2, <1>4, <2>1, QuietThread
          DEF call_sema_down, Goto, synch_vars, Between, Label
<1>5. ASSUME NEW s \in Semaphore, sema_try_down(t, s) \/ call_sema_up(t, s) PROVE OwnersStay
  BY SMTT(30), <1>5, QuietStep DEF sema_try_down, call_sema_up, call_vars
<1>6. ASSUME NEW l \in Lock, lock_acquire(t, l) PROVE OwnersStay
  <2>1. \A u \in Thread \ {t} : on'[u] = on[u]
    BY <1>1, <1>6 DEF lock_acquire, TypeOK
  <2> QED BY ZenonT(60), <1>1, <1>2, <1>6, <2>1, QuietThread
          DEF lock_acquire, Goto, synch_vars, Between, Label
<1>7. ASSUME NEW l \in Lock, lock_try_acquire(t, l) PROVE Takes1(t, l)
  BY ZenonT(60), <1>1, <1>2, <1>3, <1>7, TakesOne DEF lock_try_acquire, Goto
<1>8. ASSUME NEW l \in Lock, lock_release(t, l) PROVE OwnersStay
  <2>1. /\ holder[l] = t /\ holder' = [holder EXCEPT ![l] = NULL]
        /\ pc' = [pc EXCEPT ![t] = "sema_up"] /\ on' = [on EXCEPT ![t] = l]
    BY SMTT(30), <1>8 DEF lock_release, Goto
  <2>2. /\ pc'[t] = "sema_up" /\ on'[t] = l /\ holder'[l] = NULL
        /\ \A u \in Thread : u # t => pc'[u] = pc[u] /\ on'[u] = on[u]
        /\ \A m \in Lock : m # l => holder'[m] = holder[m]
    BY <1>1, <2>1 DEF TypeOK
  <2> QED BY SMTT(30), <1>2, <1>3, <2>1, <2>2 DEF OwnersStay, Owns, Between
<1>9. ASSUME NEW c \in Condition, cond_wait(t, c) PROVE OwnersStay
  <2>1. \A u \in Thread \ {t} : on'[u] = on[u]
    BY SMTT(30), <1>1, <1>9 DEF cond_wait, TypeOK
  <2> QED BY ZenonT(60), <1>1, <1>2, <1>9, <2>1, QuietThread DEF cond_wait, Goto, Between, Label
<1>10. ASSUME NEW c \in Condition, cond_signal(t, c) PROVE OwnersStay
  <2>1. \A u \in Thread \ {t} : on'[u] = on[u]
    BY SMTT(30), <1>1, <1>10 DEF cond_signal, pop_waiter, TypeOK
  <2> QED BY ZenonT(60), <1>1, <1>2, <1>10, <2>1, QuietThread DEF cond_signal, Goto, Between, Label
<1>11. ASSUME NEW c \in Condition, cond_broadcast(t, c) PROVE OwnersStay
  BY ZenonT(60), <1>1, <1>2, <1>11, QuietThread DEF cond_broadcast, Goto, synch_vars, Between, Label
<1>12. ASSUME NEW u \in Thread, thread_create(t, u) PROVE OwnersStay
  <2>1. \A v \in Thread \ {t} : on'[v] = on[v]
    BY SMTT(30), <1>1, <1>12 DEF thread_create, TypeOK
  <2> QED BY ZenonT(60), <1>1, <1>2, <1>12, <2>1, QuietThread
          DEF thread_create, Goto, synch_vars, Between, Label
<1>13. ASSUME thread_exit(t) PROVE OwnersStay
  BY ZenonT(60), <1>1, <1>2, <1>13, QuietThread DEF thread_exit, Goto, synch_vars, call_vars, Between, Label
<1>14. ASSUME call_thread_yield(t) PROVE OwnersStay
  BY SMTT(30), <1>14, QuietStep DEF call_thread_yield, synch_vars, call_vars
<1> QED BY SMTT(30), <1>4, <1>5, <1>6, <1>7, <1>8, <1>9, <1>10, <1>11, <1>12, <1>13, <1>14
        DEF Call, OwnerStep

\* A thread goes on inside a call.
LEMMA ContinueOwners ==
  ASSUME Inductive, NEW t \in Thread, Continue(t)
  PROVE  OwnerStep
<1> USE ThreadAssumption, SynchAssumption
<1>1. TypeOK /\ LockExclusive /\ HolderInv
  BY SMTT(30) DEF Inductive
<1>2. ArgOK(t, pc[t], on[t], cv[t])
  BY SMTT(30) DEF Inductive, ArgInv
<1>3. ASSUME sema_down_sleep(t) PROVE OwnersStay
  BY ZenonT(60), <1>1, <1>3, QuietThread DEF sema_down_sleep, Goto, call_vars, Between, Label
<1>4. ASSUME sema_down_take(t) PROVE OwnerStep
  <2>1. /\ pc[t] \in {"sema_down", "woken"} /\ value[on[t]] > 0 /\ UNCHANGED holder
    BY SMTT(30), <1>4 DEF sema_down_take, Takes
  <2>2. CASE on[t] \in Lock
    <3>1. on[t] \notin Semaphore
      BY SMTT(30), <2>2
    <3>2. pc' = [pc EXCEPT ![t] = "set_holder"] /\ on' = on
      BY SMTT(30), <1>4, <2>2, <3>1 DEF sema_down_take, Goto
    <3>3. on' = [on EXCEPT ![t] = on[t]]
      BY SMTT(30), <1>1, <3>2 DEF TypeOK
    <3>4. pc[t] \notin Between
      BY <2>1 DEF Between
    <3>5. Takes1(t, on[t])
      BY ZenonT(60), <1>1, <2>1, <2>2, <3>2, <3>3, <3>4, TakesOne
    <3> QED BY SMTT(30), <2>2, <3>5 DEF OwnerStep
  <2>3. CASE on[t] \notin Lock
    <3>1. /\ pc' = [pc EXCEPT ![t] = "call"] \/ pc' = [pc EXCEPT ![t] = "sema_down"]
          /\ \E o : on' = [on EXCEPT ![t] = o]
      BY SMTT(30), <1>4, <2>3 DEF sema_down_take, Goto
    <3>2. \A u \in Thread \ {t} : on'[u] = on[u]
      BY <1>1, <3>1 DEF TypeOK
    <3>3. pc[t] \notin Between
      BY <2>1 DEF Between
    <3>4. CASE pc' = [pc EXCEPT ![t] = "call"]
      <4>1. "call" \in Label /\ "call" \notin Between
        BY DEF Label, Between
      <4> QED BY ZenonT(60), <1>1, <2>1, <3>2, <3>3, <3>4, <4>1, QuietThread DEF OwnerStep
    <3>5. CASE pc' = [pc EXCEPT ![t] = "sema_down"]
      <4>1. "sema_down" \in Label /\ "sema_down" \notin Between
        BY SMTT(30) DEF Label, Between
      <4> QED BY ZenonT(60), <1>1, <2>1, <3>2, <3>3, <3>5, <4>1, QuietThread DEF OwnerStep
    <3> QED BY SMTT(30), <3>1, <3>4, <3>5
  <2> QED BY SMTT(30), <2>2, <2>3
<1>5. ASSUME set_holder(t) PROVE OwnersStay
  <2> DEFINE l == on[t]
  <2>1. pc[t] = "set_holder" /\ l \in Lock /\ holder[l] = NULL
    BY SMTT(30), <1>1, <1>2, <1>5 DEF set_holder, At, ArgOK, HolderInv, Between
  <2>2. /\ holder' = [holder EXCEPT ![l] = t]
        /\ \/ pc' = [pc EXCEPT ![t] = "tid_read"] /\ on' = on
           \/ pc' = [pc EXCEPT ![t] = "call"] /\ on' = [on EXCEPT ![t] = NULL]
    BY SMTT(30), <1>5 DEF set_holder, Goto
  <2>3. /\ holder'[l] = t
        /\ \A m \in Lock : m # l => holder'[m] = holder[m]
        /\ pc'[t] \notin Between
        /\ \A u \in Thread : u # t => pc'[u] = pc[u] /\ on'[u] = on[u]
    BY SMTT(30), <1>1, <2>1, <2>2 DEF TypeOK, Between
  <2>4. \A u \in Thread : Owns(u, l) => u = t
    <3>1. Owns(t, l)
      BY SMTT(30), <2>1 DEF Owns, Between
    <3> QED BY SMTT(30), <1>1, <2>1, <3>1 DEF LockExclusive
  <2> QED BY SMTT(30), <2>1, <2>3, <2>4 DEF OwnersStay, Owns, Between
<1>6. ASSUME clear_holder(t) PROVE OwnersStay
  <2> DEFINE l == on[t]
  <2>1. pc[t] \in {"wait_release", "tid_release"} /\ l \in Lock /\ holder[l] = t
    BY <1>1, <1>2, <1>6 DEF clear_holder, ArgOK, HolderInv, Holding
  <2>2. /\ holder' = [holder EXCEPT ![l] = NULL] /\ on' = on
        /\ \E p \in {"wait_up", "tid_up"} : pc' = [pc EXCEPT ![t] = p]
    BY ZenonT(60), <1>6 DEF clear_holder, Goto, call_vars
  <2>3. /\ holder'[l] = NULL
        /\ \A m \in Lock : m # l => holder'[m] = holder[m]
        /\ pc'[t] \in Between /\ pc[t] \notin Between
        /\ \A u \in Thread : u # t => pc'[u] = pc[u]
    BY SMTT(30), <1>1, <2>1, <2>2 DEF TypeOK, Between
  <2> QED BY SMTT(30), <2>1, <2>2, <2>3 DEF OwnersStay, Owns
<1>7. ASSUME release_up(t) PROVE OwnerStep
  <2>0. PICK l : l = on[t]
    OBVIOUS
  <2>1. /\ pc[t] \in {"sema_up", "tid_up", "wait_up", "signal_up", "broadcast_up"}
        /\ pc' = [pc EXCEPT ![t] = AfterUp[pc[t]]]
        /\ UNCHANGED holder
        /\ \E o : on' = [on EXCEPT ![t] = o]
    BY ZenonT(60), <1>7 DEF release_up, Goto, AfterUp
  <2>2. AfterUp[pc[t]] \in Label \ Between
    BY SMTT(30), <2>1 DEF AfterUp, Label, Between
  <2>3. /\ pc'[t] \notin Between
        /\ \A u \in Thread : u # t => pc'[u] = pc[u] /\ on'[u] = on[u]
    BY SMTT(30), <1>1, <2>1, <2>2 DEF TypeOK
  <2>4. CASE pc[t] \in Between
    <3>1. l \in Lock /\ holder[l] = NULL
      BY SMTT(30), <1>1, <1>2, <2>0, <2>4 DEF ArgOK, HolderInv, Between
    <3>2. Owns(t, l) /\ ~Owns(t, l)'
      BY SMTT(30), <2>0, <2>1, <2>3, <2>4, <3>1, ThreadAssumption DEF Owns
    <3>3. OthersStay(t, l)
      BY SMTT(30), <2>0, <2>1, <2>3 DEF OthersStay, Owns
    <3>4. Gives1(t, l)
      BY SMTT(30), <3>2, <3>3 DEF Gives1
    <3> QED BY SMTT(30), <3>1, <3>4 DEF OwnerStep
  <2>5. CASE pc[t] \notin Between
    BY SMTT(30), <2>1, <2>3, <2>5, QuietStep DEF OwnerStep
  <2> QED BY <2>4, <2>5
<1>8. ASSUME cond_broadcast_next(t) PROVE OwnersStay
  <2>1. /\ pc[t] = "broadcast" /\ UNCHANGED holder
        /\ on' = on \/ \E o : on' = [on EXCEPT ![t] = o]
        /\ \E p \in {"broadcast_up", "call"} : pc' = [pc EXCEPT ![t] = p]
    BY SMTT(30), <1>8 DEF cond_broadcast_next, pop_waiter, At, Goto
  <2>2. \A u \in Thread \ {t} : on'[u] = on[u]
    BY SMTT(30), <1>1, <2>1 DEF TypeOK
  <2> QED BY ZenonT(60), <1>1, <2>1, <2>2, QuietThread DEF Between, Label
<1>9. ASSUME allocate_tid_read(t) \/ allocate_tid_write(t) PROVE OwnersStay
  <2>1. /\ pc[t] \in {"tid_read", "tid_write"} /\ UNCHANGED <<holder, on>>
        /\ \E p \in {"tid_write", "tid_release"} : pc' = [pc EXCEPT ![t] = p]
    BY <1>9 DEF allocate_tid_read, allocate_tid_write, At, Goto, synch_vars
  <2> QED BY ZenonT(60), <1>1, <2>1, QuietThread DEF Between, Label
<1>10. ASSUME thread_create_unblock(t) PROVE OwnersStay
  <2>1. /\ pc[t] = "thread_unblock" /\ UNCHANGED <<holder, on>>
        /\ pc' = [pc EXCEPT ![t] = "call", ![new[t]] = "call"]
    BY SMTT(30), <1>10 DEF thread_create_unblock, At, synch_vars
  <2>2. new[t] \in Thread /\ pc[new[t]] = "none"
    BY SMTT(30), <1>1, <2>1 DEF Inductive, NewInv, TypeOK
  <2>3. \A u \in Thread : pc'[u] = pc[u] \/ (pc[u] \notin Between /\ pc'[u] \notin Between)
    BY SMTT(30), <1>1, <2>1, <2>2 DEF TypeOK, Between
  <2> QED BY ZenonT(60), <2>1, <2>3, QuietStep
<1> QED BY SMTT(30), <1>3, <1>4, <1>5, <1>6, <1>7, <1>8, <1>9, <1>10 DEF Continue, OwnerStep

\* The other steps.
LEMMA NextOwners ==
  ASSUME Inductive, [Next]_vars
  PROVE  OwnerStep
<1> USE ThreadAssumption, SynchAssumption
<1>1. TypeOK
  BY DEF Inductive
<1>2. ASSUME thread_start PROVE OwnersStay
  <2>1. /\ pc[initial_thread] = "boot" /\ UNCHANGED holder
        /\ pc' = [pc EXCEPT ![initial_thread] = "sema_down", ![idle] = "idle_start"]
        /\ on' = [on EXCEPT ![initial_thread] = idle_started]
    BY SMTT(30), <1>2 DEF thread_start, At, synch_vars
  <2>2. pc[idle] = "none"
    BY SMTT(30), <2>1 DEF Inductive, IdleInv
  <2>3. \A u \in Thread :
          \/ pc'[u] = pc[u] /\ on'[u] = on[u]
          \/ pc[u] \notin Between /\ pc'[u] \notin Between
    BY <1>1, <2>1, <2>2 DEF TypeOK, Between
  <2> QED BY ZenonT(60), <2>1, <2>3, QuietStep
<1>3. ASSUME idle_start \/ idle_up \/ idle_block PROVE OwnersStay
  <2>1. /\ pc[idle] \in {"idle_start", "idle_up", "idle_block"} /\ UNCHANGED <<holder, on>>
        /\ \E p \in {"idle_up", "idle_block", "hlt"} : pc' = [pc EXCEPT ![idle] = p]
    BY SMTT(30), <1>3 DEF idle_start, idle_up, idle_block, At, Goto, synch_vars, call_vars
  <2> QED BY ZenonT(60), <1>1, <2>1, QuietThread DEF Between, Label
<1>4. ASSUME Interrupt PROVE OwnersStay
  <2>1. AfterInterrupt /\ UNCHANGED <<holder, on>>
    BY SMTT(30), <1>4 DEF Interrupt, timer_interrupt, interrupt_up, synch_vars, call_vars
  <2>2. \A u \in Thread : pc'[u] = pc[u] \/ (pc[u] \notin Between /\ pc'[u] \notin Between)
    BY SMTT(30), <1>1, <2>1 DEF AfterInterrupt, TypeOK, Between
  <2> QED BY SMTT(30), <2>1, <2>2, QuietStep
<1>5. ASSUME UNCHANGED vars PROVE OwnersStay
  BY <1>5, QuietStep DEF vars, synch_vars, call_vars
<1> QED BY SMTT(30), <1>2, <1>3, <1>4, <1>5, CallOwners, ContinueOwners DEF Next, Boot, OwnerStep

-----------------------------------------------------------------------------
(* The refinement.                                                         *)

\* Owner(l) is the thread that owns l, and NULL if none does.
LEMMA OwnerIs ==
  ASSUME LockExclusive, NEW l \in Lock
  PROVE  /\ \A t \in Thread : Owns(t, l) => Owner(l) = t
         /\ (\A t \in Thread : ~Owns(t, l)) => Owner(l) = NULL
BY ZenonT(60) DEF Owner, LockExclusive

\* A step on ownership is a step of the abstract mutexes.
LEMMA OwnerStepMaps ==
  ASSUME LockExclusive, LockExclusive', OwnerStep
  PROVE  [M!Next]_([l \in Lock |-> Owner(l)])
<1> USE ThreadAssumption
<1> DEFINE owner == [l \in Lock |-> Owner(l)]
<1>1. \A m \in Lock :
        /\ \A t \in Thread : Owns(t, m) => Owner(m) = t
        /\ (\A t \in Thread : ~Owns(t, m)) => Owner(m) = NULL
  BY SMTT(30), OwnerIs
<1>2. \A m \in Lock :
        /\ \A t \in Thread : Owns(t, m)' => Owner(m)' = t
        /\ (\A t \in Thread : ~Owns(t, m)') => Owner(m)' = NULL
  BY DEF Owner, LockExclusive
<1>3. ASSUME NEW m \in Lock, \A u \in Thread : Owns(u, m)' <=> Owns(u, m)
      PROVE  Owner(m)' = Owner(m)
  BY <1>1, <1>2, <1>3
<1>4. CASE OwnersStay
  BY <1>3, <1>4 DEF OwnersStay
<1>5. ASSUME NEW t \in Thread, NEW l \in Lock, Takes1(t, l)
      PROVE  M!Acquire(t, l)
  <2>1. Owner(l) = NULL /\ Owner(l)' = t
    BY SMTT(30), <1>1, <1>2, <1>5 DEF Takes1
  <2>2. \A m \in Lock : m # l => Owner(m)' = Owner(m)
    BY <1>3, <1>5 DEF Takes1, OthersStay
  <2> QED BY ZenonT(60), <2>1, <2>2 DEF M!Acquire
<1>6. ASSUME NEW t \in Thread, NEW l \in Lock, Gives1(t, l)
      PROVE  M!Release(l)
  <2>1. Owner(l) = t /\ t # NULL
    BY <1>1, <1>6 DEF Gives1
  <2>2. \A u \in Thread : ~Owns(u, l)'
    <3>1. \A u \in Thread : u # t => ~Owns(u, l)
      BY <1>6 DEF Gives1, LockExclusive
    <3> QED BY SMTT(30), <1>6, <3>1 DEF Gives1, OthersStay
  <2>3. Owner(l)' = NULL
    BY <1>2, <2>2
  <2>4. \A m \in Lock : m # l => Owner(m)' = Owner(m)
    BY <1>3, <1>6 DEF Gives1, OthersStay
  <2> QED BY ZenonT(60), <2>1, <2>3, <2>4 DEF M!Release
<1> QED BY SMTT(30), <1>4, <1>5, <1>6 DEF OwnerStep, M!Next

\* No lock is owned when thread_start() is called.
LEMMA InitMaps == Init => M!Init
<1> USE ThreadAssumption
<1> SUFFICES ASSUME Init PROVE M!Init
  OBVIOUS
<1>1. \A t \in Thread, l \in Lock : ~Owns(t, l)
  BY DEF Init, Owns, Between
<1>2. \A l \in Lock : Owner(l) = NULL
  BY <1>1 DEF Owner
<1> QED BY <1>2 DEF M!Init

(***************************************************************************)
(* For any threads, locks, semaphores and condition variables, the locks   *)
(* of synch.c, with their use inside cond_wait() and allocate_tid(),       *)
(* implement abstract mutexes: Synch refines Mutex.                        *)
(***************************************************************************)
THEOREM LocksRefineMutex == Spec => LocksAreMutexes
<1>1. Inductive /\ Inductive' /\ [Next]_vars => [M!Next]_([l \in Lock |-> Owner(l)])
  BY NextOwners, OwnerStepMaps DEF Inductive
<1> QED BY <1>1, InitMaps, InductiveHolds, PTL DEF Spec, LocksAreMutexes, M!Spec

=============================================================================
