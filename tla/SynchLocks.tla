----------------------------- MODULE SynchLocks -----------------------------
(***************************************************************************)
(* What the operators of Sched and Synch do to the queues and the locks,   *)
(* which parts of the inductive invariant a step keeps because of what it  *)
(* leaves alone, and that the calls of semaphores and locks that leave the *)
(* scheduler alone keep it: one lemma per action.                          *)
(***************************************************************************)
EXTENDS SynchInv, QueueLemmas

-----------------------------------------------------------------------------
(* What the scheduler's operators do to the run queue.                     *)

\* thread_unblock() of a thread that is neither queued nor running keeps the
\* run queue exact and without repetitions.
LEMMA UnblockEffect ==
  ASSUME TypeOK, QueueInv, NEW t \in Thread,
         status[t] \notin {"ready", "running"}, t # idle_thread,
         thread_unblock(t), running' = running, idle_thread' = idle_thread
  PROVE  /\ status' = [status EXCEPT ![t] = "ready"]
         /\ status' \in [Thread -> Status]
         /\ ready_list' \in Seq(Thread)
         /\ IsInjective(ready_list')
         /\ ReadyQueueExact'
<1>1. /\ ready_list' = Append(ready_list, t)
      /\ status' = [status EXCEPT ![t] = "ready"]
  BY DEF thread_unblock
<1>2. ready_list \in Seq(Thread) /\ status \in [Thread -> Status]
  BY DEF TypeOK, SchedTypeOK
<1>3. t \notin Range(ready_list) /\ IsInjective(ready_list)
  BY DEF QueueInv, ReadyQueueExact
<1>4. /\ ready_list' \in Seq(Thread)
      /\ Range(ready_list') = Range(ready_list) \cup {t}
      /\ IsInjective(ready_list')
  BY <1>1, <1>2, <1>3, AppendMembers
<1>5. status' \in [Thread -> Status]
  BY <1>1, <1>2 DEF Status
<1>6. ReadyQueueExact'
  BY <1>1, <1>2, <1>4 DEF ReadyQueueExact, QueueInv
<1> QED BY <1>1, <1>4, <1>5, <1>6

\* schedule() hands the CPU to a thread of the run queue rl, or to the idle
\* thread when rl is empty, and keeps the run queue exact.
LEMMA ScheduleEffect ==
  ASSUME TypeOK, QueueInv,
         NEW st \in {"blocked", "ready", "dying"}, NEW rl \in Seq(Thread),
         IsInjective(rl),
         \A t \in Thread : t \in Range(rl) <=>
           /\ t # idle_thread
           /\ IF t = running THEN st = "ready" ELSE status[t] = "ready",
         rl # <<>> \/ idle_thread # NULL,
         schedule(st, rl), idle_thread' = idle_thread
  PROVE  /\ running' \in Thread
         /\ running' \in Range(rl) \/ running' = idle_thread
         /\ status' \in [Thread -> Status]
         /\ \A t \in Thread :
              status'[t] = IF t = running' THEN "running"
                           ELSE IF t # running THEN status[t]
                           ELSE IF st = "dying" /\ t # initial_thread THEN "free" ELSE st
         /\ thread_ticks' \in 0 .. TIME_SLICE - 1
         /\ ready_list' \in Seq(Thread)
         /\ IsInjective(ready_list')
         /\ ReadyQueueExact'
<1> USE ThreadAssumption, SliceAssumption
<1> DEFINE next == next_thread_to_run(rl)
           left == IF st = "dying" /\ running # initial_thread THEN "free" ELSE st
<1>1. /\ running' = next
      /\ status' = [status EXCEPT ![running] = left, ![next] = "running"]
      /\ ready_list' = IF rl = <<>> THEN rl ELSE Tail(rl)
      /\ thread_ticks' = 0
  BY DEF schedule
<1>2. /\ status \in [Thread -> Status] /\ running \in Thread
      /\ idle_thread \in {NULL, idle}
  BY DEF TypeOK, SchedTypeOK
<1>3. thread_ticks' \in 0 .. TIME_SLICE - 1
  BY <1>1
<1>4. CASE rl = <<>>
  <2>1. next = idle_thread /\ ready_list' = <<>> /\ idle_thread = idle
    BY <1>1, <1>2, <1>4 DEF next_thread_to_run
  <2>2. Range(ready_list') = {} /\ IsInjective(ready_list') /\ ready_list' \in Seq(Thread)
    BY <2>1, EmptyMembers
  <2>3. Range(rl) = {}
    BY <1>4, EmptyMembers
  <2> HIDE DEF next
  <2>4. \A t \in Thread :
          status'[t] = IF t = running' THEN "running"
                       ELSE IF t # running THEN status[t] ELSE left
    BY <1>1, <1>2, <2>1
  <2>5. status' \in [Thread -> Status]
    BY ZenonT(60), <1>1, <1>2 DEF Status
  <2>6. ReadyQueueExact'
    BY <1>1, <1>2, <2>1, <2>2, <2>3, <2>4 DEF ReadyQueueExact, QueueInv
  <2> QED BY <1>1, <1>2, <1>3, <2>1, <2>2, <2>4, <2>5, <2>6
<1>5. CASE rl # <<>>
  <2>1. next = Head(rl) /\ ready_list' = Tail(rl)
    BY <1>1, <1>5 DEF next_thread_to_run
  <2>2. /\ Head(rl) \in Thread /\ Head(rl) \in Range(rl)
        /\ ready_list' \in Seq(Thread) /\ IsInjective(ready_list')
        /\ Head(rl) \notin Range(ready_list')
        /\ Range(rl) = Range(ready_list') \cup {Head(rl)}
    BY <2>1, <1>5, TailMembers
  <2> HIDE DEF next
  <2>4. \A t \in Thread :
          status'[t] = IF t = running' THEN "running"
                       ELSE IF t # running THEN status[t] ELSE left
    BY <1>1, <1>2, <2>1, <2>2
  <2>5. status' \in [Thread -> Status]
    BY ZenonT(60), <1>1, <1>2 DEF Status
  <2>6. ReadyQueueExact'
    BY <1>1, <1>2, <2>1, <2>2, <2>4 DEF ReadyQueueExact, QueueInv
  <2> QED BY <1>1, <1>2, <1>3, <2>1, <2>2, <2>4, <2>5, <2>6
<1> QED BY <1>4, <1>5



\* The processor has changed hands: the running thread took the status st, and
\* the scheduler's state is in order again.
Switched(st) ==
  /\ running' \in Thread
  /\ \/ running' = running /\ st = "ready"
     \/ status[running'] = "ready"
     \/ running' = idle
  /\ status' \in [Thread -> Status]
  /\ \A t \in Thread :
       status'[t] = IF t = running' THEN "running"
                    ELSE IF t # running THEN status[t]
                    ELSE IF st = "dying" /\ t # initial_thread THEN "free" ELSE st
  /\ thread_ticks' \in 0 .. TIME_SLICE - 1
  /\ ready_list' \in Seq(Thread)
  /\ IsInjective(ready_list')
  /\ ReadyQueueExact'

\* thread_block() and the end of thread_exit() leave the scheduler in order, once
\* there is an idle thread to run.
LEMMA BlockEffect ==
  ASSUME TypeOK, QueueInv, IdleInv, NEW st \in {"blocked", "dying"},
         pc[running] \notin {"boot", "idle_start"},
         schedule(st, ready_list), idle_thread' = idle_thread
  PROVE  Switched(st)
<1> USE ThreadAssumption
<1>1. ready_list \in Seq(Thread) /\ running \in Thread /\ idle_thread \in {NULL, idle}
  BY DEF TypeOK, SchedTypeOK
<1>2. IsInjective(ready_list)
  BY DEF QueueInv
<1>3. \A t \in Thread : t \in Range(ready_list) <=>
        /\ t # idle_thread
        /\ IF t = running THEN st = "ready" ELSE status[t] = "ready"
  BY <1>1 DEF QueueInv, ReadyQueueExact
<1>4. ready_list # <<>> \/ idle_thread # NULL
  <2> SUFFICES ASSUME idle_thread = NULL PROVE ready_list # <<>>
    OBVIOUS
  <2>1. pc[initial_thread] # "boot"
    BY DEF IdleInv
  <2>2. pc[idle] = "idle_start" /\ status[idle] \in {"ready", "running"}
    BY <2>1 DEF IdleInv
  <2>3. idle # running
    BY <2>2
  <2>4. idle \in Range(ready_list)
    BY <2>2, <2>3, <1>1 DEF QueueInv, ReadyQueueExact
  <2> QED BY <2>4, <1>1, MemberOf
<1> QED BY <1>1, <1>2, <1>3, <1>4, ScheduleEffect DEF Switched

\* thread_yield() leaves the scheduler in order.
LEMMA YieldEffect ==
  ASSUME TypeOK, QueueInv, IdleInv, thread_yield, idle_thread' = idle_thread
  PROVE  Switched("ready")
<1> USE ThreadAssumption
<1> DEFINE rl == IF running = idle_thread THEN ready_list ELSE Append(ready_list, running)
<1>1. /\ ready_list \in Seq(Thread) /\ running \in Thread
      /\ idle_thread \in {NULL, idle} /\ status \in [Thread -> Status]
  BY DEF TypeOK, SchedTypeOK
<1>2. IsInjective(ready_list) /\ running \notin Range(ready_list)
  BY <1>1 DEF QueueInv, ReadyQueueExact
<1>3. /\ rl \in Seq(Thread) /\ IsInjective(rl)
      /\ Range(rl) = IF running = idle_thread THEN Range(ready_list)
                     ELSE Range(ready_list) \cup {running}
      /\ running # idle_thread => rl # <<>>
  BY ZenonT(60), <1>1, <1>2, AppendMembers
<1>4. schedule("ready", rl)
  BY DEF thread_yield
<1> HIDE DEF rl
<1>5. \A t \in Thread : t \in Range(rl) <=>
        /\ t # idle_thread
        /\ IF t = running THEN "ready" = "ready" ELSE status[t] = "ready"
  BY <1>1, <1>2, <1>3 DEF QueueInv, ReadyQueueExact
<1>6. rl # <<>> \/ idle_thread # NULL
  BY <1>1, <1>3
<1>7. /\ running' \in Thread
      /\ running' \in Range(rl) \/ running' = idle_thread
      /\ status' \in [Thread -> Status]
      /\ \A t \in Thread :
           status'[t] = IF t = running' THEN "running"
                        ELSE IF t # running THEN status[t]
                        ELSE IF "ready" = "dying" /\ t # initial_thread THEN "free" ELSE "ready"
      /\ thread_ticks' \in 0 .. TIME_SLICE - 1
      /\ ready_list' \in Seq(Thread)
      /\ IsInjective(ready_list')
      /\ ReadyQueueExact'
  BY <1>3, <1>4, <1>5, <1>6, ScheduleEffect
<1>8. running' = running \/ status[running'] = "ready" \/ running' = idle
  BY <1>1, <1>5, <1>7
<1> QED BY <1>7, <1>8 DEF Switched

\* sema_up() wakes at most one thread, which was asleep on that semaphore, and
\* leaves all queues in order.
LEMMA UpEffect ==
  ASSUME TypeOK, QueueInv, IdleInv, NEW s \in Sema, sema_up(s),
         running' = running, idle_thread' = idle_thread
  PROVE  /\ value' = [value EXCEPT ![s] = @ + 1]
         /\ value' \in [Sema -> Nat]
         /\ waiters' \in [Sema -> Seq(Thread)]
         /\ status' \in [Thread -> Status]
         /\ ready_list' \in Seq(Thread)
         /\ IsInjective(ready_list')
         /\ ReadyQueueExact'
         /\ \A r \in Sema : IsInjective(waiters'[r])
         /\ \A r \in Sema : \A t \in Range(waiters'[r]) :
              t \in Range(waiters[r]) /\ status'[t] = "blocked"
         /\ \A t \in Thread : status'[t] # status[t] =>
              status[t] = "blocked" /\ status'[t] = "ready" /\ pc[t] = "woken"
<1>1. /\ value \in [Sema -> Nat] /\ waiters \in [Sema -> Seq(Thread)]
      /\ status \in [Thread -> Status] /\ ready_list \in Seq(Thread)
  BY DEF TypeOK, SchedTypeOK
<1>2. value' = [value EXCEPT ![s] = @ + 1] /\ value' \in [Sema -> Nat]
  BY <1>1 DEF sema_up
<1>3. CASE ~ Wakes(s)
  <2>1. waiters' = waiters /\ status' = status /\ ready_list' = ready_list
    BY <1>3 DEF sema_up
  <2> QED BY <1>1, <1>2, <2>1 DEF QueueInv, ReadyQueueExact
<1>4. CASE Wakes(s)
  <2> DEFINE w == Head(waiters[s])
  <2>1. waiters' = [waiters EXCEPT ![s] = Tail(@)] /\ thread_unblock(w)
    BY <1>4 DEF sema_up
  <2>2. waiters[s] \in Seq(Thread) /\ waiters[s] # <<>>
    BY <1>1, <1>4 DEF Wakes
  <2>3. IsInjective(waiters[s])
    BY DEF QueueInv
  <2>4. /\ w \in Thread /\ w \in Range(waiters[s])
        /\ Tail(waiters[s]) \in Seq(Thread) /\ IsInjective(Tail(waiters[s]))
        /\ Range(waiters[s]) = Range(Tail(waiters[s])) \cup {w}
        /\ w \notin Range(Tail(waiters[s]))
    BY <2>2, <2>3, TailMembers
  <2> HIDE DEF w
  <2>5. status[w] = "blocked" /\ pc[w] = "woken" /\ on[w] = s
    BY <2>4 DEF QueueInv
  <2>6. w # idle_thread
    BY SMTT(30), <2>4, <2>5, ThreadAssumption DEF IdleInv, IdleLabel, TypeOK, SchedTypeOK
  <2>7. /\ status' = [status EXCEPT ![w] = "ready"]
        /\ status' \in [Thread -> Status]
        /\ ready_list' \in Seq(Thread)
        /\ IsInjective(ready_list')
        /\ ReadyQueueExact'
    BY <2>1, <2>4, <2>5, <2>6, UnblockEffect
  <2>8. waiters' \in [Sema -> Seq(Thread)]
    BY <1>1, <2>1, <2>4
  <2>9. \A r \in Sema : /\ waiters'[r] = IF r = s THEN Tail(waiters[s]) ELSE waiters[r]
                        /\ waiters[r] \in Seq(Thread)
    BY <1>1, <2>1
  <2>10. \A r \in Sema : IsInjective(waiters'[r])
    BY <2>4, <2>9 DEF QueueInv
  <2>11. \A r \in Sema : \A t \in Range(waiters'[r]) :
           t \in Range(waiters[r]) /\ t # w
    BY <2>4, <2>5, <2>9 DEF QueueInv
  <2>12. \A r \in Sema : \A t \in Range(waiters[r]) : t \in Thread /\ status[t] = "blocked"
    BY <2>9, MemberOf DEF QueueInv
  <2> QED BY ZenonT(60), <1>1, <1>2, <2>5, <2>7, <2>8, <2>10, <2>11, <2>12
<1> QED BY <1>3, <1>4

-----------------------------------------------------------------------------
(* What a step of one thread leaves alone.                                 *)

\* Only thread t moves.
OnlyMoves(t) ==
  /\ pc' \in [Thread -> Label] /\ on' \in [Thread -> Sema \cup {NULL}]
  /\ \A u \in Thread \ {t} :
       /\ pc'[u] = pc[u] /\ on'[u] = on[u] /\ cv'[u] = cv[u]
       /\ new'[u] = new[u] /\ tmp'[u] = tmp[u]

\* A step of the running thread that leaves the scheduler and the wait lists
\* alone keeps the queues in order.
LEMMA QueueFrame ==
  ASSUME TypeOK, QueueInv, OnlyMoves(running),
         UNCHANGED <<status, ready_list, running, idle_thread>>,
         \A s \in Sema : waiters'[s] = waiters[s] \/ waiters'[s] = <<>>
  PROVE  QueueInv'
<1>1. \A s \in Sema : Range(waiters'[s]) \subseteq Range(waiters[s]) /\ IsInjective(waiters'[s])
  BY EmptyMembers DEF QueueInv
<1>2. \A s \in Sema : \A t \in Range(waiters[s]) :
        t \in Thread /\ t # running
  <2>1. \A s \in Sema : waiters[s] \in Seq(Thread)
    BY DEF TypeOK
  <2>2. status[running] = "running"
    BY DEF QueueInv, ReadyQueueExact, TypeOK, SchedTypeOK
  <2> QED BY <2>1, <2>2, MemberOf DEF QueueInv
<1>3. \A s \in Sema : \A t \in Range(waiters'[s]) :
        status'[t] = "blocked" /\ pc'[t] = "woken" /\ on'[t] = s
  BY <1>1, <1>2 DEF QueueInv, OnlyMoves
<1>4. ReadyQueueExact'
  BY DEF QueueInv, ReadyQueueExact
<1> QED BY <1>1, <1>3, <1>4 DEF QueueInv

\* A step of a thread other than the idle one, after the boot, that leaves the
\* idle thread alone.
LEMMA IdleFrame ==
  ASSUME TypeOK, IdleInv, NEW t \in Thread, t = running, OnlyMoves(t),
         pc[t] \notin IdleLabel \cup {"none", "boot"},
         pc'[t] \notin IdleLabel \cup {"boot"},
         idle_thread' = idle_thread, status'[idle] \in {status[idle], "running"}
  PROVE  IdleInv'
<1> USE ThreadAssumption
<1>1. t # idle
  BY DEF IdleInv
<1>2. pc'[idle] = pc[idle]
  BY <1>1 DEF OnlyMoves
<1>3. \A u \in Thread : pc[u] # "boot"
  BY DEF IdleInv
<1>4. \A u \in Thread : pc'[u] # "boot"
  BY <1>3 DEF OnlyMoves
<1>5. \A u \in Thread : pc'[u] \in IdleLabel => u = idle
  BY DEF OnlyMoves, IdleInv
<1> QED BY <1>2, <1>3, <1>4, <1>5 DEF IdleInv

LEMMA ArgFrame ==
  ASSUME ArgInv, NEW t \in Thread, OnlyMoves(t), ArgOK(t, pc'[t], on'[t], cv'[t])
  PROVE  ArgInv'
BY DEF ArgInv, OnlyMoves

\* A step that changes no status and creates no thread.
LEMMA NewFrame ==
  ASSUME NewInv, NEW t \in Thread, OnlyMoves(t), UNCHANGED status,
         new'[t] = new[t], pc[t] # "none", status[t] # "free",
         on'[t] = tid_lock \/ pc'[t] = "thread_unblock" => new[t] # NULL,
         new \in [Thread -> Thread \cup {NULL}]
  PROVE  NewInv'
<1>1. \A u \in Thread : new'[u] = new[u]
  BY DEF OnlyMoves
<1>2. \A u \in Thread : status'[u] = "free" => pc'[u] = "none"
  BY DEF OnlyMoves, NewInv
<1>3. \A u \in Thread :
       on'[u] = tid_lock \/ pc'[u] = "thread_unblock" => new'[u] # NULL
  BY <1>1 DEF OnlyMoves, NewInv
<1>4. \A u \in Thread : new[u] # NULL => new[u] \in Thread /\ new[u] # t
  BY DEF NewInv
<1>5. \A u \in Thread : new'[u] # NULL =>
        /\ status'[new'[u]] = "blocked" /\ pc'[new'[u]] = "none"
        /\ new'[u] # idle
        /\ \A v \in Thread : new'[v] = new'[u] => v = u
  BY <1>1, <1>4 DEF OnlyMoves, NewInv
<1> QED BY <1>2, <1>3, <1>5 DEF NewInv

\* A step that is neither inside lock_acquire() nor inside lock_release().
LEMMA LockFrame ==
  ASSUME HolderInv, LockExclusive, NEW t \in Thread, OnlyMoves(t),
         UNCHANGED holder, \A l \in Lock : value'[l] = value[l],
         pc[t] \notin Between, pc'[t] \notin Between,
         pc'[t] \in Holding => holder[on'[t]] = t
  PROVE  HolderInv' /\ LockExclusive'
<1>1. HolderInv'
  BY DEF HolderInv, OnlyMoves
<1>2. \A u \in Thread, l \in Lock : Owns(u, l)' <=> Owns(u, l)
  BY DEF Owns, OnlyMoves
<1>3. LockExclusive'
  BY <1>2 DEF LockExclusive
<1> QED BY <1>1, <1>3

LEMMA TidFrame ==
  ASSUME TidInv, NEW t \in Thread, OnlyMoves(t), UNCHANGED tid_vars,
         pc'[t] = "tid_write" => tmp'[t] = next_tid
  PROVE  TidInv'
BY DEF TidInv, OnlyMoves, tid_vars, UniqueTids

\* The conjuncts of the invariant that a step of the running thread keeps when it
\* leaves the scheduler alone and creates no thread.
LEMMA LocalFrame ==
  ASSUME Inductive, NEW t \in Thread, t = running, OnlyMoves(t),
         UNCHANGED <<status, ready_list, running, idle_thread>>,
         \A s \in Sema : waiters'[s] = waiters[s] \/ waiters'[s] = <<>>,
         pc[t] \notin IdleLabel \cup {"none", "boot"},
         pc'[t] \notin IdleLabel \cup {"boot"},
         new'[t] = new[t],
         ArgOK(t, pc'[t], on'[t], cv'[t]),
         on'[t] = tid_lock \/ pc'[t] = "thread_unblock" => new[t] # NULL
  PROVE  QueueInv' /\ IdleInv' /\ ArgInv' /\ NewInv'
<1> USE DEF Inductive
<1>1. QueueInv'
  BY QueueFrame
<1>2. IdleInv'
  BY IdleFrame
<1>3. ArgInv'
  BY ArgFrame
<1>4. status[t] # "free" /\ new \in [Thread -> Thread \cup {NULL}]
  BY DEF QueueInv, ReadyQueueExact, TypeOK
<1>5. NewInv'
  BY <1>4, NewFrame
<1> QED BY <1>1, <1>2, <1>3, <1>5

\* A step of the running thread t inside a call, which leaves the scheduler and the
\* identifiers alone.
LocalStep(t) ==
  /\ running = t
  /\ UNCHANGED <<status, ready_list, running, idle_thread, tid_vars>>
  /\ \A s \in Sema : waiters'[s] = waiters[s] \/ waiters'[s] = <<>>
  /\ pc[t] \notin IdleLabel \cup {"none", "boot"}
  /\ pc'[t] \notin IdleLabel \cup {"boot"}
  /\ new'[t] = new[t]
  /\ pc'[t] = "tid_write" => tmp'[t] = next_tid

\* After a step, the arguments of t's call fit the point it is at.
ArgsFit(t) ==
  /\ ArgOK(t, pc'[t], on'[t], cv'[t])
  /\ on'[t] = tid_lock \/ pc'[t] = "thread_unblock" => new[t] # NULL

\* Such a step keeps the invariant if it keeps the types and the locks in order.
LEMMA LocalKeeps ==
  ASSUME Inductive, NEW t \in Thread, LocalStep(t), OnlyMoves(t), ArgsFit(t),
         TypeOK', HolderInv' /\ LockExclusive'
  PROVE  Inductive'
<1>1. QueueInv' /\ IdleInv' /\ ArgInv' /\ NewInv'
  BY SMTT(30), LocalFrame DEF LocalStep, ArgsFit
<1>2. TidInv'
  BY TidFrame DEF LocalStep, Inductive
<1> QED BY <1>1, <1>2 DEF Inductive

-----------------------------------------------------------------------------
(* A lock's semaphore and holder through lock_acquire() and lock_release().*)

\* Thread t takes the semaphore of a lock.
LEMMA TakeLock ==
  ASSUME TypeOK, HolderInv, LockExclusive, NEW t \in Thread, NEW l \in Lock,
         OnlyMoves(t), UNCHANGED holder,
         value[l] > 0, value' = [value EXCEPT ![l] = @ - 1],
         pc[t] \notin Between, pc'[t] = "set_holder", on'[t] = l
  PROVE  HolderInv' /\ LockExclusive'
<1>1. value \in [Sema -> Nat] /\ l \in Sema /\ holder \in [Lock -> Thread \cup {NULL}]
  BY DEF TypeOK, Sema
<1>2. \A u \in Thread : ~ Owns(u, l)
  BY DEF LockExclusive
<1>3. value[l] = 1
  BY <1>2 DEF LockExclusive
<1>4. holder[l] = NULL
  BY <1>1, <1>2 DEF Owns
<1>5. HolderInv'
  BY <1>4 DEF HolderInv, OnlyMoves, Holding, Between
<1>6. \A u \in Thread, r \in Lock : Owns(u, r)' <=> Owns(u, r) \/ (u = t /\ r = l)
  BY DEF Owns, OnlyMoves, Between
<1>7. value'[l] = 0 /\ \A r \in Lock \ {l} : value'[r] = value[r]
  BY <1>1, <1>3 DEF Sema
<1>8. LockExclusive'
  BY <1>2, <1>6, <1>7 DEF LockExclusive
<1> QED BY <1>5, <1>8

\* Thread t, which has the semaphore, becomes the holder.
LEMMA BecomeHolder ==
  ASSUME TypeOK, ArgInv, HolderInv, LockExclusive, NEW t \in Thread, NEW l \in Lock,
         OnlyMoves(t), UNCHANGED value, holder' = [holder EXCEPT ![l] = t],
         pc[t] = "set_holder", on[t] = l, pc'[t] \notin Between,
         pc'[t] \in Holding => on'[t] = l
  PROVE  HolderInv' /\ LockExclusive'
<1> USE SynchAssumption
<1>1. holder \in [Lock -> Thread \cup {NULL}]
  BY DEF TypeOK
<1>2. Owns(t, l) /\ holder[l] = NULL
  BY DEF Owns, Between, HolderInv
<1>3. \A u \in Thread \ {t} : ~ Owns(u, l)
  BY <1>2 DEF LockExclusive
<1>4. \A u \in Thread, r \in Lock : Owns(u, r)' <=> Owns(u, r)
  BY SMTT(30), <1>1, <1>2, <1>3 DEF Owns, OnlyMoves, Between
<1>5. LockExclusive'
  BY <1>4 DEF LockExclusive
<1>6. ASSUME NEW u \in Thread, u # t
      PROVE  /\ pc'[u] \in Holding => holder'[on'[u]] = u
             /\ pc'[u] \in Between => holder'[on'[u]] = NULL
  <2>1. pc'[u] = pc[u] /\ on'[u] = on[u]
    BY SMTT(30), <1>6 DEF OnlyMoves
  <2>2. pc[u] \in Holding \cup Between => on[u] \in Lock
    BY SMTT(30) DEF ArgInv, ArgOK, Holding, Between
  <2>3. pc[u] \in Holding \cup Between => on[u] # l
    BY <1>2, <1>3, <1>6, ThreadAssumption DEF HolderInv, Owns
  <2> QED BY <1>1, <2>1, <2>2, <2>3 DEF HolderInv
<1>7. pc'[t] \in Holding => holder'[on'[t]] = t
  BY <1>1
<1>8. HolderInv'
  BY <1>6, <1>7 DEF HolderInv
<1> QED BY <1>5, <1>8

\* The holder t clears lock->holder and still has the semaphore.
LEMMA ClearHolder ==
  ASSUME TypeOK, ArgInv, HolderInv, LockExclusive, NEW t \in Thread, NEW l \in Lock,
         OnlyMoves(t), UNCHANGED value, holder[l] = t,
         holder' = [holder EXCEPT ![l] = NULL],
         pc[t] \notin Between, pc'[t] \in Between, on'[t] = l
  PROVE  HolderInv' /\ LockExclusive'
<1> USE SynchAssumption, ThreadAssumption
<1>1. holder \in [Lock -> Thread \cup {NULL}]
  BY DEF TypeOK
<1>2. Owns(t, l)
  BY DEF Owns
<1>3. \A u \in Thread \ {t} : ~ Owns(u, l)
  BY <1>2 DEF LockExclusive
<1>4. \A u \in Thread, r \in Lock : Owns(u, r)' <=> Owns(u, r)
  BY <1>1, <1>2, <1>3 DEF Owns, OnlyMoves
<1>5. LockExclusive'
  BY SMTT(30), <1>4 DEF LockExclusive
<1>6. ASSUME NEW u \in Thread, u # t
      PROVE  /\ pc'[u] \in Holding => holder'[on'[u]] = u
             /\ pc'[u] \in Between => holder'[on'[u]] = NULL
  <2>1. pc'[u] = pc[u] /\ on'[u] = on[u]
    BY SMTT(30), <1>6 DEF OnlyMoves
  <2>2. pc[u] \in Holding \cup Between => on[u] \in Lock
    BY DEF ArgInv, ArgOK, Holding, Between
  <2>3. pc[u] \in Holding \cup Between => on[u] # l
    BY <1>3, <1>6 DEF HolderInv, Owns
  <2> QED BY <1>1, <2>1, <2>2, <2>3 DEF HolderInv
<1>7. pc'[t] \notin Holding /\ holder'[on'[t]] = NULL
  BY <1>1 DEF Holding, Between
<1>8. HolderInv'
  BY <1>6, <1>7 DEF HolderInv
<1> QED BY SMTT(30), <1>5, <1>8

\* Thread t, no longer the holder, gives the semaphore back.
LEMMA GiveBack ==
  ASSUME TypeOK, HolderInv, LockExclusive, NEW t \in Thread, NEW l \in Lock,
         OnlyMoves(t), UNCHANGED holder,
         value' = [value EXCEPT ![l] = @ + 1],
         pc[t] \in Between, on[t] = l, pc'[t] \notin Between \cup Holding
  PROVE  HolderInv' /\ LockExclusive'
<1> USE ThreadAssumption
<1>1. value \in [Sema -> Nat] /\ l \in Sema
  BY SMTT(30) DEF TypeOK, Sema
<1>2. Owns(t, l) /\ holder[l] = NULL
  BY DEF Owns, HolderInv
<1>3. value[l] = 0 /\ \A u \in Thread \ {t} : ~ Owns(u, l)
  BY <1>2 DEF LockExclusive
<1>4. HolderInv'
  BY DEF HolderInv, OnlyMoves
<1>5. \A u \in Thread, r \in Lock : Owns(u, r)' <=> Owns(u, r) /\ ~ (u = t /\ r = l)
  BY <1>2 DEF Owns, OnlyMoves
<1>6. value'[l] = 1 /\ \A r \in Lock \ {l} : value'[r] = value[r]
  BY SMTT(30), <1>1, <1>3 DEF Sema
<1>7. LockExclusive'
  BY <1>3, <1>5, <1>6 DEF LockExclusive
<1> QED BY SMTT(30), <1>4, <1>7

\* Locks are not affected by a step that changes neither their values and holders
\* nor the call of a thread that is inside an operation on a lock.
LEMMA LockStill ==
  ASSUME HolderInv, LockExclusive, UNCHANGED holder,
         \A l \in Lock : value'[l] = value[l],
         \A u \in Thread :
           \/ pc'[u] = pc[u] /\ on'[u] = on[u]
           \/ /\ pc[u] \notin Between \cup Holding
              /\ pc'[u] \notin Between \cup Holding
  PROVE  HolderInv' /\ LockExclusive'
<1>1. HolderInv'
  BY DEF HolderInv
<1>2. \A u \in Thread, l \in Lock : Owns(u, l)' <=> Owns(u, l)
  BY DEF Owns
<1>3. LockExclusive'
  BY <1>2 DEF LockExclusive
<1> QED BY SMTT(30), <1>1, <1>3

\* The idle thread's part of the invariant, for a step of any running thread other
\* than the first two of the boot.
LEMMA IdleStep ==
  ASSUME TypeOK, IdleInv, NEW t \in Thread, t = running, OnlyMoves(t),
         pc[t] # "boot", pc'[t] # "boot", idle_thread' = idle_thread,
         pc'[t] \in IdleLabel => t = idle,
         t = idle => pc'[t] \in IdleLabel,
         idle_thread = NULL =>
           /\ t = idle => pc'[t] = pc[t]
           /\ status'[idle] \in {status[idle], "ready", "running"}
  PROVE  IdleInv'
<1> USE ThreadAssumption
<1>1. \A u \in Thread : pc[u] # "boot" /\ pc'[u] # "boot"
  BY DEF IdleInv, OnlyMoves
<1>2. pc'[idle] \in IdleLabel \cup {"none"}
  BY DEF IdleInv, OnlyMoves
<1>3. \A u \in Thread : pc'[u] \in IdleLabel => u = idle
  BY DEF IdleInv, OnlyMoves
<1>4. idle_thread = NULL => pc'[idle] = "idle_start" /\ status'[idle] \in {"ready", "running"}
  <2> SUFFICES ASSUME idle_thread = NULL
               PROVE  pc'[idle] = "idle_start" /\ status'[idle] \in {"ready", "running"}
    OBVIOUS
  <2>1. pc[idle] = "idle_start" /\ status[idle] \in {"ready", "running"}
    BY <1>1 DEF IdleInv
  <2>2. pc'[idle] = pc[idle]
    BY SMTT(30) DEF OnlyMoves
  <2> QED BY <2>1, <2>2
<1> QED BY SMTT(30), <1>1, <1>2, <1>3, <1>4 DEF IdleInv

\* A step that ups a semaphore keeps the queues, the calls in progress and the
\* threads being made in order.
LEMMA UpFrame ==
  ASSUME Inductive, NEW t \in Thread, t = running, NEW s \in Sema, sema_up(s),
         OnlyMoves(t), UNCHANGED <<running, idle_thread>>, new' = new,
         pc[t] = "none" => pc'[t] = "none",
         ArgOK(t, pc'[t], on'[t], cv'[t]),
         on'[t] = tid_lock \/ pc'[t] = "thread_unblock" => new[t] # NULL
  PROVE  /\ QueueInv' /\ ArgInv' /\ NewInv'
         /\ status'[idle] = status[idle]
<1> USE ThreadAssumption, SynchAssumption
<1>1. TypeOK /\ QueueInv /\ IdleInv /\ ArgInv /\ NewInv
  BY SMTT(30) DEF Inductive
<1>2. /\ IsInjective(ready_list')
      /\ ReadyQueueExact'
      /\ \A r \in Sema : IsInjective(waiters'[r])
      /\ \A r \in Sema : \A u \in Range(waiters'[r]) :
           u \in Range(waiters[r]) /\ status'[u] = "blocked"
      /\ \A u \in Thread : status'[u] # status[u] =>
           status[u] = "blocked" /\ status'[u] = "ready" /\ pc[u] = "woken"
      /\ waiters' \in [Sema -> Seq(Thread)]
  BY SMTT(30), <1>1, UpEffect
<1>3. status[t] = "running"
  BY SMTT(30), <1>1 DEF QueueInv, ReadyQueueExact
<1>4. \A r \in Sema : \A u \in Range(waiters'[r]) : u \in Thread /\ u # t
  <2> SUFFICES ASSUME NEW r \in Sema, NEW u \in Range(waiters'[r]) PROVE u \in Thread /\ u # t
    BY SMTT(30)
  <2>1. u \in Range(waiters[r]) /\ waiters[r] \in Seq(Thread)
    BY SMTT(30), <1>1, <1>2 DEF TypeOK
  <2>2. u \in Thread
    BY SMTT(30), <2>1, MemberOf
  <2>3. status[u] = "blocked"
    BY SMTT(30), <1>1, <2>1 DEF QueueInv
  <2> QED BY SMTT(30), <2>2, <2>3, <1>3
<1>5. QueueInv'
  <2>1. ASSUME NEW r \in Sema, NEW u \in Range(waiters'[r])
        PROVE  status'[u] = "blocked" /\ pc'[u] = "woken" /\ on'[u] = r
    <3>1. u \in Range(waiters[r]) /\ status'[u] = "blocked" /\ u \in Thread /\ u # t
      BY SMTT(30), <1>2, <1>4
    <3>2. pc[u] = "woken" /\ on[u] = r
      BY SMTT(30), <1>1, <3>1 DEF QueueInv
    <3> QED BY SMTT(30), <3>1, <3>2 DEF OnlyMoves
  <2> QED BY SMTT(30), <1>2, <2>1 DEF QueueInv
<1>6. ArgInv'
  BY SMTT(30), <1>1, ArgFrame
<1>7. NewInv'
  <2>1. \A u \in Thread : status'[u] = "free" => pc'[u] = "none"
    BY SMTT(30), <1>1, <1>2, <1>3 DEF NewInv, OnlyMoves
  <2>2. \A u \in Thread : on'[u] = tid_lock \/ pc'[u] = "thread_unblock" => new'[u] # NULL
    BY SMTT(30), <1>1 DEF NewInv, OnlyMoves
  <2>3. ASSUME NEW u \in Thread, new[u] # NULL
        PROVE  /\ status'[new[u]] = "blocked" /\ pc'[new[u]] = "none"
               /\ new[u] # idle
               /\ \A w \in Thread : new[w] = new[u] => w = u
    <3>1. /\ new[u] \in Thread /\ status[new[u]] = "blocked" /\ pc[new[u]] = "none"
          /\ new[u] # idle
          /\ \A w \in Thread : new[w] = new[u] => w = u
      <4>1. new \in [Thread -> Thread \cup {NULL}]
        BY SMTT(30), <1>1 DEF TypeOK
      <4> QED BY SMTT(30), <4>1, <1>1, <2>3 DEF NewInv
    <3> QED BY SMTT(30), <3>1, <1>2, <1>3 DEF OnlyMoves
  <2> QED BY SMTT(30), <2>1, <2>2, <2>3 DEF NewInv
<1>8. status'[idle] = status[idle]
  <2>1. pc[idle] # "woken"
    BY SMTT(30), <1>1 DEF IdleInv, IdleLabel
  <2> QED BY SMTT(30), <2>1, <1>2
<1> QED BY SMTT(30), <1>5, <1>6, <1>7, <1>8

\* The same for a step that switches threads.  The thread that is switched away
\* from may have joined a wait list, if it is blocked.
LEMMA SwitchFrame ==
  ASSUME Inductive, NEW t \in Thread, t = running,
         NEW st \in {"blocked", "ready", "dying"}, Switched(st),
         OnlyMoves(t), idle_thread' = idle_thread, new' = new,
         waiters' \in [Sema -> Seq(Thread)],
         \A s \in Sema : IsInjective(waiters'[s]),
         \A s \in Sema : \A u \in Range(waiters'[s]) :
           \/ u \in Range(waiters[s])
           \/ u = t /\ t # idle /\ st = "blocked" /\ pc'[t] = "woken" /\ on'[t] = s,
         pc[t] = "none" => pc'[t] = "none",
         st = "dying" => pc'[t] = "none",
         ArgOK(t, pc'[t], on'[t], cv'[t]),
         on'[t] = tid_lock \/ pc'[t] = "thread_unblock" => new[t] # NULL
  PROVE  QueueInv' /\ ArgInv' /\ NewInv'
<1> USE ThreadAssumption, SynchAssumption
<1>1. TypeOK /\ QueueInv /\ IdleInv /\ ArgInv /\ NewInv
  BY SMTT(30) DEF Inductive
<1>2. /\ running' \in Thread
      /\ \/ running' = t /\ st = "ready"
         \/ status[running'] = "ready"
         \/ running' = idle
      /\ \A u \in Thread \ {t} : status'[u] = IF u = running' THEN "running" ELSE status[u]
      /\ status'[t] = IF t = running' THEN "running"
                      ELSE IF st = "dying" /\ t # initial_thread THEN "free" ELSE st
      /\ IsInjective(ready_list') /\ ReadyQueueExact'
  BY SMTT(30) DEF Switched
<1>3. status[t] = "running"
  BY SMTT(30), <1>1 DEF QueueInv, ReadyQueueExact
<1>4. QueueInv'
  <2>1. ASSUME NEW s \in Sema, NEW u \in Range(waiters'[s])
        PROVE  status'[u] = "blocked" /\ pc'[u] = "woken" /\ on'[u] = s
    <3>1. CASE u \in Range(waiters[s])
      <4>1. u \in Thread
        BY SMTT(30), <3>1, <1>1, MemberOf DEF TypeOK
      <4>2. status[u] = "blocked" /\ pc[u] = "woken" /\ on[u] = s
        BY SMTT(30), <3>1, <1>1 DEF QueueInv
      <4>3. u # t /\ u # idle
        BY SMTT(30), <4>2, <1>1, <1>3 DEF IdleInv, IdleLabel
      <4> QED BY SMTT(30), <4>1, <4>2, <4>3, <1>2 DEF OnlyMoves
    <3>2. CASE u = t /\ t # idle /\ st = "blocked" /\ pc'[t] = "woken" /\ on'[t] = s
      BY SMTT(30), <3>2, <1>2, <1>3
    <3> QED BY SMTT(30), <3>1, <3>2
  <2> QED BY SMTT(30), <1>2, <2>1 DEF QueueInv
<1>5. ArgInv'
  BY SMTT(30), <1>1, ArgFrame
<1>6. NewInv'
  <2>1. ASSUME NEW u \in Thread, status'[u] = "free" PROVE pc'[u] = "none"
    <3>1. CASE u = t
      BY SMTT(30), <2>1, <3>1, <1>2
    <3>2. CASE u # t
      <4>1. status[u] = "free" /\ pc'[u] = pc[u]
        BY SMTT(30), <2>1, <3>2, <1>2 DEF OnlyMoves
      <4> QED BY SMTT(30), <4>1, <1>1 DEF NewInv
    <3> QED BY SMTT(30), <3>1, <3>2
  <2>2. \A u \in Thread : on'[u] = tid_lock \/ pc'[u] = "thread_unblock" => new'[u] # NULL
    BY SMTT(30), <1>1 DEF NewInv, OnlyMoves
  <2>3. ASSUME NEW u \in Thread, new[u] # NULL
        PROVE  /\ status'[new[u]] = "blocked" /\ pc'[new[u]] = "none"
               /\ new[u] # idle
               /\ \A w \in Thread : new[w] = new[u] => w = u
    <3>1. /\ new[u] \in Thread /\ status[new[u]] = "blocked" /\ pc[new[u]] = "none"
          /\ new[u] # idle
          /\ \A w \in Thread : new[w] = new[u] => w = u
      <4>1. new \in [Thread -> Thread \cup {NULL}]
        BY SMTT(30), <1>1 DEF TypeOK
      <4> QED BY SMTT(30), <4>1, <1>1, <2>3 DEF NewInv
    <3>2. new[u] # t /\ new[u] # running'
      BY <3>1, <1>2, <1>3
    <3> QED BY SMTT(30), <3>1, <3>2, <1>2 DEF OnlyMoves
  <2> QED BY SMTT(30), <2>1, <2>2, <2>3 DEF NewInv
<1> QED BY SMTT(30), <1>4, <1>5, <1>6

-----------------------------------------------------------------------------
(* Calls of semaphores and locks that leave the scheduler alone.           *)

\* A call of sema_down() begins.
LEMMA call_sema_down_keeps ==
  ASSUME Inductive, NEW t \in Thread, NEW s \in Semaphore \ {idle_started}, call_sema_down(t, s)
  PROVE  Inductive'
<1> USE ThreadAssumption, SynchAssumption
<1>1. /\ running = t /\ pc[t] = "call"
      /\ pc' = [pc EXCEPT ![t] = "sema_down"]
      /\ on' = [on EXCEPT ![t] = s]
      /\ UNCHANGED <<sched_vars, value, waiters, holder, cond_waiters, cv, new, tmp, tid_vars>>
  BY DEF call_sema_down, At, Goto, synch_vars, call_vars
<1>2. TypeOK /\ ArgInv /\ NewInv /\ HolderInv /\ LockExclusive /\ TidInv
  BY DEF Inductive
<1>3. TypeOK'
  BY ZenonT(60), <1>1, <1>2 DEF TypeOK, SchedTypeOK, sched_vars, tid_vars, Sema, Label
<1>4. OnlyMoves(t)
  BY SMTT(30), <1>1, <1>2, <1>3 DEF OnlyMoves, TypeOK
<1>5. LocalStep(t)
  BY SMTT(30), <1>1, <1>2 DEF LocalStep, TypeOK, IdleLabel, sched_vars
<1>6. ArgsFit(t)
  BY SMTT(30), <1>1, <1>2 DEF ArgsFit, ArgOK, ArgInv, NewInv, TypeOK, Sema
<1>7. HolderInv' /\ LockExclusive'
  <2>1. /\ pc[t] \notin Between /\ pc'[t] \notin Between
        /\ pc'[t] \in Holding => holder[on'[t]] = t
        /\ \A r \in Lock : value'[r] = value[r]
    BY SMTT(30), <1>1, <1>2 DEF TypeOK, Between, Holding, Sema
  <2> QED BY <1>1, <1>2, <1>4, <2>1, LockFrame
<1> QED BY SMTT(30), <1>3, <1>4, <1>5, <1>6, <1>7, LocalKeeps

\* sema_try_down() takes a unit of a shared semaphore.
LEMMA sema_try_down_keeps ==
  ASSUME Inductive, NEW t \in Thread, NEW s \in Semaphore \ {idle_started}, sema_try_down(t, s)
  PROVE  Inductive'
<1> USE ThreadAssumption, SynchAssumption
<1>1. /\ running = t /\ pc[t] = "call"
      /\ value[s] > 0 /\ value' = [value EXCEPT ![s] = @ - 1]
      /\ UNCHANGED <<sched_vars, waiters, holder, cond_waiters, pc, on, cv, new, tmp, tid_vars>>
  BY DEF sema_try_down, At, Goto, synch_vars, call_vars
<1>2. TypeOK /\ ArgInv /\ NewInv /\ HolderInv /\ LockExclusive /\ TidInv
  BY DEF Inductive
<1>b. s \in Sema /\ value[s] \in Nat
  BY <1>2 DEF TypeOK, Sema
<1>a. s \in Sema /\ value[s] - 1 \in Nat
  BY <1>1, <1>b
<1>3. TypeOK'
  BY ZenonT(60), <1>1, <1>2, <1>a DEF TypeOK, SchedTypeOK, sched_vars, tid_vars, Sema, Label
<1>4. OnlyMoves(t)
  BY SMTT(30), <1>1, <1>2, <1>3, <1>a, <1>b DEF OnlyMoves, TypeOK
<1>5. LocalStep(t)
  BY <1>1, <1>2, <1>a, <1>b DEF LocalStep, TypeOK, IdleLabel, sched_vars
<1>6. ArgsFit(t)
  BY SMTT(30), <1>1, <1>2, <1>a, <1>b DEF ArgsFit, ArgOK, ArgInv, NewInv, TypeOK, Sema
<1>7. HolderInv' /\ LockExclusive'
  <2>1. /\ pc[t] \notin Between /\ pc'[t] \notin Between
        /\ pc'[t] \in Holding => holder[on'[t]] = t
        /\ \A r \in Lock : value'[r] = value[r]
    BY <1>1, <1>2 DEF TypeOK, Between, Holding, Sema
  <2> QED BY SMTT(30), <1>1, <1>2, <1>4, <2>1, LockFrame
<1> QED BY <1>3, <1>4, <1>5, <1>6, <1>7, LocalKeeps

\* A call of lock_acquire() begins.
LEMMA lock_acquire_keeps ==
  ASSUME Inductive, NEW t \in Thread, NEW l \in Lock \ {tid_lock}, lock_acquire(t, l)
  PROVE  Inductive'
<1> USE ThreadAssumption, SynchAssumption
<1>1. /\ running = t /\ pc[t] = "call"
      /\ pc' = [pc EXCEPT ![t] = "sema_down"]
      /\ on' = [on EXCEPT ![t] = l]
      /\ UNCHANGED <<sched_vars, value, waiters, holder, cond_waiters, cv, new, tmp, tid_vars>>
  BY DEF lock_acquire, At, Goto, synch_vars, call_vars
<1>2. TypeOK /\ ArgInv /\ NewInv /\ HolderInv /\ LockExclusive /\ TidInv
  BY DEF Inductive
<1>3. TypeOK'
  BY ZenonT(60), <1>1, <1>2 DEF TypeOK, SchedTypeOK, sched_vars, tid_vars, Sema, Label
<1>4. OnlyMoves(t)
  BY SMTT(30), <1>1, <1>2, <1>3 DEF OnlyMoves, TypeOK
<1>5. LocalStep(t)
  BY <1>1, <1>2 DEF LocalStep, TypeOK, IdleLabel, sched_vars
<1>6. ArgsFit(t)
  BY SMTT(30), <1>1, <1>2 DEF ArgsFit, ArgOK, ArgInv, NewInv, TypeOK, Sema
<1>7. HolderInv' /\ LockExclusive'
  <2>1. /\ pc[t] \notin Between /\ pc'[t] \notin Between
        /\ pc'[t] \in Holding => holder[on'[t]] = t
        /\ \A r \in Lock : value'[r] = value[r]
    BY SMTT(30), <1>1, <1>2 DEF TypeOK, Between, Holding, Sema
  <2> QED BY SMTT(30), <1>1, <1>2, <1>4, <2>1, LockFrame
<1> QED BY SMTT(30), <1>3, <1>4, <1>5, <1>6, <1>7, LocalKeeps

\* lock_try_acquire() takes the semaphore of a free lock.
LEMMA lock_try_acquire_keeps ==
  ASSUME Inductive, NEW t \in Thread, NEW l \in Lock \ {tid_lock}, lock_try_acquire(t, l)
  PROVE  Inductive'
<1> USE ThreadAssumption, SynchAssumption
<1>1. /\ running = t /\ pc[t] = "call"
      /\ value[l] > 0 /\ value' = [value EXCEPT ![l] = @ - 1]
      /\ pc' = [pc EXCEPT ![t] = "set_holder"]
      /\ on' = [on EXCEPT ![t] = l]
      /\ UNCHANGED <<sched_vars, waiters, holder, cond_waiters, cv, new, tmp, tid_vars>>
  BY DEF lock_try_acquire, At, Goto, synch_vars, call_vars
<1>2. TypeOK /\ ArgInv /\ NewInv /\ HolderInv /\ LockExclusive /\ TidInv
  BY DEF Inductive
<1>b. l \in Sema /\ value[l] \in Nat
  BY <1>2 DEF TypeOK, Sema
<1>a. l \in Sema /\ value[l] - 1 \in Nat
  BY <1>1, <1>b
<1>3. TypeOK'
  BY ZenonT(60), <1>1, <1>2, <1>a DEF TypeOK, SchedTypeOK, sched_vars, tid_vars, Sema, Label
<1>4. OnlyMoves(t)
  BY SMTT(30), <1>1, <1>2, <1>3, <1>a, <1>b DEF OnlyMoves, TypeOK
<1>5. LocalStep(t)
  BY <1>1, <1>2, <1>a, <1>b DEF LocalStep, TypeOK, IdleLabel, sched_vars
<1>6. ArgsFit(t)
  BY <1>1, <1>2, <1>a, <1>b DEF ArgsFit, ArgOK, ArgInv, NewInv, TypeOK, Sema
<1>7. HolderInv' /\ LockExclusive'
  <2>1. pc[t] \notin Between /\ pc'[t] = "set_holder" /\ on'[t] = l
    BY <1>1, <1>2 DEF TypeOK, Between
  <2> QED BY ZenonT(60), <1>1, <1>2, <1>4, <2>1, TakeLock
<1> QED BY <1>3, <1>4, <1>5, <1>6, <1>7, LocalKeeps

=============================================================================
