---------------------------- MODULE SynchSwitch -----------------------------
(***************************************************************************)
(* The steps that give a lock back, switch threads or make a thread keep   *)
(* the inductive invariant of Synch: one lemma per action.                 *)
(***************************************************************************)
EXTENDS SynchLocal

-----------------------------------------------------------------------------
(* The step of lock_release() that ups the semaphore of the lock.          *)

\* The sema_up() of lock_release(), cond_signal() and cond_broadcast().
LEMMA release_up_keeps ==
  ASSUME Inductive, NEW t \in Thread, release_up(t)
  PROVE  Inductive'
<1> USE ThreadAssumption, SynchAssumption
<1> DEFINE o == on[t]
<1>1. /\ running = t /\ sema_up(o)
      /\ pc[t] \in {"sema_up", "tid_up", "wait_up", "signal_up", "broadcast_up"}
      /\ pc' = [pc EXCEPT ![t] = AfterUp[pc[t]]]
      /\ on' = [on EXCEPT ![t] = IF pc[t] = "wait_up" THEN t ELSE NULL]
      /\ UNCHANGED <<all_list, running, idle_thread, thread_ticks, holder,
                     cond_waiters, cv, new, tmp, tid_vars>>
  BY DEF release_up, Goto, AfterUp
<1>2. TypeOK /\ QueueInv /\ IdleInv /\ ArgInv /\ NewInv /\ HolderInv /\ LockExclusive /\ TidInv
  BY SMTT(30) DEF Inductive
<1>3. ArgOK(t, pc[t], o, cv[t])
  BY SMTT(30), <1>2 DEF ArgInv
<1>4. o \in Sema
  BY SMTT(30), <1>1, <1>3 DEF ArgOK, Sema
<1>5. /\ pc[t] \in {"sema_up", "signal_up"} => pc'[t] = "call"
      /\ pc[t] = "tid_up" => pc'[t] = "thread_unblock"
      /\ pc[t] = "wait_up" => pc'[t] = "sema_down"
      /\ pc[t] = "broadcast_up" => pc'[t] = "broadcast"
  BY SMTT(30), <1>1, <1>2 DEF TypeOK, AfterUp
<1>6. on'[t] = IF pc[t] = "wait_up" THEN t ELSE NULL
  BY SMTT(30), <1>1, <1>2 DEF TypeOK
<1>7. /\ value' = [value EXCEPT ![o] = @ + 1]
      /\ value' \in [Sema -> Nat] /\ waiters' \in [Sema -> Seq(Thread)]
      /\ status' \in [Thread -> Status] /\ ready_list' \in Seq(Thread)
  BY SMTT(30), <1>1, <1>2, <1>4, UpEffect
<1>8. pc' \in [Thread -> Label] /\ on' \in [Thread -> Sema \cup {NULL}]
  BY SMTT(30), <1>1, <1>2 DEF TypeOK, Label, AfterUp, Sema
<1>9. TypeOK'
  BY SMTT(30), <1>1, <1>2, <1>7, <1>8 DEF TypeOK, SchedTypeOK, tid_vars
<1>10. OnlyMoves(t)
  BY SMTT(30), <1>1, <1>2, <1>8 DEF OnlyMoves, TypeOK
<1> HIDE DEF o
<1>a. on'[t] # tid_lock
  BY <1>6 DEF Sema
<1>11. ArgOK(t, pc'[t], on'[t], cv'[t])
  <2>1. CASE pc[t] = "wait_up"
    BY SMTT(30), <2>1, <1>1, <1>3, <1>5, <1>6 DEF ArgOK
  <2>2. CASE pc[t] = "broadcast_up"
    BY SMTT(30), <2>2, <1>1, <1>3, <1>5 DEF ArgOK
  <2>3. CASE pc[t] \in {"sema_up", "tid_up", "signal_up"}
    BY SMTT(30), <2>3, <1>5, <1>a DEF ArgOK
  <2> QED BY SMTT(30), <1>1, <2>1, <2>2, <2>3
<1>12. on'[t] = tid_lock \/ pc'[t] = "thread_unblock" => new[t] # NULL
  <2>1. pc[t] = "tid_up" => new[t] # NULL
    BY SMTT(30), <1>2, <1>3 DEF NewInv, ArgOK, o
  <2> QED BY SMTT(30), <1>1, <1>5, <1>a, <2>1
<1>13. QueueInv' /\ ArgInv' /\ NewInv' /\ status'[idle] = status[idle]
  BY SMTT(30), <1>1, <1>4, <1>10, <1>11, <1>12, UpFrame
<1>14. IdleInv'
  <2>1. /\ pc[t] \notin IdleLabel \cup {"none", "boot"}
        /\ pc'[t] \notin IdleLabel \cup {"boot"}
    BY <1>1, <1>5 DEF IdleLabel
  <2> QED BY SMTT(30), <1>1, <1>2, <1>10, <1>13, <2>1, IdleFrame
<1>15. HolderInv' /\ LockExclusive'
  <2>1. pc'[t] \notin Between \cup Holding
    BY <1>1, <1>5 DEF Between, Holding
  <2>2. CASE pc[t] \in Between
    <3>1. o \in Lock
      BY SMTT(30), <2>2, <1>3 DEF Between, ArgOK
    <3> QED BY ZenonT(60), <1>1, <1>2, <1>7, <1>10, <2>1, <2>2, <3>1, GiveBack DEF o
  <2>3. CASE pc[t] \notin Between
    <3>1. o \in Thread
      BY SMTT(30), <2>3, <1>1, <1>3 DEF Between, ArgOK
    <3>2. \A l \in Lock : value'[l] = value[l]
      BY SMTT(30), <1>2, <1>7, <3>1 DEF TypeOK, Sema
    <3> QED BY SMTT(30), <1>1, <1>2, <1>10, <2>1, <2>3, <3>2, LockFrame
  <2> QED BY <2>2, <2>3
<1>16. TidInv'
  <2>1. pc'[t] # "tid_write"
    BY <1>1, <1>5
  <2> QED BY SMTT(30), <1>1, <1>2, <1>10, <2>1, TidFrame
<1> QED BY SMTT(30), <1>9, <1>13, <1>14, <1>15, <1>16 DEF Inductive

-----------------------------------------------------------------------------
(* Steps that switch threads.                                              *)

\* A switch while the thread that is switched away from stays where it is, or, if
\* it is the idle thread, goes from one point of its loop to another: thread_yield()
\* by a thread or on return from the timer interrupt, and thread_block() in idle().
LEMMA SwitchInPlace ==
  ASSUME Inductive, NEW st \in {"blocked", "ready"}, Switched(st), pc[running] # "boot",
         \/ pc' = pc /\ st = "ready"
         \/ /\ running = idle /\ pc[idle] \in {"idle_block", "hlt"}
            /\ pc' \in {[pc EXCEPT ![idle] = "idle_block"], [pc EXCEPT ![idle] = "hlt"]},
         UNCHANGED <<all_list, idle_thread, synch_vars, on, cv, new, tmp, tid_vars>>
  PROVE  Inductive'
<1> USE ThreadAssumption, SynchAssumption
<1> DEFINE t == running
<1>1. TypeOK /\ QueueInv /\ IdleInv /\ ArgInv /\ NewInv /\ HolderInv /\ LockExclusive /\ TidInv
  BY DEF Inductive
<1>2. t \in Thread /\ pc \in [Thread -> Label]
  BY <1>1 DEF TypeOK, SchedTypeOK
<1>3. UNCHANGED <<value, waiters, holder, cond_waiters>>
  BY DEF synch_vars
<1>4. pc' \in [Thread -> Label]
  BY SMTT(30), <1>2 DEF Label
<1>5. TypeOK'
  BY SMTT(30), <1>1, <1>3, <1>4 DEF TypeOK, SchedTypeOK, Switched, tid_vars
<1>6. \/ pc'[t] = pc[t] /\ st = "ready"
      \/ t = idle /\ pc[t] \in {"idle_block", "hlt"} /\ pc'[t] \in {"idle_block", "hlt"}
  BY <1>2
<1>7. OnlyMoves(t)
  BY SMTT(30), <1>1, <1>2, <1>4 DEF OnlyMoves, TypeOK
<1>8. /\ waiters' \in [Sema -> Seq(Thread)]
      /\ \A s \in Sema : IsInjective(waiters'[s])
      /\ \A s \in Sema : \A u \in Range(waiters'[s]) : u \in Range(waiters[s])
  BY <1>1, <1>3 DEF TypeOK, QueueInv
<1>9. Switched(st) /\ idle_thread' = idle_thread /\ new' = new /\ on' = on /\ cv' = cv
  OBVIOUS
<1>t. t = running /\ pc[t] # "boot"
  BY SMTT(30)
<1> HIDE DEF t
<1>10. ArgOK(t, pc'[t], on'[t], cv'[t])
  <2>1. ArgOK(t, pc[t], on[t], cv[t])
    BY SMTT(30), <1>1, <1>2 DEF ArgInv
  <2> QED BY SMTT(30), <1>6, <1>9, <2>1 DEF ArgOK
<1>11. on'[t] = tid_lock \/ pc'[t] = "thread_unblock" => new[t] # NULL
  BY SMTT(30), <1>1, <1>2, <1>6, <1>9 DEF NewInv
<1>12. QueueInv' /\ ArgInv' /\ NewInv'
  <2>1. pc[t] = "none" => pc'[t] = "none"
    BY <1>6
  <2> QED BY SMTT(30), <1>2, <1>t, <1>7, <1>8, <1>9, <1>10, <1>11, <2>1, SwitchFrame
<1>13. IdleInv'
  <2>1. /\ status'[idle] \in {status[idle], "running", st}
    BY SMTT(30), <1>9 DEF Switched
  <2>2. CASE pc'[t] = pc[t] /\ st = "ready"
    <3>1. \A u \in Thread : pc'[u] = pc[u]
      BY SMTT(30), <1>7, <2>2 DEF OnlyMoves
    <3>2. \A u \in Thread : pc[u] # "boot"
      BY SMTT(30), <1>1, <1>t DEF IdleInv
    <3> QED BY SMTT(30), <3>1, <3>2, <1>1, <1>9, <2>1, <2>2 DEF IdleInv
  <2>3. CASE t = idle /\ pc[t] \in {"idle_block", "hlt"} /\ pc'[t] \in {"idle_block", "hlt"}
    <3>1. idle_thread # NULL
      BY SMTT(30), <1>1, <2>3 DEF IdleInv
    <3> QED BY SMTT(30), <3>1, <2>3, <1>1, <1>2, <1>7, <1>9, <1>t, IdleStep DEF IdleLabel
  <2> QED BY SMTT(30), <1>6, <2>2, <2>3
<1>14. HolderInv' /\ LockExclusive'
  <2>1. \A u \in Thread :
          \/ pc'[u] = pc[u] /\ on'[u] = on[u]
          \/ pc[u] \notin Between \cup Holding /\ pc'[u] \notin Between \cup Holding
    BY SMTT(30), <1>6, <1>7, <1>9 DEF OnlyMoves, Between, Holding
  <2> QED BY SMTT(30), <1>1, <1>3, <2>1, LockStill
<1>15. TidInv'
  <2>1. pc'[t] = "tid_write" => tmp'[t] = next_tid
    BY SMTT(30), <1>1, <1>2, <1>6 DEF TidInv
  <2> QED BY SMTT(30), <1>1, <1>2, <1>7, <2>1, TidFrame
<1> QED BY SMTT(30), <1>5, <1>12, <1>13, <1>14, <1>15 DEF Inductive

\* A thread calls thread_yield().
LEMMA call_thread_yield_keeps ==
  ASSUME Inductive, NEW t \in Thread, call_thread_yield(t)
  PROVE  Inductive'
<1>1. running = t /\ pc[t] = "call" /\ thread_yield /\ pc' = pc
  BY DEF call_thread_yield, At
<1>2. UNCHANGED <<all_list, idle_thread, synch_vars, on, cv, new, tmp, tid_vars>>
  BY DEF call_thread_yield, call_vars
<1>3. Switched("ready")
  BY <1>1, <1>2, YieldEffect DEF Inductive
<1> QED BY <1>1, <1>2, <1>3, SwitchInPlace

\* The idle thread blocks.
LEMMA idle_block_keeps ==
  ASSUME Inductive, idle_block
  PROVE  Inductive'
<1>1. /\ running = idle /\ pc[idle] = "idle_block" /\ schedule("blocked", ready_list)
      /\ pc' = [pc EXCEPT ![idle] = "hlt"]
  BY DEF idle_block, At, Goto, thread_block
<1>2. UNCHANGED <<all_list, idle_thread, synch_vars, on, cv, new, tmp, tid_vars>>
  BY DEF idle_block, call_vars
<1>3. Switched("blocked")
  BY SMTT(30), <1>1, <1>2, BlockEffect DEF Inductive
<1> QED BY <1>1, <1>2, <1>3, SwitchInPlace

\* A tick that does not end the slice.
LEMMA tick_keeps ==
  ASSUME Inductive, timer_interrupt, ~SliceOver
  PROVE  Inductive'
<1> USE ThreadAssumption, SynchAssumption, SliceAssumption
<1> DEFINE t == running
<1>1. TypeOK /\ QueueInv /\ IdleInv /\ ArgInv /\ NewInv /\ HolderInv /\ LockExclusive /\ TidInv
  BY DEF Inductive
<1>2. t \in Thread /\ pc \in [Thread -> Label] /\ pc[t] # "boot"
  BY <1>1 DEF TypeOK, SchedTypeOK, timer_interrupt, IntrOn
<1>3. /\ UNCHANGED <<status, ready_list, running, all_list, idle_thread, value, waiters,
                     holder, cond_waiters, on, cv, new, tmp, tid_vars>>
      /\ thread_ticks' = thread_ticks + 1
  BY DEF timer_interrupt, thread_tick, synch_vars, call_vars
<1>4. \/ pc' = pc
      \/ pc[t] = "hlt" /\ pc' = [pc EXCEPT ![t] = "idle_block"]
  BY DEF timer_interrupt, AfterInterrupt
<1>5. pc' \in [Thread -> Label]
  BY SMTT(30), <1>2, <1>4 DEF Label
<1>6. thread_ticks' \in 0 .. TIME_SLICE - 1
  BY SMTT(30), <1>1, <1>3 DEF SliceOver, TypeOK, SchedTypeOK
<1>7. TypeOK'
  BY SMTT(30), <1>1, <1>3, <1>5, <1>6 DEF TypeOK, SchedTypeOK, tid_vars
<1>8. pc'[t] = pc[t] \/ (t = idle /\ pc[t] = "hlt" /\ pc'[t] = "idle_block")
  BY SMTT(30), <1>1, <1>2, <1>4 DEF IdleInv, IdleLabel
<1>9. OnlyMoves(t)
  BY SMTT(30), <1>1, <1>2, <1>3, <1>4, <1>5 DEF OnlyMoves, TypeOK
<1>t. t = running
  BY SMTT(30)
<1> HIDE DEF t
<1>10. QueueInv'
  BY SMTT(30), <1>1, <1>3, <1>9, <1>t, QueueFrame
<1>11. ArgInv'
  <2>1. ArgOK(t, pc[t], on[t], cv[t])
    BY SMTT(30), <1>1, <1>2 DEF ArgInv
  <2>2. ArgOK(t, pc'[t], on'[t], cv'[t])
    BY SMTT(30), <1>8, <1>3, <2>1 DEF ArgOK
  <2> QED BY SMTT(30), <1>1, <1>2, <1>9, <2>2, ArgFrame
<1>12. NewInv'
  <2>1. \A u \in Thread : pc'[u] = pc[u] \/ (pc[u] = "hlt" /\ pc'[u] = "idle_block")
    BY <1>8, <1>9 DEF OnlyMoves
  <2>2. new \in [Thread -> Thread \cup {NULL}]
    BY <1>1 DEF TypeOK
  <2> QED BY SMTT(30), <1>1, <1>3, <2>1, <2>2 DEF NewInv
<1>13. IdleInv'
  <2>1. CASE pc'[t] = pc[t]
    <3>1. \A u \in Thread : pc'[u] = pc[u]
      BY SMTT(30), <1>9, <2>1 DEF OnlyMoves
    <3>2. \A u \in Thread : pc[u] # "boot"
      BY SMTT(30), <1>1, <1>2, <1>t DEF IdleInv
    <3> QED BY SMTT(30), <3>1, <3>2, <1>1, <1>3 DEF IdleInv
  <2>2. CASE t = idle /\ pc[t] = "hlt" /\ pc'[t] = "idle_block"
    <3>1. idle_thread # NULL
      BY SMTT(30), <1>1, <2>2 DEF IdleInv
    <3> QED BY SMTT(30), <3>1, <2>2, <1>1, <1>2, <1>3, <1>9, <1>t, IdleStep DEF IdleLabel
  <2> QED BY SMTT(30), <1>8, <2>1, <2>2
<1>14. HolderInv' /\ LockExclusive'
  <2>1. \A u \in Thread :
          \/ pc'[u] = pc[u] /\ on'[u] = on[u]
          \/ pc[u] \notin Between \cup Holding /\ pc'[u] \notin Between \cup Holding
    BY SMTT(30), <1>3, <1>8, <1>9 DEF OnlyMoves, Between, Holding
  <2> QED BY SMTT(30), <1>1, <1>3, <2>1, LockStill
<1>15. TidInv'
  <2>1. pc'[t] = "tid_write" => tmp'[t] = next_tid
    BY <1>1, <1>2, <1>3, <1>8 DEF TidInv
  <2> QED BY SMTT(30), <1>1, <1>2, <1>3, <1>9, <2>1, TidFrame
<1> QED BY SMTT(30), <1>7, <1>10, <1>11, <1>12, <1>13, <1>14, <1>15 DEF Inductive

\* The timer interrupt.
LEMMA timer_interrupt_keeps ==
  ASSUME Inductive, timer_interrupt
  PROVE  Inductive'
<1> USE ThreadAssumption
<1>1. CASE SliceOver
  <2>1. thread_yield /\ pc[running] # "boot"
    BY <1>1 DEF timer_interrupt, thread_tick, IntrOn
  <2>2. UNCHANGED <<all_list, idle_thread, synch_vars, on, cv, new, tmp, tid_vars>>
    BY DEF timer_interrupt, call_vars
  <2>3. Switched("ready")
    BY SMTT(30), <2>1, <2>2, YieldEffect DEF Inductive
  <2>4. pc[running] = "hlt" => running = idle
    BY DEF Inductive, IdleInv, IdleLabel, TypeOK, SchedTypeOK
  <2>5. \/ pc' = pc
        \/ /\ running = idle /\ pc[idle] \in {"idle_block", "hlt"}
           /\ pc' \in {[pc EXCEPT ![idle] = "idle_block"], [pc EXCEPT ![idle] = "hlt"]}
    BY ZenonT(60), <2>4 DEF timer_interrupt, AfterInterrupt
  <2> QED BY SMTT(30), <2>1, <2>2, <2>3, <2>5, SwitchInPlace
<1> QED BY SMTT(30), <1>1, tick_keeps

\* sema_down() puts its caller to sleep.
LEMMA sema_down_sleep_keeps ==
  ASSUME Inductive, NEW t \in Thread, sema_down_sleep(t)
  PROVE  Inductive'
<1> USE ThreadAssumption, SynchAssumption
<1>1. /\ running = t /\ pc[t] \in {"sema_down", "woken"}
      /\ schedule("blocked", ready_list)
      /\ waiters' = [waiters EXCEPT ![on[t]] = Append(@, t)]
      /\ pc' = [pc EXCEPT ![t] = "woken"]
      /\ UNCHANGED <<all_list, idle_thread, value, holder, cond_waiters, on, cv, new, tmp, tid_vars>>
  BY DEF sema_down_sleep, thread_block, Goto, call_vars
<1>2. TypeOK /\ QueueInv /\ IdleInv /\ ArgInv /\ NewInv /\ HolderInv /\ LockExclusive /\ TidInv
  BY DEF Inductive
<1>3. Switched("blocked")
  BY SMTT(30), <1>1, <1>2, BlockEffect
<1>4. ArgOK(t, pc[t], on[t], cv[t]) /\ pc \in [Thread -> Label] /\ pc'[t] = "woken"
  BY SMTT(30), <1>1, <1>2 DEF ArgInv, TypeOK
<1>5. on[t] \in Sema /\ waiters[on[t]] \in Seq(Thread) /\ waiters \in [Sema -> Seq(Thread)]
  BY SMTT(30), <1>1, <1>2, <1>4 DEF ArgOK, Sema, TypeOK
<1>6. status[t] = "running"
  BY SMTT(30), <1>1, <1>2 DEF QueueInv, ReadyQueueExact
<1>7. t \notin Range(waiters[on[t]]) /\ IsInjective(waiters[on[t]])
  BY SMTT(30), <1>2, <1>5, <1>6 DEF QueueInv
<1>8. /\ Append(waiters[on[t]], t) \in Seq(Thread)
      /\ Range(Append(waiters[on[t]], t)) = Range(waiters[on[t]]) \cup {t}
      /\ IsInjective(Append(waiters[on[t]], t))
  BY SMTT(30), <1>5, <1>7, AppendMembers
<1>9. /\ waiters' \in [Sema -> Seq(Thread)]
      /\ \A s \in Sema : waiters'[s] = IF s = on[t] THEN Append(waiters[on[t]], t) ELSE waiters[s]
  BY SMTT(30), <1>1, <1>5, <1>8
<1>10. pc' \in [Thread -> Label]
  BY SMTT(30), <1>1, <1>4 DEF Label
<1>11. TypeOK'
  BY SMTT(30), <1>1, <1>2, <1>3, <1>9, <1>10 DEF TypeOK, SchedTypeOK, Switched, tid_vars
<1>12. OnlyMoves(t)
  BY SMTT(30), <1>1, <1>2, <1>10 DEF OnlyMoves, TypeOK
<1>13. t # idle
  BY ZenonT(60), <1>1, <1>2 DEF IdleInv, IdleLabel
<1>14. ArgOK(t, pc'[t], on'[t], cv'[t])
  BY SMTT(30), <1>1, <1>4 DEF ArgOK
<1>15. QueueInv' /\ ArgInv' /\ NewInv'
  <2>1. \A s \in Sema : IsInjective(waiters'[s])
    BY ZenonT(60), <1>2, <1>8, <1>9 DEF QueueInv
  <2>2. \A s \in Sema : \A u \in Range(waiters'[s]) :
          \/ u \in Range(waiters[s])
          \/ u = t /\ t # idle /\ "blocked" = "blocked" /\ pc'[t] = "woken" /\ on'[t] = s
    BY ZenonT(60), <1>1, <1>4, <1>8, <1>9, <1>13
  <2>3. on'[t] = tid_lock \/ pc'[t] = "thread_unblock" => new[t] # NULL
    BY SMTT(30), <1>1, <1>2, <1>4 DEF NewInv
  <2>4. pc[t] = "none" => pc'[t] = "none"
    BY SMTT(30), <1>1
  <2> QED BY SMTT(30), <1>1, <1>3, <1>9, <1>12, <1>14, <2>1, <2>2, <2>3, <2>4, SwitchFrame
<1>16. IdleInv'
  <2>1. status'[idle] \in {status[idle], "running"}
    BY SMTT(30), <1>1, <1>3, <1>13 DEF Switched
  <2> QED BY SMTT(30), <1>1, <1>2, <1>4, <1>12, <2>1, IdleFrame DEF IdleLabel
<1>17. HolderInv' /\ LockExclusive'
  BY SMTT(30), <1>1, <1>2, <1>4, <1>12, LockFrame DEF Between, Holding
<1>18. TidInv'
  BY ZenonT(60), <1>1, <1>2, <1>4, <1>12, TidFrame
<1> QED BY SMTT(30), <1>11, <1>15, <1>16, <1>17, <1>18 DEF Inductive

\* A thread ends.
LEMMA thread_exit_keeps ==
  ASSUME Inductive, NEW t \in Thread, thread_exit(t)
  PROVE  Inductive'
<1> USE ThreadAssumption, SynchAssumption
<1>1. /\ running = t /\ pc[t] = "call"
      /\ schedule("dying", ready_list)
      /\ all_list' = all_list \ {running}
      /\ pc' = [pc EXCEPT ![t] = "none"]
      /\ tid' = [tid EXCEPT ![t] = 0]
      /\ UNCHANGED <<idle_thread, value, waiters, holder, cond_waiters, on, cv, new, tmp, next_tid>>
  BY DEF thread_exit, exit_thread, At, Goto, synch_vars, call_vars
<1>2. TypeOK /\ QueueInv /\ IdleInv /\ ArgInv /\ NewInv /\ HolderInv /\ LockExclusive /\ TidInv
  BY DEF Inductive
<1>3. Switched("dying")
  BY SMTT(30), <1>1, <1>2, BlockEffect
<1>4. pc \in [Thread -> Label] /\ pc'[t] = "none" /\ pc' \in [Thread -> Label]
  BY SMTT(30), <1>1, <1>2 DEF TypeOK, Label
<1>5. tid \in [Thread -> Nat] /\ tid' \in [Thread -> Nat] /\ next_tid \in Nat
  BY SMTT(30), <1>1, <1>2 DEF TypeOK
<1>6. TypeOK'
  BY SMTT(30), <1>1, <1>2, <1>3, <1>4, <1>5 DEF TypeOK, SchedTypeOK, Switched
<1>7. OnlyMoves(t)
  BY SMTT(30), <1>1, <1>2, <1>4 DEF OnlyMoves, TypeOK
<1>8. t # idle
  BY SMTT(30), <1>1, <1>2 DEF IdleInv, IdleLabel
<1>9. QueueInv' /\ ArgInv' /\ NewInv'
  <2>1. /\ waiters' \in [Sema -> Seq(Thread)]
        /\ \A s \in Sema : IsInjective(waiters'[s])
        /\ \A s \in Sema : \A u \in Range(waiters'[s]) : u \in Range(waiters[s])
    BY SMTT(30), <1>1, <1>2 DEF TypeOK, QueueInv
  <2>2. ArgOK(t, pc'[t], on'[t], cv'[t])
    BY SMTT(30), <1>4 DEF ArgOK
  <2>3. on'[t] = tid_lock \/ pc'[t] = "thread_unblock" => new[t] # NULL
    BY SMTT(30), <1>1, <1>2, <1>4 DEF NewInv
  <2> QED BY SMTT(30), <1>1, <1>3, <1>4, <1>7, <2>1, <2>2, <2>3, SwitchFrame
<1>10. IdleInv'
  <2>1. status'[idle] \in {status[idle], "running"}
    BY SMTT(30), <1>1, <1>3, <1>8 DEF Switched
  <2> QED BY SMTT(30), <1>1, <1>2, <1>4, <1>7, <2>1, IdleFrame DEF IdleLabel
<1>11. HolderInv' /\ LockExclusive'
  BY SMTT(30), <1>1, <1>2, <1>4, <1>7, LockFrame DEF Between, Holding
<1>12. TidInv'
  <2>1. \A u \in Thread : tid'[u] = IF u = t THEN 0 ELSE tid[u]
    BY SMTT(30), <1>1, <1>5
  <2>2. next_tid > 0 /\ (\A u \in Thread : tid[u] < next_tid) /\ UniqueTids
    BY SMTT(30), <1>2 DEF TidInv
  <2>3. \A u \in Thread : tid'[u] < next_tid'
    BY SMTT(30), <1>1, <1>5, <2>1, <2>2
  <2>4. UniqueTids'
    BY SMTT(30), <2>1, <2>2 DEF UniqueTids
  <2>5. \A u \in Thread : pc'[u] = "tid_write" => tmp'[u] = next_tid'
    BY <1>1, <1>2, <1>4, <1>7 DEF OnlyMoves, TidInv
  <2> QED BY SMTT(30), <1>1, <2>2, <2>3, <2>4, <2>5 DEF TidInv
<1> QED BY <1>6, <1>9, <1>10, <1>11, <1>12 DEF Inductive

-----------------------------------------------------------------------------
(* Steps that make a thread.                                               *)

\* thread_create() makes a blocked thread.
LEMMA thread_create_keeps ==
  ASSUME Inductive, NEW t \in Thread, NEW u \in Thread \ {idle}, thread_create(t, u)
  PROVE  Inductive'
<1> USE ThreadAssumption, SynchAssumption
<1>1. /\ running = t /\ pc[t] = "call" /\ status[u] = "free"
      /\ status' = [status EXCEPT ![u] = "blocked"]
      /\ all_list' = all_list \cup {u}
      /\ pc' = [pc EXCEPT ![t] = "sema_down"]
      /\ on' = [on EXCEPT ![t] = tid_lock]
      /\ new' = [new EXCEPT ![t] = u]
      /\ UNCHANGED <<ready_list, running, idle_thread, thread_ticks, value, waiters,
                     holder, cond_waiters, cv, tmp, tid_vars>>
  BY DEF thread_create, init_thread, At, Goto, synch_vars
<1>2. TypeOK /\ QueueInv /\ IdleInv /\ ArgInv /\ NewInv /\ HolderInv /\ LockExclusive /\ TidInv
  BY DEF Inductive
<1>3. /\ status \in [Thread -> Status] /\ pc \in [Thread -> Label]
      /\ on \in [Thread -> Sema \cup {NULL}] /\ new \in [Thread -> Thread \cup {NULL}]
      /\ waiters \in [Sema -> Seq(Thread)] /\ ready_list \in Seq(Thread)
  BY SMTT(30), <1>2 DEF TypeOK, SchedTypeOK
<1>4. /\ status' \in [Thread -> Status] /\ pc' \in [Thread -> Label]
      /\ on' \in [Thread -> Sema \cup {NULL}] /\ new' \in [Thread -> Thread \cup {NULL}]
  BY <1>1, <1>3 DEF Status, Label, Sema
<1>5. TypeOK'
  BY SMTT(30), <1>1, <1>2, <1>4 DEF TypeOK, SchedTypeOK, tid_vars
<1>6. OnlyMoves(t)
  BY <1>1, <1>2, <1>4 DEF OnlyMoves, TypeOK
<1>7. pc'[t] = "sema_down" /\ on'[t] = tid_lock /\ new'[t] = u
  BY <1>1, <1>3
<1>8. \A w \in Thread : status'[w] = IF w = u THEN "blocked" ELSE status[w]
  BY <1>1, <1>3
<1>9. status[t] = "running" /\ t # u
  BY <1>1, <1>2 DEF QueueInv, ReadyQueueExact
<1>10. QueueInv'
  <2>1. ReadyQueueExact'
    BY <1>1, <1>2, <1>8, <1>9 DEF QueueInv, ReadyQueueExact
  <2>2. ASSUME NEW s \in Sema, NEW w \in Range(waiters[s])
        PROVE  status'[w] = "blocked" /\ pc'[w] = "woken" /\ on'[w] = s
    <3>1. w \in Thread
      BY <1>3, MemberOf
    <3>2. status[w] = "blocked" /\ pc[w] = "woken" /\ on[w] = s
      BY <1>2 DEF QueueInv
    <3>3. w # t
      BY <3>2, <1>9
    <3> QED BY <3>1, <3>2, <3>3, <1>6, <1>8 DEF OnlyMoves
  <2> QED BY <1>1, <1>2, <2>1, <2>2 DEF QueueInv
<1>11. IdleInv'
  BY <1>1, <1>2, <1>6, <1>7, <1>8, IdleFrame DEF IdleLabel
<1>12. ArgInv'
  <2>1. ArgOK(t, pc'[t], on'[t], cv'[t])
    BY <1>7 DEF ArgOK
  <2> QED BY <1>2, <1>6, <2>1, ArgFrame
<1>13. NewInv'
  <2>1. \A w \in Thread : status'[w] = "free" => pc'[w] = "none"
    BY <1>2, <1>6, <1>8, <1>9 DEF NewInv, OnlyMoves
  <2>2. \A w \in Thread : on'[w] = tid_lock \/ pc'[w] = "thread_unblock" => new'[w] # NULL
    BY <1>2, <1>6, <1>7 DEF NewInv, OnlyMoves
  <2>3. ASSUME NEW w \in Thread \ {t}, new[w] # NULL
        PROVE  /\ new[w] \in Thread /\ new[w] # u /\ new[w] # t /\ new[w] # idle
               /\ status[new[w]] = "blocked" /\ pc[new[w]] = "none"
               /\ \A v \in Thread : new[v] = new[w] => v = w
    <3>1. /\ new[w] \in Thread /\ status[new[w]] = "blocked" /\ pc[new[w]] = "none"
          /\ new[w] # idle
          /\ \A v \in Thread : new[v] = new[w] => v = w
      BY <1>2, <1>3, <2>3 DEF NewInv
    <3> QED BY <3>1, <1>1, <1>9
  <2>4. pc[u] = "none"
    BY <1>1, <1>2 DEF NewInv
  <2>5. \A w \in Thread \ {t} : new'[w] = new[w] /\ pc'[w] = pc[w]
    BY <1>6 DEF OnlyMoves
  <2>6. ASSUME NEW w \in Thread, new'[w] # NULL
        PROVE  /\ status'[new'[w]] = "blocked" /\ pc'[new'[w]] = "none"
               /\ new'[w] # idle
               /\ \A v \in Thread : new'[v] = new'[w] => v = w
    <3>1. CASE w = t
      BY SMTT(30), <3>1, <1>7, <1>8, <1>9, <2>3, <2>4, <2>5
    <3>2. CASE w # t
      <4>1. new'[w] = new[w] /\ new[w] # NULL
        BY <3>2, <2>5, <2>6
      <4> QED BY SMTT(30), <3>2, <4>1, <1>7, <1>8, <2>3, <2>5
    <3> QED BY <3>1, <3>2
  <2> QED BY <2>1, <2>2, <2>6 DEF NewInv
<1>14. HolderInv' /\ LockExclusive'
  BY <1>1, <1>2, <1>6, <1>7, LockFrame DEF Between, Holding
<1>15. TidInv'
  BY <1>1, <1>2, <1>6, <1>7, TidFrame
<1> QED BY SMTT(30), <1>5, <1>10, <1>11, <1>12, <1>13, <1>14, <1>15 DEF Inductive

\* thread_create() puts the new thread on the run queue.
LEMMA thread_create_unblock_keeps ==
  ASSUME Inductive, NEW t \in Thread, thread_create_unblock(t)
  PROVE  Inductive'
<1> USE ThreadAssumption, SynchAssumption
<1> DEFINE u == new[t]
<1>1. /\ running = t /\ pc[t] = "thread_unblock"
      /\ thread_unblock(u)
      /\ pc' = [pc EXCEPT ![t] = "call", ![u] = "call"]
      /\ new' = [new EXCEPT ![t] = NULL]
      /\ UNCHANGED <<all_list, running, idle_thread, thread_ticks, value, waiters,
                     holder, cond_waiters, on, cv, tmp, tid_vars>>
  BY DEF thread_create_unblock, At, synch_vars
<1>2. TypeOK /\ QueueInv /\ IdleInv /\ ArgInv /\ NewInv /\ HolderInv /\ LockExclusive /\ TidInv
  BY DEF Inductive
<1>3. /\ status \in [Thread -> Status] /\ pc \in [Thread -> Label] /\ idle_thread \in {NULL, idle}
      /\ new \in [Thread -> Thread \cup {NULL}] /\ waiters \in [Sema -> Seq(Thread)]
  BY <1>2 DEF TypeOK, SchedTypeOK
<1>4. /\ u \in Thread /\ status[u] = "blocked" /\ pc[u] = "none" /\ u # idle
      /\ \A w \in Thread : new[w] = u => w = t
  BY <1>1, <1>2, <1>3 DEF NewInv
<1>5. status[t] = "running" /\ u # t
  BY <1>1, <1>2, <1>4 DEF QueueInv, ReadyQueueExact
<1>6. on[t] # tid_lock
  BY <1>1, <1>2 DEF ArgInv, ArgOK
<1> HIDE DEF u
<1>7. /\ status' = [status EXCEPT ![u] = "ready"]
      /\ status' \in [Thread -> Status] /\ ready_list' \in Seq(Thread)
      /\ IsInjective(ready_list') /\ ReadyQueueExact'
  BY <1>1, <1>2, <1>3, <1>4, UnblockEffect
<1>8. pc' \in [Thread -> Label] /\ new' \in [Thread -> Thread \cup {NULL}]
  BY <1>1, <1>3, <1>4 DEF Label
<1>9. TypeOK'
  BY ZenonT(60), <1>1, <1>2, <1>7, <1>8 DEF TypeOK, SchedTypeOK, tid_vars
<1>10. /\ \A w \in Thread : status'[w] = IF w = u THEN "ready" ELSE status[w]
       /\ \A w \in Thread : pc'[w] = IF w = u \/ w = t THEN "call" ELSE pc[w]
       /\ \A w \in Thread : new'[w] = IF w = t THEN NULL ELSE new[w]
  BY <1>1, <1>3, <1>4, <1>7
<1>11. QueueInv'
  <2>1. ASSUME NEW s \in Sema, NEW w \in Range(waiters[s])
        PROVE  status'[w] = "blocked" /\ pc'[w] = "woken" /\ on'[w] = s
    <3>1. w \in Thread
      BY <1>3, MemberOf
    <3>2. status[w] = "blocked" /\ pc[w] = "woken" /\ on[w] = s
      BY <1>2 DEF QueueInv
    <3> QED BY ZenonT(60), <3>1, <3>2, <1>1, <1>4, <1>5, <1>10
  <2> QED BY ZenonT(60), <1>1, <1>2, <1>7, <2>1 DEF QueueInv
<1>12. IdleInv'
  <2>1. t # idle /\ \A w \in Thread : pc[w] # "boot"
    BY <1>1, <1>2 DEF IdleInv, IdleLabel
  <2>2. pc'[idle] = pc[idle] /\ status'[idle] = status[idle]
    BY <1>4, <1>10, <2>1
  <2>3. \A w \in Thread : pc'[w] = "call" \/ pc'[w] = pc[w]
    BY <1>10
  <2> QED BY ZenonT(60), <1>1, <1>2, <2>1, <2>2, <2>3 DEF IdleInv, IdleLabel
<1>13. ArgInv'
  <2>1. \A w \in Thread : ArgOK(w, pc'[w], on'[w], cv'[w])
    <3> SUFFICES ASSUME NEW w \in Thread PROVE ArgOK(w, pc'[w], on'[w], cv'[w])
      OBVIOUS
    <3>1. CASE pc'[w] = "call"
      BY <3>1 DEF ArgOK
    <3>2. CASE pc'[w] = pc[w]
      BY <3>2, <1>1, <1>2 DEF ArgInv
    <3> QED BY <3>1, <3>2, <1>10
  <2> QED BY <2>1 DEF ArgInv
<1>14. NewInv'
  <2>1. \A w \in Thread : status'[w] = "free" => pc'[w] = "none"
    BY SMTT(30), <1>2, <1>5, <1>10 DEF NewInv
  <2>2. \A w \in Thread : on'[w] = tid_lock \/ pc'[w] = "thread_unblock" => new'[w] # NULL
    BY SMTT(30), <1>1, <1>2, <1>6, <1>10 DEF NewInv
  <2>3. ASSUME NEW w \in Thread, new'[w] # NULL
        PROVE  /\ status'[new'[w]] = "blocked" /\ pc'[new'[w]] = "none"
               /\ new'[w] # idle
               /\ \A v \in Thread : new'[v] = new'[w] => v = w
    <3>1. w # t /\ new'[w] = new[w] /\ new[w] # NULL
      BY <1>10, <2>3
    <3>2. /\ new[w] \in Thread /\ status[new[w]] = "blocked" /\ pc[new[w]] = "none"
          /\ new[w] # idle
          /\ \A v \in Thread : new[v] = new[w] => v = w
      BY SMTT(30), <1>2, <1>3, <3>1 DEF NewInv
    <3>3. new[w] # u /\ new[w] # t
      BY <1>4, <1>5, <3>1, <3>2
    <3> QED BY <3>1, <3>2, <3>3, <1>10
  <2> QED BY <2>1, <2>2, <2>3 DEF NewInv
<1>15. HolderInv' /\ LockExclusive'
  <2>1. \A w \in Thread :
          \/ pc'[w] = pc[w] /\ on'[w] = on[w]
          \/ pc[w] \notin Between \cup Holding /\ pc'[w] \notin Between \cup Holding
    <3> SUFFICES ASSUME NEW w \in Thread
                 PROVE  \/ pc'[w] = pc[w] /\ on'[w] = on[w]
                        \/ pc[w] \notin Between \cup Holding /\ pc'[w] \notin Between \cup Holding
      OBVIOUS
    <3>1. CASE w = u \/ w = t
      <4>1. pc[w] \in {"none", "thread_unblock"} /\ pc'[w] = "call"
        BY ZenonT(60), <3>1, <1>1, <1>4, <1>10
      <4> QED BY <4>1 DEF Between, Holding
    <3>2. CASE w # u /\ w # t
      BY ZenonT(60), <3>2, <1>1, <1>10
    <3> QED BY <3>1, <3>2
  <2> QED BY ZenonT(60), <1>1, <1>2, <2>1, LockStill
<1>16. TidInv'
  <2>1. \A w \in Thread : pc'[w] = "tid_write" => pc[w] = "tid_write"
    BY <1>10
  <2>2. UNCHANGED <<tmp, next_tid, tid>>
    BY <1>1 DEF tid_vars
  <2> QED BY SMTT(30), <1>2, <2>1, <2>2 DEF TidInv, UniqueTids
<1> QED BY SMTT(30), <1>9, <1>11, <1>12, <1>13, <1>14, <1>15, <1>16 DEF Inductive

=============================================================================
