----------------------------- MODULE SynchLocal -----------------------------
(***************************************************************************)
(* The steps inside calls of locks, condition variables and allocate_tid(), *)
(* and those that take a unit of a semaphore or up one, keep the inductive *)
(* invariant of Synch: one lemma per action.                               *)
(***************************************************************************)
EXTENDS SynchLocks

-----------------------------------------------------------------------------
(* Steps of locks, of condition variables and of allocate_tid().           *)

\* lock_acquire() and lock_try_acquire() set the holder.
LEMMA set_holder_keeps ==
  ASSUME Inductive, NEW t \in Thread, set_holder(t)
  PROVE  Inductive'
<1> USE ThreadAssumption, SynchAssumption
<1>1. /\ running = t /\ pc[t] = "set_holder"
      /\ holder' = [holder EXCEPT ![on[t]] = t]
      /\ \/ on[t] = tid_lock /\ pc' = [pc EXCEPT ![t] = "tid_read"] /\ on' = on
         \/ on[t] # tid_lock /\ pc' = [pc EXCEPT ![t] = "call"] /\ on' = [on EXCEPT ![t] = NULL]
      /\ UNCHANGED <<sched_vars, value, waiters, cond_waiters, cv, new, tmp, tid_vars>>
  BY DEF set_holder, At, Goto, synch_vars, call_vars
<1>2. TypeOK /\ ArgInv /\ NewInv /\ HolderInv /\ LockExclusive /\ TidInv
  BY DEF Inductive
<1>3. TypeOK'
  <2>10. CASE on[t] = tid_lock
    BY ZenonT(60), <1>1, <1>2, <2>10 DEF TypeOK, SchedTypeOK, sched_vars, tid_vars, Sema, Label
  <2>11. CASE on[t] # tid_lock
    BY ZenonT(60), <1>1, <1>2, <2>11 DEF TypeOK, SchedTypeOK, sched_vars, tid_vars, Sema, Label
  <2> QED BY <1>1, <2>10, <2>11
<1>4. OnlyMoves(t)
  <2>1. CASE on[t] = tid_lock
    BY SMTT(30), <1>1, <1>2, <1>3, <2>1 DEF OnlyMoves, TypeOK
  <2>2. CASE on[t] # tid_lock
    BY SMTT(30), <1>1, <1>2, <1>3, <2>2 DEF OnlyMoves, TypeOK
  <2> QED BY <1>1, <2>1, <2>2
<1>5. LocalStep(t)
  BY SMTT(30), <1>1, <1>2 DEF LocalStep, TypeOK, IdleLabel, sched_vars
<1>6. ArgsFit(t)
  <2>1. CASE on[t] = tid_lock
    BY SMTT(30), <1>1, <1>2, <2>1 DEF ArgsFit, ArgOK, ArgInv, NewInv, TypeOK, Sema
  <2>2. CASE on[t] # tid_lock
    BY SMTT(30), <1>1, <1>2, <2>2 DEF ArgsFit, ArgOK, ArgInv, NewInv, TypeOK, Sema
  <2> QED BY <1>1, <2>1, <2>2
<1>7. HolderInv' /\ LockExclusive'
  <2>1. /\ on[t] \in Lock /\ pc'[t] \notin Between
        /\ pc'[t] \in Holding => on'[t] = on[t]
    BY SMTT(30), <1>1, <1>2 DEF TypeOK, Between, Holding, ArgInv, ArgOK
  <2> QED BY ZenonT(60), <1>1, <1>2, <1>4, <2>1, BecomeHolder
<1> QED BY SMTT(30), <1>3, <1>4, <1>5, <1>6, <1>7, LocalKeeps

\* lock_release() clears the holder.
LEMMA lock_release_keeps ==
  ASSUME Inductive, NEW t \in Thread, NEW l \in Lock \ {tid_lock}, lock_release(t, l)
  PROVE  Inductive'
<1> USE ThreadAssumption, SynchAssumption
<1>1. /\ running = t /\ pc[t] = "call" /\ holder[l] = t
      /\ holder' = [holder EXCEPT ![l] = NULL]
      /\ pc' = [pc EXCEPT ![t] = "sema_up"]
      /\ on' = [on EXCEPT ![t] = l]
      /\ UNCHANGED <<sched_vars, value, waiters, cond_waiters, cv, new, tmp, tid_vars>>
  BY DEF lock_release, At, Goto, synch_vars, call_vars
<1>2. TypeOK /\ ArgInv /\ NewInv /\ HolderInv /\ LockExclusive /\ TidInv
  BY DEF Inductive
<1>3. TypeOK'
  BY ZenonT(60), <1>1, <1>2 DEF TypeOK, SchedTypeOK, sched_vars, tid_vars, Sema, Label
<1>4. OnlyMoves(t)
  BY SMTT(30), <1>1, <1>2, <1>3 DEF OnlyMoves, TypeOK
<1>5. LocalStep(t)
  BY SMTT(30), <1>1, <1>2 DEF LocalStep, TypeOK, IdleLabel, sched_vars
<1>6. ArgsFit(t)
  BY <1>1, <1>2 DEF ArgsFit, ArgOK, ArgInv, NewInv, TypeOK, Sema
<1>7. HolderInv' /\ LockExclusive'
  <2>1. pc[t] \notin Between /\ pc'[t] \in Between /\ on'[t] = l
    BY SMTT(30), <1>1, <1>2 DEF TypeOK, Between
  <2> QED BY ZenonT(60), <1>1, <1>2, <1>4, <2>1, ClearHolder
<1> QED BY <1>3, <1>4, <1>5, <1>6, <1>7, LocalKeeps

\* lock_release() inside cond_wait() and allocate_tid() clears the holder.
LEMMA clear_holder_keeps ==
  ASSUME Inductive, NEW t \in Thread, clear_holder(t)
  PROVE  Inductive'
<1> USE ThreadAssumption, SynchAssumption
<1>1. /\ running = t
      /\ \/ pc[t] = "wait_release" /\ pc' = [pc EXCEPT ![t] = "wait_up"]
         \/ pc[t] = "tid_release" /\ pc' = [pc EXCEPT ![t] = "tid_up"]
      /\ holder' = [holder EXCEPT ![on[t]] = NULL]
      /\ UNCHANGED <<sched_vars, value, waiters, cond_waiters, on, cv, new, tmp, tid_vars>>
  BY ZenonT(60) DEF clear_holder, At, Goto, synch_vars, call_vars
<1>2. TypeOK /\ ArgInv /\ NewInv /\ HolderInv /\ LockExclusive /\ TidInv
  BY DEF Inductive
<1>3. TypeOK'
  <2>10. CASE pc[t] = "wait_release"
    BY ZenonT(60), <1>1, <1>2, <2>10 DEF TypeOK, SchedTypeOK, sched_vars, tid_vars, Sema, Label
  <2>11. CASE pc[t] = "tid_release"
    BY ZenonT(60), <1>1, <1>2, <2>11 DEF TypeOK, SchedTypeOK, sched_vars, tid_vars, Sema, Label
  <2> QED BY <1>1, <2>10, <2>11
<1>4. OnlyMoves(t)
  <2>1. CASE pc[t] = "wait_release"
    BY SMTT(30), <1>1, <1>2, <1>3, <2>1 DEF OnlyMoves, TypeOK
  <2>2. CASE pc[t] = "tid_release"
    BY SMTT(30), <1>1, <1>2, <1>3, <2>2 DEF OnlyMoves, TypeOK
  <2> QED BY SMTT(30), <1>1, <2>1, <2>2
<1>5. LocalStep(t)
  BY SMTT(30), <1>1, <1>2 DEF LocalStep, TypeOK, IdleLabel, sched_vars
<1>6. ArgsFit(t)
  <2>1. CASE pc[t] = "wait_release"
    BY SMTT(30), <1>1, <1>2, <2>1 DEF ArgsFit, ArgOK, ArgInv, NewInv, TypeOK, Sema
  <2>2. CASE pc[t] = "tid_release"
    BY <1>1, <1>2, <2>2 DEF ArgsFit, ArgOK, ArgInv, NewInv, TypeOK, Sema
  <2> QED BY <1>1, <2>1, <2>2
<1>7. HolderInv' /\ LockExclusive'
  <2>1. /\ on[t] \in Lock /\ holder[on[t]] = t /\ on'[t] = on[t]
        /\ pc[t] \notin Between /\ pc'[t] \in Between
    BY SMTT(30), <1>1, <1>2 DEF TypeOK, Between, Holding, ArgInv, ArgOK, HolderInv
  <2> QED BY ZenonT(60), <1>1, <1>2, <1>4, <2>1, ClearHolder
<1> QED BY <1>3, <1>4, <1>5, <1>6, <1>7, LocalKeeps

\* cond_wait() queues its caller.
LEMMA cond_wait_keeps ==
  ASSUME Inductive, NEW t \in Thread, NEW c \in Condition, cond_wait(t, c)
  PROVE  Inductive'
<1> USE ThreadAssumption, SynchAssumption
<1>1. /\ running = t /\ pc[t] = "call" /\ holder[LockOf[c]] = t
      /\ value' = [value EXCEPT ![t] = 0]
      /\ waiters' = [waiters EXCEPT ![t] = <<>>]
      /\ cond_waiters' = [cond_waiters EXCEPT ![c] = Append(@, t)]
      /\ pc' = [pc EXCEPT ![t] = "wait_release"]
      /\ on' = [on EXCEPT ![t] = LockOf[c]]
      /\ cv' = [cv EXCEPT ![t] = c]
      /\ UNCHANGED <<sched_vars, holder, new, tmp, tid_vars>>
  BY DEF cond_wait, At, Goto, synch_vars, call_vars
<1>2. TypeOK /\ ArgInv /\ NewInv /\ HolderInv /\ LockExclusive /\ TidInv
  BY DEF Inductive
<1>a. /\ LockOf[c] \in Lock \ {tid_lock} /\ LockOf[c] \in Sema /\ t \in Sema
      /\ cond_waiters[c] \in Seq(Thread)
  BY <1>2 DEF TypeOK, Sema
<1>b. Append(cond_waiters[c], t) \in Seq(Thread)
  BY <1>a, AppendMembers
<1>c. <<>> \in Seq(Thread)
  BY EmptyMembers
<1>3. TypeOK'
  BY ZenonT(60), <1>1, <1>2, <1>a, <1>b, <1>c DEF TypeOK, SchedTypeOK, sched_vars, tid_vars, Sema, Label
<1>4. OnlyMoves(t)
  BY SMTT(30), <1>1, <1>2, <1>3, <1>a, <1>b, <1>c DEF OnlyMoves, TypeOK
<1>5. LocalStep(t)
  BY <1>1, <1>2, <1>a, <1>b, <1>c DEF LocalStep, TypeOK, IdleLabel, sched_vars
<1>6. ArgsFit(t)
  BY SMTT(30), <1>1, <1>2, <1>a, <1>b, <1>c DEF ArgsFit, ArgOK, ArgInv, NewInv, TypeOK, Sema
<1>7. HolderInv' /\ LockExclusive'
  <2>1. /\ pc[t] \notin Between /\ pc'[t] \notin Between
        /\ pc'[t] \in Holding => holder[on'[t]] = t
        /\ \A r \in Lock : value'[r] = value[r]
    BY SMTT(30), <1>1, <1>2 DEF TypeOK, Between, Holding, Sema
  <2> QED BY SMTT(30), <1>1, <1>2, <1>4, <2>1, LockFrame
<1> QED BY SMTT(30), <1>3, <1>4, <1>5, <1>6, <1>7, LocalKeeps

\* cond_signal() takes a waiter off the list.
LEMMA cond_signal_keeps ==
  ASSUME Inductive, NEW t \in Thread, NEW c \in Condition, cond_signal(t, c)
  PROVE  Inductive'
<1> USE ThreadAssumption, SynchAssumption
<1>1. /\ running = t /\ pc[t] = "call" /\ cond_waiters[c] # <<>>
      /\ cond_waiters' = [cond_waiters EXCEPT ![c] = Tail(@)]
      /\ on' = [on EXCEPT ![t] = Head(cond_waiters[c])]
      /\ pc' = [pc EXCEPT ![t] = "signal_up"]
      /\ UNCHANGED <<sched_vars, value, waiters, holder, cv, new, tmp, tid_vars>>
  BY DEF cond_signal, At, Goto, synch_vars, call_vars, pop_waiter
<1>2. TypeOK /\ ArgInv /\ NewInv /\ HolderInv /\ LockExclusive /\ TidInv
  BY DEF Inductive
<1>b. cond_waiters[c] \in Seq(Thread)
  BY <1>2 DEF TypeOK
<1>a. /\ Head(cond_waiters[c]) \in Thread /\ Head(cond_waiters[c]) \in Sema
      /\ Head(cond_waiters[c]) # tid_lock
      /\ Tail(cond_waiters[c]) \in Seq(Thread)
  BY <1>1, <1>b, TailMembers DEF Sema
<1>3. TypeOK'
  BY ZenonT(60), <1>1, <1>2, <1>a DEF TypeOK, SchedTypeOK, sched_vars, tid_vars, Sema, Label
<1>4. OnlyMoves(t)
  BY ZenonT(60), <1>1, <1>2, <1>3, <1>a DEF OnlyMoves, TypeOK
<1>5. LocalStep(t)
  BY <1>1, <1>2, <1>a DEF LocalStep, TypeOK, IdleLabel, sched_vars
<1>6. ArgsFit(t)
  <2>1. pc'[t] = "signal_up" /\ cv'[t] = cv[t] /\ on'[t] \in Thread /\ on'[t] # tid_lock
    BY <1>1, <1>2, <1>a DEF TypeOK
  <2> QED BY <2>1 DEF ArgsFit, ArgOK
<1>7. HolderInv' /\ LockExclusive'
  <2>1. /\ pc[t] \notin Between /\ pc'[t] \notin Between
        /\ pc'[t] \in Holding => holder[on'[t]] = t
        /\ \A r \in Lock : value'[r] = value[r]
    BY SMTT(30), <1>1, <1>2 DEF TypeOK, Between, Holding, Sema
  <2> QED BY <1>1, <1>2, <1>4, <2>1, LockFrame
<1> QED BY <1>3, <1>4, <1>5, <1>6, <1>7, LocalKeeps

\* A call of cond_broadcast() begins.
LEMMA cond_broadcast_keeps ==
  ASSUME Inductive, NEW t \in Thread, NEW c \in Condition, cond_broadcast(t, c)
  PROVE  Inductive'
<1> USE ThreadAssumption, SynchAssumption
<1>1. /\ running = t /\ pc[t] = "call"
      /\ pc' = [pc EXCEPT ![t] = "broadcast"]
      /\ cv' = [cv EXCEPT ![t] = c]
      /\ UNCHANGED <<sched_vars, value, waiters, holder, cond_waiters, on, new, tmp, tid_vars>>
  BY DEF cond_broadcast, At, Goto, synch_vars, call_vars
<1>2. TypeOK /\ ArgInv /\ NewInv /\ HolderInv /\ LockExclusive /\ TidInv
  BY DEF Inductive
<1>3. TypeOK'
  BY ZenonT(60), <1>1, <1>2 DEF TypeOK, SchedTypeOK, sched_vars, tid_vars, Sema, Label
<1>4. OnlyMoves(t)
  BY SMTT(30), <1>1, <1>2, <1>3 DEF OnlyMoves, TypeOK
<1>5. LocalStep(t)
  BY <1>1, <1>2 DEF LocalStep, TypeOK, IdleLabel, sched_vars
<1>6. ArgsFit(t)
  BY <1>1, <1>2 DEF ArgsFit, ArgOK, ArgInv, NewInv, TypeOK, Sema
<1>7. HolderInv' /\ LockExclusive'
  <2>1. /\ pc[t] \notin Between /\ pc'[t] \notin Between
        /\ pc'[t] \in Holding => holder[on'[t]] = t
        /\ \A r \in Lock : value'[r] = value[r]
    BY <1>1, <1>2 DEF TypeOK, Between, Holding, Sema
  <2> QED BY <1>1, <1>2, <1>4, <2>1, LockFrame
<1> QED BY <1>3, <1>4, <1>5, <1>6, <1>7, LocalKeeps

\* cond_broadcast() takes a waiter off the list.
LEMMA cond_broadcast_pop_keeps ==
  ASSUME Inductive, NEW t \in Thread, cond_broadcast_next(t),
         cond_waiters[cv[t]] # <<>>
  PROVE  Inductive'
<1> USE ThreadAssumption, SynchAssumption
<1>1. /\ running = t /\ pc[t] = "broadcast"
      /\ cond_waiters' = [cond_waiters EXCEPT ![cv[t]] = Tail(@)]
      /\ on' = [on EXCEPT ![t] = Head(cond_waiters[cv[t]])]
      /\ pc' = [pc EXCEPT ![t] = "broadcast_up"]
      /\ UNCHANGED <<sched_vars, value, waiters, holder, cv, new, tmp, tid_vars>>
  BY DEF cond_broadcast_next, At, Goto, synch_vars, call_vars, pop_waiter
<1>2. TypeOK /\ ArgInv /\ NewInv /\ HolderInv /\ LockExclusive /\ TidInv
  BY DEF Inductive
<1>b. cv[t] \in Condition /\ cond_waiters[cv[t]] \in Seq(Thread)
  BY SMTT(30), <1>1, <1>2 DEF ArgInv, ArgOK, TypeOK
<1>a. /\ Head(cond_waiters[cv[t]]) \in Thread /\ Head(cond_waiters[cv[t]]) \in Sema
      /\ Head(cond_waiters[cv[t]]) # tid_lock
      /\ Tail(cond_waiters[cv[t]]) \in Seq(Thread)
  BY <1>b, TailMembers DEF Sema
<1>3. TypeOK'
  BY ZenonT(60), <1>1, <1>2, <1>a, <1>b DEF TypeOK, SchedTypeOK, sched_vars, tid_vars, Sema, Label
<1>4. OnlyMoves(t)
  BY ZenonT(60), <1>1, <1>2, <1>3, <1>a, <1>b DEF OnlyMoves, TypeOK
<1>5. LocalStep(t)
  BY SMTT(30), <1>1, <1>2, <1>a, <1>b DEF LocalStep, TypeOK, IdleLabel, sched_vars
<1>6. ArgsFit(t)
  <2>1. pc'[t] = "broadcast_up" /\ cv'[t] = cv[t] /\ on'[t] \in Thread /\ on'[t] # tid_lock
    BY SMTT(30), <1>1, <1>2, <1>a, <1>b DEF TypeOK
  <2> QED BY <1>b, <2>1 DEF ArgsFit, ArgOK
<1>7. HolderInv' /\ LockExclusive'
  <2>1. /\ pc[t] \notin Between /\ pc'[t] \notin Between
        /\ pc'[t] \in Holding => holder[on'[t]] = t
        /\ \A r \in Lock : value'[r] = value[r]
    BY SMTT(30), <1>1, <1>2 DEF TypeOK, Between, Holding, Sema
  <2> QED BY SMTT(30), <1>1, <1>2, <1>4, <2>1, LockFrame
<1> QED BY SMTT(30), <1>3, <1>4, <1>5, <1>6, <1>7, LocalKeeps

\* cond_broadcast() finds the list empty and ends.
LEMMA cond_broadcast_end_keeps ==
  ASSUME Inductive, NEW t \in Thread, cond_broadcast_next(t),
         cond_waiters[cv[t]] = <<>>
  PROVE  Inductive'
<1> USE ThreadAssumption, SynchAssumption
<1>1. /\ running = t /\ pc[t] = "broadcast"
      /\ pc' = [pc EXCEPT ![t] = "call"]
      /\ cv' = [cv EXCEPT ![t] = NULL]
      /\ UNCHANGED <<sched_vars, value, waiters, holder, cond_waiters, on, new, tmp, tid_vars>>
  BY DEF cond_broadcast_next, At, Goto, synch_vars, call_vars, pop_waiter
<1>2. TypeOK /\ ArgInv /\ NewInv /\ HolderInv /\ LockExclusive /\ TidInv
  BY DEF Inductive
<1>3. TypeOK'
  BY ZenonT(60), <1>1, <1>2 DEF TypeOK, SchedTypeOK, sched_vars, tid_vars, Sema, Label
<1>4. OnlyMoves(t)
  BY <1>1, <1>2, <1>3 DEF OnlyMoves, TypeOK
<1>5. LocalStep(t)
  BY SMTT(30), <1>1, <1>2 DEF LocalStep, TypeOK, IdleLabel, sched_vars
<1>6. ArgsFit(t)
  BY SMTT(30), <1>1, <1>2 DEF ArgsFit, ArgOK, ArgInv, NewInv, TypeOK, Sema
<1>7. HolderInv' /\ LockExclusive'
  <2>1. /\ pc[t] \notin Between /\ pc'[t] \notin Between
        /\ pc'[t] \in Holding => holder[on'[t]] = t
        /\ \A r \in Lock : value'[r] = value[r]
    BY SMTT(30), <1>1, <1>2 DEF TypeOK, Between, Holding, Sema
  <2> QED BY SMTT(30), <1>1, <1>2, <1>4, <2>1, LockFrame
<1> QED BY SMTT(30), <1>3, <1>4, <1>5, <1>6, <1>7, LocalKeeps

-----------------------------------------------------------------------------
(* Steps of allocate_tid(), and the ends of sema_down().                   *)

\* allocate_tid() reads next_tid.
LEMMA allocate_tid_read_keeps ==
  ASSUME Inductive, NEW t \in Thread, allocate_tid_read(t)
  PROVE  Inductive'
<1> USE ThreadAssumption, SynchAssumption
<1>1. /\ running = t /\ pc[t] = "tid_read"
      /\ tmp' = [tmp EXCEPT ![t] = next_tid]
      /\ pc' = [pc EXCEPT ![t] = "tid_write"]
      /\ UNCHANGED <<sched_vars, value, waiters, holder, cond_waiters, on, cv, new, tid_vars>>
  BY DEF allocate_tid_read, At, Goto, synch_vars, call_vars
<1>2. TypeOK /\ ArgInv /\ NewInv /\ HolderInv /\ LockExclusive /\ TidInv
  BY DEF Inductive
<1>3. TypeOK'
  BY ZenonT(60), <1>1, <1>2 DEF TypeOK, SchedTypeOK, sched_vars, tid_vars, Sema, Label
<1>4. OnlyMoves(t)
  BY SMTT(30), <1>1, <1>2, <1>3 DEF OnlyMoves, TypeOK
<1>5. LocalStep(t)
  BY SMTT(30), <1>1, <1>2 DEF LocalStep, TypeOK, IdleLabel, sched_vars
<1>6. ArgsFit(t)
  BY SMTT(30), <1>1, <1>2 DEF ArgsFit, ArgOK, ArgInv, NewInv, TypeOK, Sema
<1>7. HolderInv' /\ LockExclusive'
  <2>1. /\ pc[t] \notin Between /\ pc'[t] \notin Between
        /\ pc'[t] \in Holding => holder[on'[t]] = t
        /\ \A r \in Lock : value'[r] = value[r]
    BY SMTT(30), <1>1, <1>2 DEF TypeOK, Between, Holding, Sema, HolderInv
  <2> QED BY SMTT(30), <1>1, <1>2, <1>4, <2>1, LockFrame
<1> QED BY <1>3, <1>4, <1>5, <1>6, <1>7, LocalKeeps

\* allocate_tid() writes next_tid and the new thread gets its identifier.
LEMMA allocate_tid_write_keeps ==
  ASSUME Inductive, NEW t \in Thread, allocate_tid_write(t)
  PROVE  Inductive'
<1> USE ThreadAssumption, SynchAssumption
<1>1. /\ running = t /\ pc[t] = "tid_write"
      /\ next_tid' = tmp[t] + 1
      /\ tid' = [tid EXCEPT ![new[t]] = tmp[t]]
      /\ tmp' = [tmp EXCEPT ![t] = 0]
      /\ pc' = [pc EXCEPT ![t] = "tid_release"]
      /\ UNCHANGED <<sched_vars, value, waiters, holder, cond_waiters, on, cv, new>>
  BY DEF allocate_tid_write, At, Goto, synch_vars, call_vars
<1>2. TypeOK /\ ArgInv /\ NewInv /\ HolderInv /\ LockExclusive /\ TidInv
  BY DEF Inductive
<1>a. on[t] = tid_lock /\ new[t] \in Thread /\ tmp[t] \in Nat
  BY SMTT(30), <1>1, <1>2 DEF TypeOK, ArgInv, ArgOK, NewInv
<1>c. next_tid' \in Nat /\ tid' \in [Thread -> Nat] /\ tmp' \in [Thread -> Nat]
  <2>1. tid \in [Thread -> Nat] /\ tmp \in [Thread -> Nat]
    BY <1>2 DEF TypeOK
  <2> QED BY <1>1, <1>a, <2>1
<1>3. TypeOK'
  BY ZenonT(60), <1>1, <1>2, <1>a, <1>c DEF TypeOK, SchedTypeOK, sched_vars, tid_vars, Sema, Label
<1>4. OnlyMoves(t)
  BY SMTT(30), <1>1, <1>2, <1>3 DEF OnlyMoves, TypeOK
<1>5. ArgOK(t, pc'[t], on'[t], cv'[t])
  BY SMTT(30), <1>1, <1>2, <1>a, <1>c DEF ArgOK, ArgInv, TypeOK, Sema
<1>6. QueueInv' /\ IdleInv' /\ ArgInv' /\ NewInv'
  <2>1. on'[t] = tid_lock \/ pc'[t] = "thread_unblock" => new[t] # NULL
    BY SMTT(30), <1>1, <1>2, <1>a, <1>c DEF NewInv, TypeOK, Sema
  <2>2. /\ pc[t] \notin IdleLabel \cup {"none", "boot"}
        /\ pc'[t] \notin IdleLabel \cup {"boot"}
        /\ new'[t] = new[t]
        /\ \A s \in Sema : waiters'[s] = waiters[s] \/ waiters'[s] = <<>>
    BY SMTT(30), <1>1, <1>2, <1>a, <1>c DEF TypeOK, IdleLabel
  <2> QED BY SMTT(30), <1>1, <1>4, <1>5, <2>1, <2>2, LocalFrame DEF sched_vars
<1>7. HolderInv' /\ LockExclusive'
  <2>1. /\ pc[t] \notin Between /\ pc'[t] \notin Between
        /\ pc'[t] \in Holding => holder[on'[t]] = t
        /\ \A r \in Lock : value'[r] = value[r]
    BY SMTT(30), <1>1, <1>2 DEF TypeOK, Between, Holding, Sema, HolderInv
  <2> QED BY SMTT(30), <1>1, <1>2, <1>4, <2>1, LockFrame
<1>8. TidInv'
  <2>1. tmp[t] = next_tid /\ next_tid \in Nat /\ tid \in [Thread -> Nat]
    BY <1>1, <1>2 DEF TidInv, TypeOK
  <2>2. ASSUME NEW u \in Thread PROVE pc'[u] # "tid_write"
    <3>1. CASE u = t
      BY SMTT(30), <3>1, <1>1, <1>2 DEF TypeOK
    <3>2. CASE u # t
      <4>1. holder[tid_lock] = t
        BY SMTT(30), <1>1, <1>2, <1>a DEF HolderInv, Holding
      <4>2. pc[u] = "tid_write" => holder[tid_lock] = u
        BY <1>2 DEF HolderInv, Holding, ArgInv, ArgOK
      <4> QED BY SMTT(30), <3>2, <4>1, <4>2, <1>4 DEF OnlyMoves
    <3> QED BY <3>1, <3>2
  <2>3. \A u \in Thread : tid[u] < next_tid
    BY <1>2 DEF TidInv
  <2>4. \A u \in Thread : tid'[u] = IF u = new[t] THEN next_tid ELSE tid[u]
    BY SMTT(30), <1>1, <1>a, <2>1
  <2>5. next_tid' = next_tid + 1
    BY <1>1, <2>1
  <2>6. \A u \in Thread : tid'[u] < next_tid'
    BY SMTT(30), <2>1, <2>3, <2>4, <2>5
  <2>7. UniqueTids'
    <3>1. \A u \in Thread : tid[u] \in Nat /\ tid[u] # next_tid
      <4> SUFFICES ASSUME NEW u \in Thread PROVE tid[u] \in Nat /\ tid[u] # next_tid
        BY ZenonT(60)
      <4>1. tid[u] \in Nat /\ tid[u] < next_tid
        BY <2>1, <2>3
      <4> QED BY <4>1, <2>1
    <3>2. UniqueTids
      BY <1>2 DEF TidInv
    <3> QED BY <3>1, <3>2, <2>4 DEF UniqueTids
  <2>8. next_tid' > 0
    BY <2>1, <2>5
  <2> QED BY <2>2, <2>6, <2>7, <2>8 DEF TidInv
<1> QED BY <1>3, <1>6, <1>7, <1>8 DEF Inductive

\* sema_down() of a shared semaphore returns to its caller.
LEMMA take_semaphore_keeps ==
  ASSUME Inductive, NEW t \in Thread, sema_down_take(t), on[t] \in Semaphore
  PROVE  Inductive'
<1> USE ThreadAssumption, SynchAssumption
<1>1. /\ running = t /\ pc[t] \in {"sema_down", "woken"}
      /\ value[on[t]] > 0 /\ value' = [value EXCEPT ![on[t]] = @ - 1]
      /\ pc' = [pc EXCEPT ![t] = "call"]
      /\ on' = [on EXCEPT ![t] = NULL]
      /\ UNCHANGED <<sched_vars, waiters, holder, cond_waiters, cv, new, tmp, tid_vars>>
  BY DEF sema_down_take, At, Goto, synch_vars, call_vars, Takes
<1>2. TypeOK /\ ArgInv /\ NewInv /\ HolderInv /\ LockExclusive /\ TidInv
  BY SMTT(30) DEF Inductive
<1>b. on[t] \in Sema /\ value[on[t]] \in Nat
  BY <1>1, <1>2 DEF TypeOK, Sema, ArgInv, ArgOK
<1>a. value[on[t]] - 1 \in Nat
  BY <1>1, <1>b
<1>3. TypeOK'
  BY ZenonT(60), <1>1, <1>2, <1>a, <1>b DEF TypeOK, SchedTypeOK, sched_vars, tid_vars, Sema, Label
<1>4. OnlyMoves(t)
  BY SMTT(30), <1>1, <1>2, <1>3, <1>a, <1>b DEF OnlyMoves, TypeOK
<1>5. LocalStep(t)
  BY SMTT(30), <1>1, <1>2, <1>a, <1>b DEF LocalStep, TypeOK, IdleLabel, sched_vars
<1>6. ArgsFit(t)
  BY SMTT(30), <1>1, <1>2, <1>a, <1>b DEF ArgsFit, ArgOK, ArgInv, NewInv, TypeOK, Sema
<1>7. HolderInv' /\ LockExclusive'
  <2>1. /\ pc[t] \notin Between /\ pc'[t] \notin Between
        /\ pc'[t] \in Holding => holder[on'[t]] = t
        /\ \A r \in Lock : value'[r] = value[r]
    BY SMTT(30), <1>1, <1>2, <1>b DEF TypeOK, Between, Holding, Sema
  <2> QED BY SMTT(30), <1>1, <1>2, <1>4, <2>1, LockFrame
<1> QED BY SMTT(30), <1>3, <1>4, <1>5, <1>6, <1>7, LocalKeeps

\* sema_down() of a lock returns into lock_acquire().
LEMMA take_lock_keeps ==
  ASSUME Inductive, NEW t \in Thread, sema_down_take(t), on[t] \in Lock
  PROVE  Inductive'
<1> USE ThreadAssumption, SynchAssumption
<1>1. /\ running = t /\ pc[t] \in {"sema_down", "woken"}
      /\ value[on[t]] > 0 /\ value' = [value EXCEPT ![on[t]] = @ - 1]
      /\ pc' = [pc EXCEPT ![t] = "set_holder"]
      /\ UNCHANGED <<sched_vars, waiters, holder, cond_waiters, on, cv, new, tmp, tid_vars>>
  BY DEF sema_down_take, At, Goto, synch_vars, call_vars, Takes
<1>2. TypeOK /\ ArgInv /\ NewInv /\ HolderInv /\ LockExclusive /\ TidInv
  BY SMTT(30) DEF Inductive
<1>b. on[t] \in Sema /\ value[on[t]] \in Nat
  BY SMTT(30), <1>1, <1>2 DEF TypeOK, Sema, ArgInv, ArgOK
<1>a. value[on[t]] - 1 \in Nat
  BY <1>1, <1>b
<1>3. TypeOK'
  BY ZenonT(60), <1>1, <1>2, <1>a, <1>b DEF TypeOK, SchedTypeOK, sched_vars, tid_vars, Sema, Label
<1>4. OnlyMoves(t)
  BY SMTT(30), <1>1, <1>2, <1>3, <1>a, <1>b DEF OnlyMoves, TypeOK
<1>5. LocalStep(t)
  BY SMTT(30), <1>1, <1>2, <1>a, <1>b DEF LocalStep, TypeOK, IdleLabel, sched_vars
<1>6. ArgsFit(t)
  BY SMTT(30), <1>1, <1>2, <1>a, <1>b DEF ArgsFit, ArgOK, ArgInv, NewInv, TypeOK, Sema
<1>7. HolderInv' /\ LockExclusive'
  <2>1. pc[t] \notin Between /\ pc'[t] = "set_holder" /\ on'[t] = on[t]
    BY SMTT(30), <1>1, <1>2 DEF TypeOK, Between
  <2> QED BY ZenonT(60), <1>1, <1>2, <1>4, <2>1, TakeLock
<1> QED BY SMTT(30), <1>3, <1>4, <1>5, <1>6, <1>7, LocalKeeps

\* sema_down() of a thread's own semaphore returns into cond_wait().
LEMMA take_own_keeps ==
  ASSUME Inductive, NEW t \in Thread, sema_down_take(t), on[t] \notin Semaphore \cup Lock
  PROVE  Inductive'
<1> USE ThreadAssumption, SynchAssumption
<1>1. /\ running = t /\ pc[t] \in {"sema_down", "woken"}
      /\ value[on[t]] > 0 /\ value' = [value EXCEPT ![on[t]] = @ - 1]
      /\ pc' = [pc EXCEPT ![t] = "sema_down"]
      /\ on' = [on EXCEPT ![t] = LockOf[cv[t]]]
      /\ cv' = [cv EXCEPT ![t] = NULL]
      /\ UNCHANGED <<sched_vars, waiters, holder, cond_waiters, new, tmp, tid_vars>>
  BY DEF sema_down_take, At, Goto, synch_vars, call_vars, Takes
<1>2. TypeOK /\ ArgInv /\ NewInv /\ HolderInv /\ LockExclusive /\ TidInv
  BY DEF Inductive
<1>c. on[t] = t /\ cv[t] \in Condition
  <2>1. ArgOK(t, pc[t], on[t], cv[t])
    BY SMTT(30), <1>2 DEF ArgInv
  <2> QED BY SMTT(30), <1>1, <2>1 DEF ArgOK
<1>b. on[t] \in Sema /\ value[on[t]] \in Nat /\ on[t] = t
      /\ cv[t] \in Condition /\ LockOf[cv[t]] \in Lock \ {tid_lock}
  BY SMTT(30), <1>1, <1>2, <1>c DEF TypeOK, Sema, ArgInv, ArgOK
<1>a. value[on[t]] - 1 \in Nat
  BY SMTT(30), <1>1, <1>b
<1>3. TypeOK'
  BY ZenonT(60), <1>1, <1>2, <1>a, <1>b DEF TypeOK, SchedTypeOK, sched_vars, tid_vars, Sema, Label
<1>4. OnlyMoves(t)
  BY SMTT(30), <1>1, <1>2, <1>3, <1>a, <1>b, <1>c DEF OnlyMoves, TypeOK
<1>5. LocalStep(t)
  BY SMTT(30), <1>1, <1>2, <1>a, <1>b, <1>c DEF LocalStep, TypeOK, IdleLabel, sched_vars
<1>6. ArgsFit(t)
  BY SMTT(30), <1>1, <1>2, <1>a, <1>b, <1>c DEF ArgsFit, ArgOK, ArgInv, NewInv, TypeOK, Sema
<1>7. HolderInv' /\ LockExclusive'
  <2>1. /\ pc[t] \notin Between /\ pc'[t] \notin Between
        /\ pc'[t] \in Holding => holder[on'[t]] = t
        /\ \A r \in Lock : value'[r] = value[r]
    BY SMTT(30), <1>1, <1>2, <1>b DEF TypeOK, Between, Holding, Sema
  <2> QED BY SMTT(30), <1>1, <1>2, <1>4, <2>1, LockFrame
<1> QED BY SMTT(30), <1>3, <1>4, <1>5, <1>6, <1>7, LocalKeeps

-----------------------------------------------------------------------------
(* Steps that up a semaphore.                                              *)

\* sema_up() of a shared semaphore, by a thread, by an interrupt handler or by the
\* idle thread: at most the idle thread goes from one point of its loop to another.
LEMMA SharedUp ==
  ASSUME Inductive, NEW s \in Semaphore, sema_up(s), pc[running] # "boot",
         \/ pc' = pc
         \/ /\ running = idle /\ pc[idle] \in {"idle_up", "hlt"}
            /\ pc' = [pc EXCEPT ![idle] = "idle_block"],
         UNCHANGED <<all_list, running, idle_thread, thread_ticks, holder,
                     cond_waiters, on, cv, new, tmp, tid_vars>>
  PROVE  Inductive'
<1> USE ThreadAssumption, SynchAssumption
<1> DEFINE t == running
<1>1. TypeOK /\ QueueInv /\ IdleInv /\ ArgInv /\ NewInv /\ HolderInv /\ LockExclusive /\ TidInv
  BY DEF Inductive
<1>2. t \in Thread /\ s \in Sema
  BY SMTT(30), <1>1 DEF TypeOK, SchedTypeOK, Sema
<1>3. /\ value' = [value EXCEPT ![s] = @ + 1]
      /\ value' \in [Sema -> Nat] /\ waiters' \in [Sema -> Seq(Thread)]
      /\ status' \in [Thread -> Status] /\ ready_list' \in Seq(Thread)
  BY <1>1, <1>2, UpEffect
<1>4. pc \in [Thread -> Label] /\ pc' \in [Thread -> Label]
  BY ZenonT(60), <1>1 DEF TypeOK, Label
<1>5. TypeOK'
  BY SMTT(30), <1>1, <1>3, <1>4 DEF TypeOK, SchedTypeOK, tid_vars
<1>6. \/ pc'[t] = pc[t]
      \/ t = idle /\ pc[t] \in {"idle_up", "hlt"} /\ pc'[t] = "idle_block"
  BY <1>2, <1>4
<1>7. OnlyMoves(t)
  BY SMTT(30), <1>1, <1>2, <1>4 DEF OnlyMoves, TypeOK
<1> HIDE DEF t
<1>8. ArgOK(t, pc'[t], on'[t], cv'[t])
  <2>1. ArgOK(t, pc[t], on[t], cv[t])
    BY SMTT(30), <1>1, <1>2 DEF ArgInv
  <2> QED BY SMTT(30), <1>6, <2>1 DEF ArgOK
<1>9. on'[t] = tid_lock \/ pc'[t] = "thread_unblock" => new[t] # NULL
  BY SMTT(30), <1>1, <1>2, <1>6 DEF NewInv
<1>10. QueueInv' /\ ArgInv' /\ NewInv' /\ status'[idle] = status[idle]
  BY SMTT(30), <1>2, <1>6, <1>7, <1>8, <1>9, UpFrame DEF t
<1>11. IdleInv'
  <2>1. pc[t] \in IdleLabel => t = idle
    BY <1>1, <1>2 DEF IdleInv
  <2>2. t = idle /\ pc'[t] = pc[t] => pc'[t] \in IdleLabel \cup {"none"}
    BY SMTT(30), <1>1 DEF IdleInv
  <2>3. CASE pc'[t] = pc[t]
    <3>1. \A u \in Thread : pc'[u] = pc[u]
      BY SMTT(30), <1>7, <2>3 DEF OnlyMoves
    <3>2. \A u \in Thread : pc[u] # "boot"
      BY SMTT(30), <1>1 DEF IdleInv
    <3> QED BY SMTT(30), <3>1, <3>2, <1>1, <1>10 DEF IdleInv
  <2>4. CASE t = idle /\ pc[t] \in {"idle_up", "hlt"} /\ pc'[t] = "idle_block"
    <3>1. idle_thread # NULL
      BY SMTT(30), <1>1, <2>4 DEF IdleInv
    <3> QED BY SMTT(30), <3>1, <2>4, <1>1, <1>2, <1>7, IdleStep DEF t, IdleLabel
  <2> QED BY SMTT(30), <1>6, <2>3, <2>4
<1>12. HolderInv' /\ LockExclusive'
  <2>1. \A l \in Lock : value'[l] = value[l]
    BY SMTT(30), <1>1, <1>3 DEF TypeOK, Sema
  <2>2. \A u \in Thread :
          \/ pc'[u] = pc[u] /\ on'[u] = on[u]
          \/ pc[u] \notin Between \cup Holding /\ pc'[u] \notin Between \cup Holding
    BY SMTT(30), <1>6, <1>7 DEF OnlyMoves, Between, Holding
  <2> QED BY SMTT(30), <1>1, <2>1, <2>2, LockStill
<1>13. TidInv'
  <2>1. pc'[t] = "tid_write" => tmp'[t] = next_tid
    BY SMTT(30), <1>1, <1>2, <1>6 DEF TidInv
  <2> QED BY SMTT(30), <1>1, <1>2, <1>7, <2>1, TidFrame
<1> QED BY ZenonT(60), <1>5, <1>10, <1>11, <1>12, <1>13 DEF Inductive

\* A thread calls sema_up().
LEMMA call_sema_up_keeps ==
  ASSUME Inductive, NEW t \in Thread, NEW s \in Semaphore \ {idle_started}, call_sema_up(t, s)
  PROVE  Inductive'
<1>1. sema_up(s) /\ running = t /\ pc[t] = "call" /\ pc' = pc
  BY DEF call_sema_up, At
<1>2. UNCHANGED <<all_list, running, idle_thread, thread_ticks, holder,
                  cond_waiters, on, cv, new, tmp, tid_vars>>
  BY DEF call_sema_up, call_vars
<1> QED BY <1>1, <1>2, SharedUp

\* An interrupt handler calls sema_up().
LEMMA interrupt_up_keeps ==
  ASSUME Inductive, NEW s \in DeviceSema, interrupt_up(s)
  PROVE  Inductive'
<1> USE ThreadAssumption, SynchAssumption
<1>1. s \in Semaphore /\ sema_up(s) /\ pc[running] # "boot"
  BY DEF interrupt_up, IntrOn
<1>2. UNCHANGED <<all_list, running, idle_thread, thread_ticks, holder,
                  cond_waiters, on, cv, new, tmp, tid_vars>>
  BY SMTT(30) DEF interrupt_up, call_vars
<1>3. pc[running] = "hlt" => running = idle
  BY DEF Inductive, IdleInv, IdleLabel, TypeOK, SchedTypeOK
<1>4. \/ pc' = pc
      \/ /\ running = idle /\ pc[idle] \in {"idle_up", "hlt"}
         /\ pc' = [pc EXCEPT ![idle] = "idle_block"]
  BY ZenonT(60), <1>3 DEF interrupt_up, AfterInterrupt
<1> QED BY SMTT(30), <1>1, <1>2, <1>4, SharedUp

\* The idle thread ups idle_started.
LEMMA idle_up_keeps ==
  ASSUME Inductive, idle_up
  PROVE  Inductive'
<1> USE ThreadAssumption, SynchAssumption
<1>1. /\ idle_started \in Semaphore /\ sema_up(idle_started)
      /\ running = idle /\ pc[idle] = "idle_up"
      /\ pc' = [pc EXCEPT ![idle] = "idle_block"]
  BY DEF idle_up, At, Goto
<1>2. UNCHANGED <<all_list, running, idle_thread, thread_ticks, holder,
                  cond_waiters, on, cv, new, tmp, tid_vars>>
  BY DEF idle_up, call_vars
<1> QED BY <1>1, <1>2, SharedUp

=============================================================================
