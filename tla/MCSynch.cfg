SPECIFICATION LiveSpec
CONSTANTS
  main = main
  idle = idle
  t1 = t1
  t2 = t2
  NULL = NULL
  L = L
  C = C
  S = S
  tid_lock = tid_lock
  idle_started = idle_started
  Thread = {main, idle, t1, t2}
  initial_thread = main
  TIME_SLICE = 2
  Semaphore = {idle_started, S}
  DeviceSema = {S}
  Lock = {tid_lock, L}
  Condition = {C}
  LockOf <- MCLockOf
  MaxValue = 2
  MaxTid = 5
INVARIANTS
  LockExclusive
  NoLostWakeup
  NoLostSignal
  Inductive
PROPERTIES
  LocksAreMutexes
  ReadyRuns
  LockHandedOn
