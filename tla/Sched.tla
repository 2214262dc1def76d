------------------------------- MODULE Sched -------------------------------
(***************************************************************************)
(* The thread scheduler of threads/thread.c: thread states, the FIFO run   *)
(* queue, the idle thread and time slicing.  There is one processor, and   *)
(* everything here runs with interrupts off, so each operator describes    *)
(* one atomic change of the scheduler's state.  Synch composes them with   *)
(* the synchronisation primitives into the steps that threads take.        *)
(***************************************************************************)
EXTENDS Naturals, Sequences

CONSTANTS Thread,          \* pages that can hold a struct thread
          initial_thread,  \* the thread that runs main()
          idle,            \* the thread that thread_start() creates
          NULL,            \* the null pointer
          TIME_SLICE       \* timer ticks given to a thread

ASSUME ThreadAssumption ==
  /\ initial_thread \in Thread
  /\ idle \in Thread
  /\ idle # initial_thread
  /\ NULL \notin Thread

ASSUME SliceAssumption == TIME_SLICE \in Nat \ {0}

VARIABLES status,        \* thread_status of each page, "free" if not a thread
          ready_list,    \* the run queue, oldest first
          all_list,      \* the threads that get_thread_by_tid() can find
          running,       \* running_thread(): the owner of the CPU's stack
          idle_thread,   \* NULL until the idle thread has first run
          thread_ticks   \* ticks since the last switch

sched_vars == <<status, ready_list, all_list, running, idle_thread, thread_ticks>>

Status == {"free", "running", "ready", "blocked", "dying"}

SchedTypeOK ==
  /\ status \in [Thread -> Status]
  /\ ready_list \in Seq(Thread)
  /\ all_list \subseteq Thread
  /\ running \in Thread
  /\ idle_thread \in {NULL, idle}
  /\ thread_ticks \in 0 .. TIME_SLICE - 1

\* thread_init(): the running code becomes the initial thread.
SchedInit ==
  /\ status = [t \in Thread |-> IF t = initial_thread THEN "running" ELSE "free"]
  /\ ready_list = <<>>
  /\ all_list = {initial_thread}
  /\ running = initial_thread
  /\ idle_thread = NULL
  /\ thread_ticks = 0

-----------------------------------------------------------------------------

\* The thread to run next when the run queue is rl.
next_thread_to_run(rl) == IF rl = <<>> THEN idle_thread ELSE Head(rl)

(***************************************************************************)
(* schedule() and thread_schedule_tail(): the running thread has taken the *)
(* status st and the run queue is rl.  The thread switched to is marked    *)
(* running and starts a new slice; the page of a dying thread other than   *)
(* the initial one is freed once the switch away from it is complete.      *)
(***************************************************************************)
schedule(st, rl) ==
  LET next == next_thread_to_run(rl)
      left == IF st = "dying" /\ running # initial_thread THEN "free" ELSE st
  IN  /\ running' = next
      /\ status' = [status EXCEPT ![running] = left, ![next] = "running"]
      /\ ready_list' = IF rl = <<>> THEN rl ELSE Tail(rl)
      /\ thread_ticks' = 0

thread_block == schedule("blocked", ready_list)

thread_unblock(t) ==
  /\ ready_list' = Append(ready_list, t)
  /\ status' = [status EXCEPT ![t] = "ready"]

\* Mutant: the yielding thread goes back to the front of the queue.
thread_yield_lifo ==
  schedule("ready", IF running = idle_thread THEN ready_list
                    ELSE <<running>> \o ready_list)

thread_yield ==
  schedule("ready", IF running = idle_thread THEN ready_list
                    ELSE Append(ready_list, running))

SliceOver == thread_ticks + 1 >= TIME_SLICE

\* thread_tick() in the timer interrupt, and the yield on return from it.
thread_tick ==
  IF SliceOver THEN thread_yield
  ELSE /\ thread_ticks' = thread_ticks + 1
       /\ UNCHANGED <<status, ready_list, running>>

\* thread_exit() after process_exit(), which is modelled in ProcessWait.
exit_thread ==
  /\ all_list' = all_list \ {running}
  /\ schedule("dying", ready_list)

\* init_thread(): the page of t becomes a blocked thread that no queue holds.
init_thread(t) ==
  /\ status' = [status EXCEPT ![t] = "blocked"]
  /\ all_list' = all_list \cup {t}

=============================================================================
