---------------------------- MODULE ProcessWait ----------------------------
(***************************************************************************)
(* exec, wait and exit of userprog/process.c and the struct wait_status    *)
(* that parent and child share (threads/thread.h).  A process can be       *)
(* preempted anywhere, so every access to shared memory is a step.  The    *)
(* semaphores and ref_cnt_lock are taken as Synch establishes them: a      *)
(* counter and a mutex.  A wait status is named by its child.  Use of a    *)
(* freed wait status is recorded in fault and ends the behaviour, as the   *)
(* program is undefined from there on.                                     *)
(***************************************************************************)
EXTENDS Integers, Sequences, Functions, FiniteSets

CONSTANTS Proc,   \* processes, which are also the names of their wait statuses
          main,   \* the kernel's initial thread, which has no wait status
          Code,   \* exit codes that programs use
          NULL

ASSUME ProcAssumption ==
  /\ main \in Proc
  /\ NULL \notin Proc
  /\ Code \subseteq Int

VARIABLES
  pc,              \* where each process is
  at,              \* the wait status its call is about
  next,            \* the element after it in process_exit()'s loop
  tmp,             \* ref_cnt as read by ref_cnt--
  children,        \* children_wait_statuses
  ref_cnt, exit_code, load_code, dead, load_finished,  \* struct wait_status
  lock,            \* holder of ref_cnt_lock
  memory,          \* "none", "live" or "freed": the wait status on the heap
  fault,           \* what undefined behaviour has been met
  parent,          \* history: who executed the process
  ended,           \* history: with what code its program ended and how: by exit() or
                   \* a page fault, by another exception ("killed"), because it did not
                   \* load, or in process_execute() with a null child
  result           \* history: what process_wait() returned for it

status_vars == <<ref_cnt, exit_code, load_code, dead, load_finished, lock, memory>>
history == <<parent, ended, result>>
vars == <<pc, at, next, tmp, children, status_vars, fault, history>>

\* main() is about to execute the first program.
Init ==
  /\ pc = [p \in Proc |-> IF p = main THEN "run" ELSE "none"]
  /\ at = [p \in Proc |-> NULL]
  /\ next = [p \in Proc |-> NULL]
  /\ tmp = [p \in Proc |-> 0]
  /\ children = [p \in Proc |-> <<>>]
  /\ ref_cnt = [p \in Proc |-> 0]
  /\ exit_code = [p \in Proc |-> 0]
  /\ load_code = [p \in Proc |-> 0]
  /\ dead = [p \in Proc |-> 0]
  /\ load_finished = [p \in Proc |-> 0]
  /\ lock = [p \in Proc |-> NULL]
  /\ memory = [p \in Proc |-> "none"]
  /\ fault = "none"
  /\ parent = [p \in Proc |-> NULL]
  /\ ended = [p \in Proc |-> [how |-> "no", code |-> 0]]
  /\ result = [p \in Proc |-> NULL]

-----------------------------------------------------------------------------

At(p, label) == fault = "none" /\ pc[p] = label
Goto(p, label) == pc' = [pc EXCEPT ![p] = label]

\* The step of p that uses wait status s is Step if s is still allocated.
Using(s, Step) ==
  IF memory[s] = "live" THEN Step /\ UNCHANGED fault
  ELSE fault' = "freed" /\ UNCHANGED <<pc, at, next, tmp, children, status_vars, history>>

free(s) == memory' = [memory EXCEPT ![s] = "freed"]

\* Where s is in list l.
Position(l, s) == CHOOSE i \in DOMAIN l : l[i] = s

\* The elements on either side of s in list l, which list_remove() writes to.
Neighbours(l, s) ==
  {l[i] : i \in {Position(l, s) - 1, Position(l, s) + 1} \cap DOMAIN l}

\* The elements behind s move up.
list_remove(l, s) ==
  [i \in 1 .. Len(l) - 1 |-> IF i < Position(l, s) THEN l[i] ELSE l[i + 1]]

\* list_next(): the element after s in l, NULL at the end of the list.
list_next(l, s) ==
  IF Position(l, s) = Len(l) THEN NULL ELSE l[Position(l, s) + 1]

-----------------------------------------------------------------------------
(* process_execute() and start_process().                                  *)

\* thread_create() and init_wait_status(): child c may run from now on.
process_execute(p, c) ==
  /\ At(p, "run") /\ pc[c] = "none"
  /\ pc' = [pc EXCEPT ![p] = "exec_find", ![c] = "load"]
  /\ at' = [at EXCEPT ![p] = c]
  /\ children' = [children EXCEPT ![p] = Append(@, c)]
  /\ ref_cnt' = [ref_cnt EXCEPT ![c] = 2]
  /\ memory' = [memory EXCEPT ![c] = "live"]
  /\ parent' = [parent EXCEPT ![c] = p]
  /\ UNCHANGED <<next, tmp, exit_code, load_code, dead, load_finished, lock,
                 fault, ended, result>>

\* child->curr_dir = ... with child NULL: a page fault, whose handler makes the
\* process exit with -1.  main has no wait status to store an exit code in.
NullChild(p, why) ==
  /\ IF p = main
     THEN fault' = why /\ UNCHANGED <<pc, at, exit_code, ended>>
     ELSE /\ exit_code' = [exit_code EXCEPT ![p] = -1]
          /\ ended' = [ended EXCEPT ![p] = [how |-> why, code |-> -1]]
          /\ at' = [at EXCEPT ![p] = NULL]
          /\ Goto(p, "exit")
          /\ UNCHANGED fault
  /\ UNCHANGED <<next, tmp, children, ref_cnt, load_code, dead, load_finished, lock,
                 memory, parent, result>>

\* thread_create() fails: get_thread_by_tid(TID_ERROR) is NULL.
process_execute_fail(p) == At(p, "run") /\ NullChild(p, "no_thread")

\* get_thread_by_tid() is NULL too once the new thread has left all_list.
exec_find(p) ==
  /\ At(p, "exec_find")
  /\ IF pc[at[p]] = "gone" THEN NullChild(p, "child_gone")
     ELSE /\ Goto(p, "exec_load")
          /\ UNCHANGED <<at, next, tmp, children, status_vars, fault, history>>

\* sema_down (&child_wait_status->load_finished)
exec_load(p) ==
  /\ At(p, "exec_load")
  /\ Using(at[p],
       /\ load_finished[at[p]] > 0
       /\ load_finished' = [load_finished EXCEPT ![at[p]] = @ - 1]
       /\ Goto(p, "exec_code")
       /\ UNCHANGED <<at, next, tmp, children, ref_cnt, exit_code, load_code, dead,
                      lock, memory, history>>)

\* The system call returns -1 or the child's identifier, by load_code.
exec_code(p) ==
  /\ At(p, "exec_code")
  /\ Using(at[p],
       /\ Goto(p, "run")
       /\ at' = [at EXCEPT ![p] = NULL]
       /\ UNCHANGED <<next, tmp, children, status_vars, history>>)

\* Mutant: a failed load is reported before load_code is set.
start_process_unset(p) ==
  /\ At(p, "load")
  /\ \/ Goto(p, "load_up") /\ UNCHANGED ended
     \/ Goto(p, "fail_up") /\ ended' = [ended EXCEPT ![p].how = "not_loaded"]
  /\ UNCHANGED <<at, next, tmp, children, status_vars, fault, parent, result>>

\* load() succeeds or fails; load_code is set if it fails.
start_process(p) ==
  /\ At(p, "load")
  /\ \/ Goto(p, "load_up") /\ UNCHANGED <<load_code, ended>>
     \/ /\ Goto(p, "fail_up")
        /\ load_code' = [load_code EXCEPT ![p] = -1]
        /\ ended' = [ended EXCEPT ![p].how = "not_loaded"]
  /\ UNCHANGED <<at, next, tmp, children, ref_cnt, exit_code, dead, load_finished,
                 lock, memory, fault, parent, result>>

\* sema_up (load_finished), and thread_exit() if the load failed.
load_up(p) ==
  /\ fault = "none" /\ pc[p] \in {"load_up", "fail_up"}
  /\ Using(p,
       /\ load_finished' = [load_finished EXCEPT ![p] = @ + 1]
       /\ Goto(p, IF pc[p] = "load_up" THEN "run" ELSE "exit")
       /\ UNCHANGED <<at, next, tmp, children, ref_cnt, exit_code, load_code, dead,
                      lock, memory, history>>)

-----------------------------------------------------------------------------
(* process_wait().  For a process that is not on the caller's list it      *)
(* returns -1 and changes nothing.                                         *)

process_wait(p, c) ==
  /\ At(p, "run") /\ c \in Range(children[p])
  /\ Goto(p, "wait_test")
  /\ at' = [at EXCEPT ![p] = c]
  /\ UNCHANGED <<next, tmp, children, status_vars, fault, history>>

\* Mutant: the parent waits only for a child that is half gone.
Alive_off_by_one(s) == ref_cnt[s] = 1

\* The child has not yet dropped its reference, as far as its parent can see.
Alive(s) == ref_cnt[s] = 2

\* The test is made without ref_cnt_lock.
wait_test(p) ==
  /\ At(p, "wait_test")
  /\ Using(at[p],
       /\ Goto(p, IF Alive(at[p]) THEN "wait_down" ELSE "wait_reap")
       /\ UNCHANGED <<at, next, tmp, children, status_vars, history>>)

\* sema_down (&child_wait_status->dead)
wait_down(p) ==
  /\ At(p, "wait_down")
  /\ Using(at[p],
       /\ dead[at[p]] > 0
       /\ dead' = [dead EXCEPT ![at[p]] = @ - 1]
       /\ Goto(p, "wait_reap")
       /\ UNCHANGED <<at, next, tmp, children, ref_cnt, exit_code, load_code,
                      load_finished, lock, memory, history>>)

\* Reads the exit code, unlinks the wait status and frees it.
wait_reap(p) ==
  /\ At(p, "wait_reap")
  /\ Using(at[p],
       /\ result' = [result EXCEPT ![at[p]] = exit_code[at[p]]]
       /\ children' = [children EXCEPT ![p] = list_remove(@, at[p])]
       /\ free(at[p])
       /\ Goto(p, "run")
       /\ at' = [at EXCEPT ![p] = NULL]
       /\ UNCHANGED <<next, tmp, ref_cnt, exit_code, load_code, dead, load_finished,
                      lock, parent, ended>>)

-----------------------------------------------------------------------------
(* The end of a process.                                                   *)

\* sys_exit_handler(), from the exit system call and from page_fault(): the exit
\* code is stored and thread_exit() called.
sys_exit(p, code) ==
  /\ At(p, "run") /\ p # main
  /\ Using(p,
       /\ exit_code' = [exit_code EXCEPT ![p] = code]
       /\ ended' = [ended EXCEPT ![p] = [how |-> "exit", code |-> code]]
       /\ Goto(p, "exit")
       /\ UNCHANGED <<at, next, tmp, children, ref_cnt, load_code, dead, load_finished,
                      lock, memory, parent, result>>)

\* kill(): an exception other than a page fault; no exit code is stored.
kill(p) ==
  /\ At(p, "run") /\ p # main
  /\ ended' = [ended EXCEPT ![p].how = "killed"]
  /\ Goto(p, "exit")
  /\ UNCHANGED <<at, next, tmp, children, status_vars, fault, parent, result>>

\* Goes to the next child, or to the process's own wait status.
Advance(p, e) ==
  /\ at' = [at EXCEPT ![p] = IF e = NULL THEN p ELSE e]
  /\ Goto(p, IF e = NULL THEN "own_lock" ELSE "child_lock")

\* process_exit() begins with the first of the children.
process_exit(p) ==
  /\ At(p, "exit")
  /\ Advance(p, IF children[p] = <<>> THEN NULL ELSE Head(children[p]))
  /\ UNCHANGED <<next, tmp, children, status_vars, fault, history>>

\* Where ref_cnt-- under ref_cnt_lock continues, for a child's and the own status.
Then == [child_lock |-> "child_write", child_write |-> "child_unlock",
         child_unlock |-> "child_next",
         own_lock |-> "own_write", own_write |-> "own_unlock",
         own_unlock |-> "own_test"]

\* Mutant: ref_cnt_lock does not exclude anyone.
Free_always(s) == TRUE

Free(s) == lock[s] = NULL

\* lock_acquire (&ws->ref_cnt_lock), with the read of ws->ref_cnt--: only a holder
\* of the lock changes ref_cnt.
ref_lock(p) ==
  /\ fault = "none" /\ pc[p] \in {"child_lock", "own_lock"}
  /\ Using(at[p],
       /\ Free(at[p])
       /\ lock' = [lock EXCEPT ![at[p]] = p]
       /\ tmp' = [tmp EXCEPT ![p] = ref_cnt[at[p]]]
       /\ Goto(p, Then[pc[p]])
       /\ UNCHANGED <<at, next, children, ref_cnt, exit_code, load_code, dead,
                      load_finished, memory, history>>)

\* The write of ws->ref_cnt--.
ref_write(p) ==
  /\ fault = "none" /\ pc[p] \in {"child_write", "own_write"}
  /\ Using(at[p],
       /\ ref_cnt' = [ref_cnt EXCEPT ![at[p]] = tmp[p] - 1]
       /\ tmp' = [tmp EXCEPT ![p] = 0]
       /\ Goto(p, Then[pc[p]])
       /\ UNCHANGED <<at, next, children, exit_code, load_code, dead, load_finished,
                      lock, memory, history>>)

\* lock_release (&ws->ref_cnt_lock)
ref_unlock(p) ==
  /\ fault = "none" /\ pc[p] \in {"child_unlock", "own_unlock"}
  /\ Using(at[p],
       /\ lock' = [lock EXCEPT ![at[p]] = NULL]
       /\ Goto(p, Then[pc[p]])
       /\ UNCHANGED <<at, next, tmp, children, ref_cnt, exit_code, load_code, dead,
                      load_finished, memory, history>>)

\* e = list_next (e)
child_next(p) ==
  /\ At(p, "child_next")
  /\ Using(at[p],
       /\ next' = [next EXCEPT ![p] = list_next(children[p], at[p])]
       /\ Goto(p, "child_test")
       /\ UNCHANGED <<at, tmp, children, status_vars, history>>)

\* Mutant: a wait status is never freed by the parent.
LastRef_never(s) == FALSE

\* The last reference to s has been dropped.
LastRef(s) == ref_cnt[s] = 0

\* The parent unlinks and frees the wait status of a child that has ended;
\* unlinking writes to the elements next to it.
child_test(p) ==
  /\ At(p, "child_test")
  /\ Using(at[p],
       /\ Advance(p, next[p])
       /\ next' = [next EXCEPT ![p] = NULL]
       /\ IF LastRef(at[p])
          THEN /\ \A s \in Neighbours(children[p], at[p]) : memory[s] = "live"
               /\ children' = [children EXCEPT ![p] = list_remove(@, at[p])]
               /\ free(at[p])
          ELSE UNCHANGED <<children, memory>>
       /\ UNCHANGED <<tmp, ref_cnt, exit_code, load_code, dead, load_finished, lock,
                      history>>)

\* list_remove() next to an element that has been freed.
child_unlink_fault(p) ==
  /\ At(p, "child_test") /\ memory[at[p]] = "live" /\ LastRef(at[p])
  /\ \E s \in Neighbours(children[p], at[p]) : memory[s] = "freed"
  /\ fault' = "freed"
  /\ UNCHANGED <<pc, at, next, tmp, children, status_vars, history>>

\* Mutant: the child does not tell its parent.
own_test_silent(p) ==
  /\ At(p, "own_test")
  /\ Using(p,
       /\ IF LastRef(p) THEN free(p) ELSE UNCHANGED memory
       /\ Goto(p, "leaving")
       /\ at' = [at EXCEPT ![p] = NULL]
       /\ UNCHANGED <<next, tmp, children, ref_cnt, exit_code, load_code, dead,
                      load_finished, lock, history>>)

\* The child frees its wait status, which stays on the parent's list, or tells
\* its parent.
own_test(p) ==
  /\ At(p, "own_test")
  /\ Using(p,
       /\ IF LastRef(p) THEN free(p) /\ UNCHANGED dead
          ELSE dead' = [dead EXCEPT ![p] = @ + 1] /\ UNCHANGED memory
       /\ Goto(p, "leaving")
       /\ at' = [at EXCEPT ![p] = NULL]
       /\ UNCHANGED <<next, tmp, children, ref_cnt, exit_code, load_code,
                      load_finished, lock, history>>)

\* The rest of process_exit() and of thread_exit(): the executable and the page
\* directory are given up, and the thread leaves all_list for good.
leave(p) ==
  /\ At(p, "leaving")
  /\ Goto(p, "gone")
  /\ UNCHANGED <<at, next, tmp, children, status_vars, fault, history>>

-----------------------------------------------------------------------------

\* What a program, or main(), may ask for.
Call(p) ==
  \/ \E c \in Proc : process_execute(p, c) \/ process_wait(p, c)
  \/ process_execute_fail(p)
  \/ \E code \in Code : sys_exit(p, code)
  \/ kill(p)

\* The kernel code of a call in progress.
Continue(p) ==
  \/ exec_find(p) \/ exec_load(p) \/ exec_code(p) \/ start_process(p) \/ load_up(p)
  \/ wait_test(p) \/ wait_down(p) \/ wait_reap(p)
  \/ process_exit(p) \/ ref_lock(p) \/ ref_write(p) \/ ref_unlock(p)
  \/ child_next(p) \/ child_test(p) \/ child_unlink_fault(p) \/ own_test(p) \/ leave(p)

Next == \E p \in Proc : Call(p) \/ Continue(p)

Spec == Init /\ [][Next]_vars

\* Every thread inside the kernel is scheduled again and again (Synch, ReadyRuns).
Fairness == \A p \in Proc : WF_vars(Continue(p))

LiveSpec == Spec /\ Fairness

-----------------------------------------------------------------------------
(* Properties.  They speak of behaviours up to the first fault.            *)

(***************************************************************************)
(* process_wait() "Waits for thread TID to die and returns its exit        *)
(* status" (userprog/process.c:108), although the parent tests ref_cnt     *)
(* without the lock: whichever way the test goes, it returns only for a    *)
(* child whose program has ended, and what it returns is the value passed  *)
(* to exit(), or -1 after a page fault, for every child whose program ran  *)
(* to such an end.  (A child that kill() ended is KilledIsMinusOne.)       *)
(***************************************************************************)
WaitGetsStatus ==
  \A c \in Proc : result[c] # NULL =>
    /\ ended[c].how # "no"
    /\ ended[c].how \notin {"killed", "not_loaded"} => result[c] = ended[c].code

\* s is in list l, ahead of e.
Before(l, s, e) == \E i, j \in DOMAIN l : l[i] = s /\ l[j] = e /\ i < j

\* p is past its decrement of the count of s.
Dropped(p, s) ==
  \/ p # s /\ at[p] = s /\ pc[p] \in {"child_unlock", "child_next", "child_test"}
  \/ p # s /\ pc[p] \in {"child_lock", "child_write", "child_unlock",
                         "child_next", "child_test"}
           /\ Before(children[p], s, at[p])
  \/ p # s /\ pc[p] \in {"own_lock", "own_write", "own_unlock", "own_test",
                         "leaving", "gone"}
  \/ p = s /\ pc[p] \in {"own_unlock", "own_test", "leaving", "gone"}

(***************************************************************************)
(* ref_cnt of a wait status that is still allocated counts those of parent *)
(* and child that have not yet dropped their reference, however their      *)
(* decrements interleave ("2=child and parent both alive, 1=either",       *)
(* threads/thread.h:34).                                                   *)
(***************************************************************************)
RefCntExact ==
  \A c \in Proc : memory[c] = "live" =>
    ref_cnt[c] = Cardinality({p \in {c, parent[c]} : ~Dropped(p, c)})

(***************************************************************************)
(* No wait status is leaked: when parent and child have both ended, the    *)
(* last of the two to drop its reference has freed it.                     *)
(***************************************************************************)
NoLeak ==
  \A c \in Proc \ {main} :
    pc[c] = "gone" /\ pc[parent[c]] = "gone" => memory[c] = "freed"

(***************************************************************************)
(* process_execute() does not read load_code before start_process() has    *)
(* decided it: exec returns -1 exactly for a program that did not load.    *)
(***************************************************************************)
ExecKnowsLoad ==
  \A p \in Proc : pc[p] = "exec_code" =>
    /\ pc[at[p]] \notin {"none", "load"}
    /\ (load_code[at[p]] = -1) = (ended[at[p]].how = "not_loaded")

(***************************************************************************)
(* A parent inside process_wait() whose child is on its way out gets out,  *)
(* and a parent inside process_execute() returns: neither semaphore is     *)
(* missed, whoever gets to it first.                                       *)
(***************************************************************************)
CallsEnd ==
  \A p, c \in Proc :
    /\ pc[p] = "wait_down" /\ at[p] = c /\ pc[c] \in {"exit", "leaving", "gone"} ~>
         pc[p] # "wait_down" \/ fault # "none"
    /\ pc[p] = "exec_load" ~> pc[p] # "exec_load" \/ fault # "none"

\* "All the ref count operations are protected by locks" (proj2_final_doc.txt), so
\* that a wait status is not used once the last reference to it is gone.
StatusNotUsedAfterFree == fault # "freed"

\* "in case where ref_cnt becomes 0, that wait struct is freed and removed from the
\* parent's children wait struct list" (proj2_final_doc.txt).
FreedIsUnlisted ==
  \A p, s \in Proc : s \in Range(children[p]) => memory[s] = "live"

\* "If it was terminated by the kernel (i.e. killed due to an exception), returns
\* -1" (userprog/process.c:108).
KilledIsMinusOne ==
  \A c \in Proc : result[c] # NULL /\ ended[c].how = "killed" => result[c] = -1

\* "Returns the new process's thread id, or TID_ERROR if the thread cannot be
\* created" (userprog/process.c:28).
TidErrorReturned ==
  fault # "no_thread" /\ \A p \in Proc : ended[p].how # "no_thread"

\* "The new thread may be scheduled (and may even exit) before process_execute()
\* returns" (userprog/process.c:26).
ChildMayExitFirst ==
  fault # "child_gone" /\ \A p \in Proc : ended[p].how # "child_gone"

=============================================================================
