----------------------------- MODULE ProcessInv -----------------------------
(***************************************************************************)
(* The inductive invariant of ProcessWait: what has to hold of the lists   *)
(* of children, of the calls in progress and of ref_cnt_lock for the       *)
(* properties of ProcessWait to be kept by every step.                     *)
(***************************************************************************)
EXTENDS ProcessWait

\* Where a process is in a call about one of its children, ...
InCall == {"exec_find", "exec_load", "exec_code", "wait_test", "wait_down", "wait_reap"}
\* ... in the two parts of process_exit() that drop references, ...
DropsChild == {"child_lock", "child_write", "child_unlock", "child_next", "child_test"}
DropsOwn == {"own_lock", "own_write", "own_unlock", "own_test"}
\* ... before and during its program, and with ref_cnt_lock.
Starting == {"none", "load", "load_up", "fail_up"}
Unfinished == {"none", "load", "load_up", "run", "exec_find", "exec_load", "exec_code",
               "wait_test", "wait_down", "wait_reap"}
Locking == {"child_write", "child_unlock", "own_write", "own_unlock"}

Label ==
  {"none", "load", "load_up", "fail_up", "run", "exec_find", "exec_load", "exec_code",
   "wait_test", "wait_down", "wait_reap", "exit", "child_lock", "child_write",
   "child_unlock", "child_next", "child_test", "own_lock", "own_write", "own_unlock",
   "own_test", "leaving", "gone"}

CallTypes ==
  /\ pc \in [Proc -> Label]
  /\ at \in [Proc -> Proc \cup {NULL}] /\ next \in [Proc -> Proc \cup {NULL}]
  /\ tmp \in [Proc -> Int]
  /\ children \in [Proc -> Seq(Proc)]
  /\ fault \in {"none", "freed", "no_thread", "child_gone"}

StatusTypes ==
  /\ ref_cnt \in [Proc -> Int] /\ exit_code \in [Proc -> Int] /\ load_code \in [Proc -> Int]
  /\ dead \in [Proc -> Int] /\ load_finished \in [Proc -> Int]
  /\ lock \in [Proc -> Proc \cup {NULL}]
  /\ memory \in [Proc -> {"none", "live", "freed"}]

HistoryTypes ==
  /\ parent \in [Proc -> Proc \cup {NULL}]
  /\ ended \in [Proc -> [how : {"no", "exit", "killed", "not_loaded", "no_thread", "child_gone"},
                         code : Int]]
  /\ result \in [Proc -> Int \cup {NULL}]

TypeOK == CallTypes /\ StatusTypes /\ HistoryTypes

\* A list of children does not repeat and holds processes that were executed by its
\* owner; a wait status that is allocated is on its parent's list.
ListInv ==
  /\ \A p \in Proc : IsInjective(children[p]) /\ parent[p] # p
  /\ \A p \in Proc : \A s \in Range(children[p]) : parent[s] = p /\ pc[s] # "none"
  /\ \A s \in Proc : memory[s] = "live" =>
       parent[s] \in Proc /\ s \in Range(children[parent[s]])
  /\ \A s \in Proc \ {main} : memory[s] = "none" => pc[s] = "none"

\* What a call in progress is about.
AtOK(p) ==
  /\ pc[p] \in InCall \cup DropsChild => at[p] \in Range(children[p])
  /\ pc[p] \in DropsOwn => at[p] = p
  /\ pc[p] = "child_test" => next[p] = list_next(children[p], at[p])

AtInv == \A p \in Proc : AtOK(p)

\* ref_cnt_lock is held exactly between lock_acquire() and lock_release(), and what
\* its holder has read of ref_cnt is current.
LockInv ==
  /\ \A p, s \in Proc : lock[s] = p => at[p] = s /\ pc[p] \in Locking
  /\ \A p \in Proc : pc[p] \in Locking => lock[at[p]] = p
  /\ \A p \in Proc : pc[p] \in {"child_write", "own_write"} => tmp[p] = ref_cnt[at[p]]

Keeps(p, s) == IF Dropped(p, s) THEN 0 ELSE 1

\* ref_cnt is what child and parent keep.
CountInv ==
  \A s \in Proc : memory[s] = "live" => ref_cnt[s] = Keeps(s, s) + Keeps(parent[s], s)

\* When both have dropped their reference, one of them is still to test for it.
FreeInv ==
  \A s \in Proc :
    memory[s] = "live" /\ Dropped(s, s) /\ Dropped(parent[s], s) =>
      \/ pc[s] \in {"own_unlock", "own_test"}
      \/ /\ pc[parent[s]] \in {"child_unlock", "child_next", "child_test"}
         /\ at[parent[s]] = s

\* load_finished is raised after load_code is decided.
LoadInv ==
  /\ \A s \in Proc : load_finished[s] > 0 => pc[s] \notin Starting
  /\ \A s \in Proc : load_code[s] = -1 <=> ended[s].how = "not_loaded"
  /\ \A p \in Proc : pc[p] = "exec_code" => pc[at[p]] \notin {"none", "load"}

\* process_wait() returns what was in exit_code, however the child has ended.
CodeReturned ==
  \A c \in Proc : result[c] # NULL => ended[c].how # "no" /\ result[c] = ended[c].code

\* exit_code is final once the program has ended, which is before its parent reads it.
EndInv ==
  /\ \A s \in Proc : ended[s].how = "no" <=> pc[s] \in Unfinished
  /\ \A s \in Proc : exit_code[s] = ended[s].code
  /\ \A s \in Proc : dead[s] > 0 => pc[s] \in {"leaving", "gone"}
  /\ \A p \in Proc : pc[p] = "wait_reap" => ended[at[p]].how # "no"
  /\ CodeReturned

(***************************************************************************)
(* The inductive invariant: what parent and child may rely on, wherever    *)
(* they are preempted in process_execute(), process_wait() and             *)
(* process_exit().                                                         *)
(***************************************************************************)
Inductive ==
  /\ TypeOK /\ ListInv /\ AtInv /\ LockInv
  /\ CountInv /\ FreeInv /\ LoadInv /\ EndInv

=============================================================================
