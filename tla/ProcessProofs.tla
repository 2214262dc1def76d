--------------------------- MODULE ProcessProofs ----------------------------
(***************************************************************************)
(* The steps that change ref_cnt, a list of children or the heap keep the  *)
(* inductive invariant of ProcessInv too, and what follows from it: the    *)
(* properties of ProcessWait, for every set of processes.                  *)
(***************************************************************************)
EXTENDS ProcessSteps

\* lock_acquire (ref_cnt_lock), and what ref_cnt-- reads.
LEMMA ref_lock_keeps ==
  ASSUME Inductive, NEW p \in Proc, ref_lock(p)
  PROVE  Inductive'
<1>1. CASE memory[at[p]] # "live"
  BY <1>1, FaultKeeps DEF ref_lock, Using, Faults
<1>2. CASE memory[at[p]] = "live"
  <2>a. /\ pc[p] \in {"child_lock", "own_lock"} /\ lock[at[p]] = NULL
        /\ lock' = [lock EXCEPT ![at[p]] = p]
        /\ tmp' = [tmp EXCEPT ![p] = ref_cnt[at[p]]]
        /\ pc' = [pc EXCEPT ![p] = Then[pc[p]]]
        /\ UNCHANGED <<at, next, children, ref_cnt, exit_code, load_code, dead,
                       load_finished, memory, history, fault>>
    BY <1>2 DEF ref_lock, Using, Free, Goto
  <2>b. at[p] \in Proc /\ (pc[p] = "child_lock" => at[p] \in Range(children[p]))
        /\ (pc[p] = "own_lock" => at[p] = p)
    BY <2>a, Known DEF AtInv, AtOK, DropsChild, DropsOwn
  <2>c. Then[pc[p]] = IF pc[p] = "child_lock" THEN "child_write" ELSE "own_write"
    BY <2>a DEF Then
  <2>d. CallTypes' /\ OthersStay(p) /\ pc'[p] = Then[pc[p]] /\ tmp'[p] = ref_cnt[at[p]]
    BY <2>a, <2>b, <2>c, Known DEF CallTypes, StatusTypes, OthersStay, Label
  <2>e. StatusTypes' /\ lock'[at[p]] = p /\ \A s \in Proc \ {at[p]} : lock'[s] = lock[s]
    BY SMTT(30), <2>a, <2>b, Known DEF StatusTypes
  <2>f. TypeOK' /\ parent' = parent
    BY <2>a, <2>d, <2>e, Known DEF TypeOK, HistoryTypes, history
  <2>g. /\ pc[p] \notin Unfinished \cup Starting \cup Locking
        /\ pc'[p] \notin Unfinished \cup Starting /\ pc'[p] \in Locking
        /\ pc[p] \notin OwnTest /\ pc[p] \notin ChildTest
        /\ pc[p] \notin {"leaving", "gone"}
    BY <2>a, <2>c, <2>d DEF Unfinished, Starting, Locking, OwnTest, ChildTest
  <2>1. ListInv'
    BY <2>a, <2>d, <2>f, <2>g, ListStill DEF Starting
  <2>2. AtOK(p)'
    BY <2>a, <2>b, <2>c, <2>d DEF AtOK, InCall, DropsChild, DropsOwn
  <2>3. LockInv'
    <3>1. \A q \in Proc \ {p} : pc[q] \in Locking => at[q] # at[p]
      BY <2>a, Known, ProcAssumption DEF LockInv
    <3>2. LockInv /\ \A q \in Proc : pc[q] \in Locking => at[q] \in Proc
      BY Known DEF AtInv, AtOK, Locking, DropsChild, DropsOwn
    <3>3. /\ \A q, s \in Proc : lock'[s] = q => at'[q] = s /\ pc'[q] \in Locking
          /\ \A q \in Proc : pc'[q] \in Locking => lock'[at'[q]] = q
      BY <2>a, <2>b, <2>d, <2>e, <2>g, <3>1, <3>2 DEF LockInv, OthersStay
    <3>4. \A q \in Proc : pc'[q] \in {"child_write", "own_write"} => tmp'[q] = ref_cnt'[at'[q]]
      BY <2>a, <2>d, <3>2 DEF LockInv, OthersStay
    <3> QED BY <3>3, <3>4 DEF LockInv
  <2>4. \A s \in Proc : Dropped(p, s)' <=> Dropped(p, s)
    BY <2>a, <2>c, <2>d DEF Dropped
  <2>5. CountInv' /\ FreeInv'
    BY <2>a, <2>d, <2>f, <2>g, <2>4, Known, DropFrame
  <2> QED BY <2>a, <2>d, <2>f, <2>g, <2>1, <2>2, <2>3, <2>5, ExitKeeps
<1> QED BY <1>1, <1>2

\* lock_release (ref_cnt_lock)
LEMMA ref_unlock_keeps ==
  ASSUME Inductive, NEW p \in Proc, ref_unlock(p)
  PROVE  Inductive'
<1>1. CASE memory[at[p]] # "live"
  BY <1>1, FaultKeeps DEF ref_unlock, Using, Faults
<1>2. CASE memory[at[p]] = "live"
  <2>a. /\ pc[p] \in {"child_unlock", "own_unlock"}
        /\ lock' = [lock EXCEPT ![at[p]] = NULL]
        /\ pc' = [pc EXCEPT ![p] = Then[pc[p]]]
        /\ UNCHANGED <<at, next, tmp, children, ref_cnt, exit_code, load_code, dead,
                       load_finished, memory, history, fault>>
    BY <1>2 DEF ref_unlock, Using, Goto
  <2>b. at[p] \in Proc /\ (pc[p] = "child_unlock" => at[p] \in Range(children[p]))
        /\ (pc[p] = "own_unlock" => at[p] = p)
    BY <2>a, Known DEF AtInv, AtOK, DropsChild, DropsOwn
  <2>c. Then[pc[p]] = IF pc[p] = "child_unlock" THEN "child_next" ELSE "own_test"
    BY <2>a DEF Then
  <2>d. CallTypes' /\ OthersStay(p) /\ pc'[p] = Then[pc[p]]
    BY <2>a, <2>b, <2>c, Known DEF CallTypes, OthersStay, Label
  <2>e. StatusTypes' /\ lock'[at[p]] = NULL /\ \A s \in Proc \ {at[p]} : lock'[s] = lock[s]
    BY SMTT(30), <2>a, <2>b, Known DEF StatusTypes
  <2>f. TypeOK' /\ parent' = parent
    BY <2>a, <2>d, <2>e, Known DEF TypeOK, HistoryTypes, history
  <2>g. /\ pc[p] \notin Unfinished \cup Starting /\ pc[p] \in Locking
        /\ pc'[p] \notin Unfinished \cup Starting \cup Locking
        /\ pc[p] \in OwnTest => pc'[p] \in OwnTest
        /\ pc[p] \in ChildTest => pc'[p] \in ChildTest
        /\ pc[p] \notin {"leaving", "gone"}
    BY <2>a, <2>c, <2>d DEF Unfinished, Starting, Locking, OwnTest, ChildTest
  <2>1. ListInv'
    BY <2>a, <2>d, <2>f, <2>g, ListStill DEF Starting
  <2>2. AtOK(p)'
    BY <2>a, <2>b, <2>c, <2>d DEF AtOK, InCall, DropsChild, DropsOwn
  <2>3. LockInv'
    <3>1. LockInv /\ \A q \in Proc : pc[q] \in Locking => at[q] \in Proc
      BY Known DEF AtInv, AtOK, Locking, DropsChild, DropsOwn
    <3>2. \A q \in Proc \ {p} : pc[q] \in Locking => at[q] # at[p]
      BY <2>g, <3>1 DEF LockInv
    <3>3. \A s \in Proc \ {at[p]} : lock[s] # p
      BY <3>1 DEF LockInv
    <3>4. /\ \A q, s \in Proc : lock'[s] = q => at'[q] = s /\ pc'[q] \in Locking
          /\ \A q \in Proc : pc'[q] \in Locking => lock'[at'[q]] = q
      BY <2>a, <2>b, <2>d, <2>e, <2>g, <3>1, <3>2, <3>3, ProcAssumption DEF LockInv, OthersStay
    <3>5. \A q \in Proc : pc'[q] \in {"child_write", "own_write"} => tmp'[q] = ref_cnt'[at'[q]]
      BY <2>a, <2>c, <2>d, <3>1 DEF LockInv, OthersStay
    <3> QED BY <3>4, <3>5 DEF LockInv
  <2>4. \A s \in Proc : Dropped(p, s)' <=> Dropped(p, s)
    BY SMTT(30), <2>a, <2>c, <2>d DEF Dropped
  <2>5. CountInv' /\ FreeInv'
    BY <2>a, <2>d, <2>f, <2>g, <2>4, Known, DropFrame
  <2> QED BY SMTT(30), <2>a, <2>d, <2>f, <2>g, <2>1, <2>2, <2>3, <2>5, ExitKeeps
<1> QED BY <1>1, <1>2

\* What ref_cnt-- writes: the holder of the lock has read the current value.
LEMMA ref_write_keeps ==
  ASSUME Inductive, NEW p \in Proc, ref_write(p)
  PROVE  Inductive'
<1>1. CASE memory[at[p]] # "live"
  BY <1>1, FaultKeeps DEF ref_write, Using, Faults
<1>2. CASE memory[at[p]] = "live"
  <2>a. /\ pc[p] \in {"child_write", "own_write"}
        /\ ref_cnt' = [ref_cnt EXCEPT ![at[p]] = tmp[p] - 1]
        /\ tmp' = [tmp EXCEPT ![p] = 0]
        /\ pc' = [pc EXCEPT ![p] = Then[pc[p]]]
        /\ UNCHANGED <<at, next, children, exit_code, load_code, dead, load_finished,
                       lock, memory, history, fault>>
    BY <1>2 DEF ref_write, Using, Goto
  <2>b. at[p] \in Proc /\ (pc[p] = "child_write" => at[p] \in Range(children[p]))
        /\ (pc[p] = "own_write" => at[p] = p)
    BY <2>a, Known DEF AtInv, AtOK, DropsChild, DropsOwn
  <2>c. Then[pc[p]] = IF pc[p] = "child_write" THEN "child_unlock" ELSE "own_unlock"
    BY <2>a DEF Then
  <2>d. CallTypes' /\ OthersStay(p) /\ pc'[p] = Then[pc[p]]
    BY <2>a, <2>b, <2>c, Known DEF CallTypes, OthersStay, Label
  <2>h. tmp[p] = ref_cnt[at[p]] /\ tmp[p] \in Int
    BY <2>a, Known DEF LockInv, CallTypes
  <2>e. /\ StatusTypes' /\ ref_cnt'[at[p]] = ref_cnt[at[p]] - 1
        /\ \A s \in Proc \ {at[p]} : ref_cnt'[s] = ref_cnt[s]
    BY SMTT(30), <2>a, <2>b, <2>h, Known DEF StatusTypes
  <2>f. TypeOK' /\ parent' = parent
    BY <2>a, <2>d, <2>e, Known DEF TypeOK, HistoryTypes, history
  <2>g. /\ pc[p] \notin Unfinished \cup Starting /\ pc[p] \in Locking
        /\ pc'[p] \notin Unfinished \cup Starting /\ pc'[p] \in Locking
        /\ pc'[p] \notin {"child_write", "own_write"}
        /\ pc[p] \notin {"leaving", "gone"}
    BY <2>a, <2>c, <2>d DEF Unfinished, Starting, Locking
  <2>1. ListInv'
    BY <2>a, <2>d, <2>f, <2>g, ListStill DEF Starting
  <2>2. AtOK(p)'
    BY <2>a, <2>b, <2>c, <2>d DEF AtOK, InCall, DropsChild, DropsOwn
  <2>3. LockInv'
    <3>1. LockInv /\ \A q \in Proc : pc[q] \in Locking => at[q] \in Proc
      BY Known DEF AtInv, AtOK, Locking, DropsChild, DropsOwn
    <3>2. \A q \in Proc \ {p} : pc[q] \in Locking => at[q] # at[p]
      BY <2>g, <3>1 DEF LockInv
    <3>4. /\ \A q, s \in Proc : lock'[s] = q => at'[q] = s /\ pc'[q] \in Locking
          /\ \A q \in Proc : pc'[q] \in Locking => lock'[at'[q]] = q
      BY <2>a, <2>d, <2>g, <3>1 DEF LockInv, OthersStay
    <3>5. \A q \in Proc : pc'[q] \in {"child_write", "own_write"} => tmp'[q] = ref_cnt'[at'[q]]
      BY SMTT(30), <2>a, <2>d, <2>e, <2>g, <3>1, <3>2 DEF LockInv, OthersStay, Locking
    <3> QED BY <3>4, <3>5 DEF LockInv
  <2>4. ~Dropped(p, at[p]) /\ Dropped(p, at[p])'
    <3>1. IsInjective(children[p]) /\ children[p] \in Seq(Proc)
      BY Known
    <3>2. ~Before(children[p], at[p], at[p])
      BY <3>1 DEF Before, IsInjective
    <3>3. at[p] # p \/ pc[p] = "own_write"
      BY <2>a, <2>b, Known DEF ListInv
    <3> QED BY <2>a, <2>b, <2>c, <2>d, <3>2, <3>3 DEF Dropped
  <2>5. \A s \in Proc \ {at[p]} : Dropped(p, s)' <=> Dropped(p, s)
    BY <2>a, <2>b, <2>c, <2>d DEF Dropped
  <2>6. ASSUME NEW s \in Proc, NEW q \in Proc \ {p}
        PROVE  Dropped(q, s)' <=> Dropped(q, s)
    BY <2>d DEF Dropped, OthersStay
  <2>7. \A s \in Proc : memory[s] = "live" => parent[s] \in Proc /\ parent[s] # s
    BY Known DEF ListInv
  <2>8. at[p] = p \/ parent[at[p]] = p
    BY <2>a, <2>b, Known DEF ListInv
  <2>9. CountInv'
    <3>1. ASSUME NEW s \in Proc, s # at[p], memory[s] = "live"
          PROVE  ref_cnt'[s] = Keeps(s, s)' + Keeps(parent[s], s)'
      BY <2>e, <2>f, <2>5, <2>6, <2>7, <3>1, Known DEF CountInv, Keeps
    <3>2. ref_cnt'[at[p]] = Keeps(at[p], at[p])' + Keeps(parent[at[p]], at[p])'
      <4>1. parent[at[p]] \in Proc /\ parent[at[p]] # at[p]
        BY <1>2, <2>b, <2>7
      <4>2. ref_cnt[at[p]] = Keeps(at[p], at[p]) + Keeps(parent[at[p]], at[p])
        BY <1>2, <2>b, Known DEF CountInv
      <4>3. CASE at[p] = p
        BY SMTT(30), <2>a, <2>e, <2>f, <2>4, <2>6, <4>1, <4>2, <4>3 DEF Keeps
      <4>4. CASE at[p] # p /\ parent[at[p]] = p
        BY SMTT(30), <2>a, <2>b, <2>e, <2>f, <2>4, <2>6, <4>1, <4>2, <4>4 DEF Keeps
      <4> QED BY <2>8, <4>3, <4>4
    <3> QED BY <2>a, <2>b, <2>f, <3>1, <3>2 DEF CountInv
  <2>10. FreeInv'
    <3> SUFFICES ASSUME NEW s \in Proc, memory[s] = "live", Dropped(s, s)', Dropped(parent[s], s)'
                 PROVE  \/ pc'[s] \in OwnTest
                        \/ pc'[parent[s]] \in ChildTest /\ at'[parent[s]] = s
      BY SMTT(30), <2>a, <2>f DEF FreeInv, OwnTest, ChildTest
    <3>1. CASE s = at[p]
      BY SMTT(30), <2>a, <2>b, <2>c, <2>d, <3>1, Known DEF ListInv, OwnTest, ChildTest
    <3>2. CASE s # at[p]
      <4>1. Dropped(s, s) /\ Dropped(parent[s], s)
        BY <2>f, <2>5, <2>6, <2>7, <3>2
      <4>2. \/ pc[s] \in OwnTest
            \/ pc[parent[s]] \in ChildTest /\ at[parent[s]] = s
        BY <4>1, Known DEF FreeInv, OwnTest, ChildTest
      <4>3. pc[p] \notin OwnTest \cup ChildTest
        BY <2>a DEF OwnTest, ChildTest
      <4> QED BY <2>d, <2>7, <4>2, <4>3 DEF OthersStay
    <3> QED BY <3>1, <3>2
  <2> QED BY SMTT(30), <2>a, <2>d, <2>f, <2>g, <2>1, <2>2, <2>3, <2>9, <2>10, ExitKeeps
<1> QED BY <1>1, <1>2

\* The child frees its wait status exactly if its parent has dropped it too.
LEMMA own_test_keeps ==
  ASSUME Inductive, NEW p \in Proc, own_test(p)
  PROVE  Inductive'
<1>1. CASE memory[p] # "live"
  BY <1>1, FaultKeeps DEF own_test, Using, Faults
<1>2. CASE memory[p] = "live"
  <2>a. /\ pc[p] = "own_test"
        /\ IF ref_cnt[p] = 0 THEN memory' = [memory EXCEPT ![p] = "freed"] /\ dead' = dead
           ELSE dead' = [dead EXCEPT ![p] = @ + 1] /\ memory' = memory
        /\ pc' = [pc EXCEPT ![p] = "leaving"]
        /\ at' = [at EXCEPT ![p] = NULL]
        /\ UNCHANGED <<next, tmp, children, ref_cnt, exit_code, load_code,
                       load_finished, lock, history, fault>>
    BY <1>2 DEF own_test, At, Using, LastRef, free, Goto
  <2>b. CallTypes' /\ OthersStay(p) /\ pc'[p] = "leaving"
    BY <2>a, Known DEF CallTypes, OthersStay, Label
  <2>c. memory \in [Proc -> {"none", "live", "freed"}] /\ dead \in [Proc -> Int]
    BY SMTT(30), Known DEF StatusTypes
  <2>d. /\ memory' \in [Proc -> {"none", "live", "freed"}]
        /\ \A s \in Proc \ {p} : memory'[s] = memory[s]
        /\ memory'[p] # "none" /\ (memory'[p] = "live" => ref_cnt[p] # 0)
    BY <1>2, <2>a, <2>c
  <2>e. dead' \in [Proc -> Int] /\ \A s \in Proc \ {p} : dead'[s] = dead[s]
    BY <2>a, <2>c
  <2>f. StatusTypes'
    BY <2>a, <2>d, <2>e, Known DEF StatusTypes
  <2>g. TypeOK' /\ parent' = parent
    BY <2>a, <2>b, <2>f, Known DEF TypeOK, HistoryTypes, history
  <2>h. /\ pc[p] \notin Unfinished \cup Starting \cup Locking
        /\ pc'[p] \notin Unfinished \cup Starting \cup Locking
        /\ pc[p] \notin ChildTest /\ pc[p] \notin {"leaving", "gone"}
    BY <2>a, <2>b DEF Unfinished, Starting, Locking, ChildTest
  <2>1. ListInv'
    BY SMTT(30), <1>2, <2>a, <2>b, <2>d, <2>g, <2>h, ListStill DEF Starting
  <2>2. AtOK(p)'
    BY SMTT(30), <2>b DEF AtOK, InCall, DropsChild, DropsOwn
  <2>3. LockInv'
    BY <2>a, <2>b, <2>h, Known, LockStill
  <2>4. \A s \in Proc : Dropped(p, s)' <=> Dropped(p, s)
    BY <2>a, <2>b DEF Dropped
  <2>5. memory'[p] = "live" => ~Dropped(parent[p], p)
    <3>1. Dropped(p, p)
      BY <2>a DEF Dropped
    <3>2. ref_cnt[p] = Keeps(p, p) + Keeps(parent[p], p)
      BY SMTT(30), <1>2, Known DEF CountInv
    <3> QED BY <2>d, <3>1, <3>2 DEF Keeps
  <2>6. CountInv' /\ FreeInv'
    BY SMTT(30), <1>2, <2>a, <2>b, <2>d, <2>g, <2>h, <2>4, <2>5, Known, DropFrame
  <2> QED BY SMTT(30), <2>a, <2>b, <2>e, <2>g, <2>h, <2>1, <2>2, <2>3, <2>6, ExitKeeps
<1> QED BY <1>1, <1>2

\* Taking s, which is freed with it, off the list of p.
LEMMA ListRemoved ==
  ASSUME Inductive, NEW p \in Proc, OthersStay(p), parent' = parent,
         NEW s \in Range(children[p]),
         children' = [children EXCEPT ![p] = list_remove(@, s)],
         memory' = [memory EXCEPT ![s] = "freed"],
         pc[p] # "none", pc'[p] # "none"
  PROVE  /\ ListInv' /\ children' \in [Proc -> Seq(Proc)]
         /\ memory' \in [Proc -> {"none", "live", "freed"}]
         /\ s \in Proc /\ memory'[s] # "live" /\ \A q \in Proc \ {s} : memory'[q] = memory[q]
         /\ Range(children'[p]) = Range(children[p]) \ {s}
         /\ \A a, e : a # s /\ e # s =>
              (Before(children'[p], a, e) <=> Before(children[p], a, e))
<1>a. /\ children \in [Proc -> Seq(Proc)] /\ children[p] \in Seq(Proc)
      /\ memory \in [Proc -> {"none", "live", "freed"}]
      /\ IsInjective(children[p]) /\ s \in Proc
      /\ ListInv /\ \A q \in Proc : Range(children[q]) \subseteq Proc
  BY SMTT(30), Known DEF CallTypes, StatusTypes
<1> DEFINE r == list_remove(children[p], s)
<1>b. /\ r \in Seq(Proc) /\ IsInjective(r) /\ Range(r) = Range(children[p]) \ {s}
      /\ \A a, e : a # s /\ e # s => (Before(r, a, e) <=> Before(children[p], a, e))
  BY <1>a, RemoveEffect
<1>c. children'[p] = r
  BY <1>a
<1>d. children' \in [Proc -> Seq(Proc)]
  BY <1>a, <1>b
<1> HIDE DEF r
<1>e. /\ memory' \in [Proc -> {"none", "live", "freed"}]
      /\ memory'[s] = "freed" /\ \A q \in Proc \ {s} : memory'[q] = memory[q]
  BY <1>a
<1>1. ListInv'
  <2>1. \A q \in Proc : IsInjective(children'[q]) /\ parent'[q] # q
    BY <1>a, <1>b, <1>c DEF ListInv, OthersStay
  <2>2. \A q \in Proc : \A e \in Range(children'[q]) : parent'[e] = q /\ pc'[e] # "none"
    <3>1. ASSUME NEW q \in Proc, NEW e \in Range(children'[q]) PROVE e \in Range(children[q])
      BY <1>b, <1>c DEF OthersStay
    <3> QED BY ZenonT(60), <1>a, <3>1 DEF ListInv, OthersStay
  <2>3. \A e \in Proc : memory'[e] = "live" =>
          parent'[e] \in Proc /\ e \in Range(children'[parent'[e]])
    BY <1>a, <1>b, <1>c, <1>e DEF ListInv, OthersStay
  <2>4. \A e \in Proc \ {main} : memory'[e] = "none" => pc'[e] = "none"
    BY ZenonT(60), <1>a, <1>e DEF ListInv, OthersStay
  <2> QED BY SMTT(30), <2>1, <2>2, <2>3, <2>4 DEF ListInv
<1> QED BY <1>a, <1>b, <1>c, <1>d, <1>e, <1>1

\* The parent reads the exit code of a program that has ended and frees the status.
LEMMA wait_reap_keeps ==
  ASSUME Inductive, NEW p \in Proc, wait_reap(p)
  PROVE  Inductive'
<1>1. CASE memory[at[p]] # "live"
  BY <1>1, FaultKeeps DEF wait_reap, Using, Faults
<1>2. CASE memory[at[p]] = "live"
  <2>a. /\ pc[p] = "wait_reap"
        /\ result' = [result EXCEPT ![at[p]] = exit_code[at[p]]]
        /\ children' = [children EXCEPT ![p] = list_remove(@, at[p])]
        /\ memory' = [memory EXCEPT ![at[p]] = "freed"]
        /\ pc' = [pc EXCEPT ![p] = "run"]
        /\ at' = [at EXCEPT ![p] = NULL]
        /\ UNCHANGED <<next, tmp, ref_cnt, exit_code, load_code, dead, load_finished,
                       lock, parent, ended, fault>>
    BY <1>2 DEF wait_reap, At, Using, free, Goto
  <2>b. PICK s \in Range(children[p]) : s = at[p] /\ s \in Proc
    BY <2>a, Known DEF InCall
  <2>c. /\ pc' \in [Proc -> Label] /\ at' \in [Proc -> Proc \cup {NULL}]
        /\ OthersStay(p) /\ pc'[p] = "run"
    BY <2>a, Known DEF CallTypes, OthersStay, Label
  <2>1. /\ ListInv' /\ children' \in [Proc -> Seq(Proc)]
        /\ memory' \in [Proc -> {"none", "live", "freed"}]
        /\ memory'[s] # "live" /\ \A q \in Proc \ {s} : memory'[q] = memory[q]
    BY ZenonT(60), <2>a, <2>b, <2>c, ListRemoved
  <2>2. TypeOK' /\ \A q \in Proc : result'[q] = IF q = s THEN exit_code[s] ELSE result[q]
    <3>1. CallTypes' /\ StatusTypes'
      BY SMTT(30), <2>a, <2>c, <2>1, Known DEF CallTypes, StatusTypes
    <3>2. exit_code[s] \in Int
      BY <2>b, Known DEF StatusTypes
    <3>3. HistoryTypes' /\ \A q \in Proc : result'[q] = IF q = s THEN exit_code[s] ELSE result[q]
      BY <2>a, <2>b, <3>2, Known DEF HistoryTypes
    <3> QED BY <3>1, <3>3 DEF TypeOK
  <2>d. /\ pc[p] \in Before_exit /\ pc'[p] \in Before_exit
        /\ pc[p] \notin Locking /\ pc'[p] \notin Locking \cup Starting
        /\ pc[p] \in Unfinished /\ pc'[p] \in Unfinished
    BY <2>a, <2>c DEF Before_exit, Unfinished, Starting, Locking
  <2>3. AtInv'
    <3>1. AtOK(p)'
      BY <2>c DEF AtOK, InCall, DropsChild, DropsOwn
    <3> QED BY <3>1, <2>c, Known DEF AtInv, AtOK, OthersStay
  <2>4. LockInv'
    BY SMTT(30), <2>a, <2>c, <2>d, Known, LockStill
  <2>5. CountInv' /\ FreeInv'
    BY SMTT(30), <2>a, <2>c, <2>d, <2>1, Known, QuietFrame
  <2>6. LoadInv'
    <3>1. LoadInv /\ \A q \in Proc : pc[q] = "exec_code" => at[q] \in Proc
      BY Known DEF InCall
    <3>2. ASSUME NEW q \in Proc, pc'[q] = "exec_code"
          PROVE  pc'[at'[q]] \notin {"none", "load"}
      <4>1. q # p /\ pc[q] = "exec_code" /\ at'[q] = at[q]
        BY SMTT(30), <2>c, <3>2 DEF OthersStay
      <4> QED BY <2>c, <3>1, <4>1 DEF LoadInv, OthersStay
    <3> QED BY SMTT(30), <2>a, <2>c, <2>d, <3>1, <3>2 DEF LoadInv, OthersStay
  <2>7. EndInv'
    <3>0. EndInv
      BY SMTT(30), Known
    <3>1. \A q \in Proc : ended[q].how = "no" <=> pc'[q] \in Unfinished
      BY SMTT(30), <2>c, <2>d, <3>0 DEF EndInv, OthersStay
    <3>2. \A q \in Proc : dead[q] > 0 => pc'[q] \in {"leaving", "gone"}
      BY SMTT(30), <2>a, <2>c, <3>0 DEF EndInv, OthersStay
    <3>3. \A q \in Proc : pc'[q] = "wait_reap" => ended[at'[q]].how # "no"
      BY <2>c, <3>0 DEF EndInv, OthersStay
    <3>4. CodeReturned'
      BY SMTT(30), <2>a, <2>b, <2>2, <3>0 DEF EndInv, CodeReturned
    <3> QED BY <2>a, <3>0, <3>1, <3>2, <3>3, <3>4 DEF EndInv
  <2> QED BY <2>1, <2>2, <2>3, <2>4, <2>5, <2>6, <2>7 DEF Inductive
<1> QED BY <1>1, <1>2

\* The parent frees the status of a child that has dropped it and goes on.
LEMMA child_test_keeps ==
  ASSUME Inductive, NEW p \in Proc, child_test(p)
  PROVE  Inductive'
<1>1. CASE memory[at[p]] # "live"
  BY SMTT(30), <1>1, FaultKeeps DEF child_test, Using, Faults
<1>2. CASE memory[at[p]] = "live"
  <2>a. /\ pc[p] = "child_test"
        /\ at' = [at EXCEPT ![p] = IF next[p] = NULL THEN p ELSE next[p]]
        /\ pc' = [pc EXCEPT ![p] = IF next[p] = NULL THEN "own_lock" ELSE "child_lock"]
        /\ next' = [next EXCEPT ![p] = NULL]
        /\ IF ref_cnt[at[p]] = 0
           THEN /\ children' = [children EXCEPT ![p] = list_remove(@, at[p])]
                /\ memory' = [memory EXCEPT ![at[p]] = "freed"]
           ELSE UNCHANGED <<children, memory>>
        /\ UNCHANGED <<tmp, ref_cnt, exit_code, load_code, dead, load_finished, lock,
                       history, fault>>
    BY <1>2 DEF child_test, At, Using, Advance, LastRef, free, Goto
  <2>b. PICK s \in Range(children[p]) : s = at[p] /\ s \in Proc
    BY <2>a, Known DEF DropsChild
  <2> DEFINE e == next[p]
  <2>c. /\ e = list_next(children[p], s) /\ e \in Proc \cup {NULL}
        /\ NULL \notin Proc /\ parent[s] = p
    BY SMTT(30), <2>a, <2>b, Known, ProcAssumption DEF CallTypes, AtInv, AtOK, ListInv
  <2>d. /\ e = NULL => \A a \in Range(children[p]) \ {s} : Before(children[p], a, s)
        /\ e # NULL =>
             /\ e \in Range(children[p]) \ {s} /\ Before(children[p], s, e)
             /\ \A a : a # s => (Before(children[p], a, e) <=> Before(children[p], a, s))
    BY SMTT(30), <2>b, <2>c, Known, NextEffect
  <2>e. /\ pc' \in [Proc -> Label] /\ at' \in [Proc -> Proc \cup {NULL}]
        /\ next' \in [Proc -> Proc \cup {NULL}]
        /\ pc'[p] = (IF e = NULL THEN "own_lock" ELSE "child_lock")
        /\ at'[p] = (IF e = NULL THEN p ELSE e)
        /\ OthersStay(p)
    BY <2>a, <2>c, Known DEF CallTypes, OthersStay, Label
  <2> HIDE DEF e
  <2>f. /\ pc[p] \notin Unfinished \cup Starting \cup Locking
        /\ pc'[p] \notin Unfinished \cup Starting \cup Locking
        /\ pc[p] \notin OwnTest /\ pc[p] \notin {"leaving", "gone"}
    BY <2>a, <2>e DEF Unfinished, Starting, Locking, OwnTest
  <2>g. parent' = parent
    BY SMTT(30), <2>a DEF history
  <2>1. /\ ListInv' /\ children' \in [Proc -> Seq(Proc)]
        /\ memory' \in [Proc -> {"none", "live", "freed"}]
        /\ memory'[s] = "live" => ref_cnt[s] # 0
        /\ \A q \in Proc \ {s} : memory'[q] = memory[q]
        /\ Range(children[p]) \ {s} \subseteq Range(children'[p])
        /\ \A a, b : a # s /\ b # s =>
              (Before(children'[p], a, b) <=> Before(children[p], a, b))
        /\ memory'[s] = "live" => children' = children
    <3>1. CASE ref_cnt[s] = 0
      <4>1. /\ children' = [children EXCEPT ![p] = list_remove(@, s)]
            /\ memory' = [memory EXCEPT ![s] = "freed"]
        BY <2>a, <2>b, <3>1
      <4>2. pc[p] # "none" /\ pc'[p] # "none"
        BY <2>f DEF Starting
      <4>3. /\ ListInv' /\ children' \in [Proc -> Seq(Proc)]
            /\ memory' \in [Proc -> {"none", "live", "freed"}]
            /\ memory'[s] # "live" /\ \A q \in Proc \ {s} : memory'[q] = memory[q]
            /\ Range(children'[p]) = Range(children[p]) \ {s}
            /\ \A a, b : a # s /\ b # s =>
                 (Before(children'[p], a, b) <=> Before(children[p], a, b))
        BY ZenonT(60), <2>e, <2>g, <4>1, <4>2, ListRemoved
      <4> QED BY <4>3
    <3>2. CASE ref_cnt[s] # 0
      <4>1. children' = children /\ memory' = memory
        BY <2>a, <2>b, <3>2
      <4>2. ListInv'
        BY <2>e, <2>f, <2>g, <4>1, ListStill DEF Starting
      <4> QED BY <3>2, <4>1, <4>2, Known DEF CallTypes, StatusTypes
    <3> QED BY SMTT(30), <3>1, <3>2
  <2>2. TypeOK'
    <3>1. CallTypes' /\ StatusTypes'
      BY ZenonT(60), <2>a, <2>e, <2>1, Known DEF CallTypes, StatusTypes
    <3> QED BY <2>a, <3>1, Known DEF TypeOK, HistoryTypes, history
  <2>3. AtOK(p)'
    BY <2>d, <2>e, <2>1 DEF AtOK, InCall, DropsChild, DropsOwn
  <2>4. LockInv'
    BY <2>a, <2>e, <2>f, Known, LockStill
  <2>5. ASSUME NEW q \in Proc, memory'[q] = "live", q = p \/ parent[q] = p
        PROVE  Dropped(p, q)' <=> Dropped(p, q)
    <3>1. CASE q = p
      BY <2>a, <2>e, <3>1 DEF Dropped
    <3>2. CASE q = s /\ q # p
      <4>1. Dropped(p, q)
        BY SMTT(30), <2>a, <2>b, <3>2 DEF Dropped
      <4>2. children' = children
        BY SMTT(30), <2>1, <2>5, <3>2
      <4>3. Dropped(p, q)'
        BY <2>d, <2>e, <3>2, <4>2 DEF Dropped
      <4> QED BY <4>1, <4>3
    <3>3. CASE q # s /\ q # p
      <4>1. q \in Range(children[p])
        BY ZenonT(60), <2>1, <2>5, <3>3, Known DEF ListInv
      <4>2. Dropped(p, q) <=> Before(children[p], q, s)
        BY <2>a, <2>b, <3>3 DEF Dropped
      <4>3. CASE e = NULL
        BY <2>d, <2>e, <3>3, <4>1, <4>2, <4>3 DEF Dropped
      <4>4. CASE e # NULL
        <5>1. Before(children'[p], q, e) <=> Before(children[p], q, s)
          BY SMTT(30), <2>d, <2>1, <3>3, <4>4
        <5> QED BY SMTT(30), <2>e, <3>3, <4>2, <4>4, <5>1 DEF Dropped
      <4> QED BY SMTT(30), <4>3, <4>4
    <3> QED BY <3>1, <3>2, <3>3
  <2>6. memory'[s] = "live" => ~Dropped(s, s)
    <3>1. s # p
      BY <2>c, Known DEF ListInv
    <3>2. Dropped(p, s)
      BY SMTT(30), <2>a, <2>b, <3>1 DEF Dropped
    <3> QED BY SMTT(30), <1>2, <2>b, <2>c, <2>1, <3>2, Known DEF CountInv, Keeps
  <2>7. CountInv' /\ FreeInv'
    <3>1. \A q \in Proc : memory'[q] = "live" => memory[q] = "live" /\ ref_cnt'[q] = ref_cnt[q]
      BY <1>2, <2>a, <2>b, <2>1
    <3> QED BY SMTT(30), <2>b, <2>e, <2>f, <2>g, <2>5, <2>6, <3>1, Known, DropFrame
  <2> QED BY ZenonT(60), <2>a, <2>e, <2>f, <2>1, <2>2, <2>3, <2>4, <2>7, ExitKeeps
<1> QED BY <1>1, <1>2

\* process_execute() makes a child and its wait status.
LEMMA process_execute_keeps ==
  ASSUME Inductive, NEW p \in Proc, NEW c \in Proc, process_execute(p, c)
  PROVE  Inductive'
<1>a. /\ pc[p] = "run" /\ pc[c] = "none"
      /\ pc' = [pc EXCEPT ![p] = "exec_find", ![c] = "load"]
      /\ at' = [at EXCEPT ![p] = c]
      /\ children' = [children EXCEPT ![p] = Append(@, c)]
      /\ ref_cnt' = [ref_cnt EXCEPT ![c] = 2]
      /\ memory' = [memory EXCEPT ![c] = "live"]
      /\ parent' = [parent EXCEPT ![c] = p]
      /\ UNCHANGED <<next, tmp, exit_code, load_code, dead, load_finished, lock,
                     fault, ended, result>>
  BY DEF process_execute, At
<1>b. p # c
  BY SMTT(30), <1>a
<1>c. /\ pc' \in [Proc -> Label] /\ pc'[p] = "exec_find" /\ pc'[c] = "load"
      /\ \A q \in Proc \ {p, c} : pc'[q] = pc[q]
  BY ZenonT(60), <1>a, <1>b, Known DEF CallTypes, Label
<1>d. /\ at' \in [Proc -> Proc \cup {NULL}] /\ at'[p] = c
      /\ \A q \in Proc \ {p} : at'[q] = at[q]
  BY <1>a, Known DEF CallTypes
<1>e. /\ ref_cnt' \in [Proc -> Int] /\ ref_cnt'[c] = 2
      /\ \A q \in Proc \ {c} : ref_cnt'[q] = ref_cnt[q]
  BY <1>a, Known DEF StatusTypes
<1>f. /\ memory' \in [Proc -> {"none", "live", "freed"}] /\ memory'[c] = "live"
      /\ \A q \in Proc \ {c} : memory'[q] = memory[q]
  BY <1>a, Known DEF StatusTypes
<1>g. /\ parent' \in [Proc -> Proc \cup {NULL}] /\ parent'[c] = p
      /\ \A q \in Proc \ {c} : parent'[q] = parent[q]
  BY <1>a, Known DEF HistoryTypes
<1>h. /\ children \in [Proc -> Seq(Proc)] /\ children[p] \in Seq(Proc)
      /\ IsInjective(children[p])
      /\ \A q \in Proc : c \notin Range(children[q]) /\ Range(children[q]) \subseteq Proc
  BY <1>a, Known DEF CallTypes, ListInv
<1>i. /\ children' \in [Proc -> Seq(Proc)] /\ children'[p] = Append(children[p], c)
      /\ \A q \in Proc \ {p} : children'[q] = children[q]
  BY <1>a, <1>h
<1>j. IsInjective(children'[p]) /\ Range(children'[p]) = Range(children[p]) \cup {c}
  BY SMTT(30), <1>h, <1>i, AppendMembers
<1>k. \A q \in Proc \ {p, c} :
        /\ pc'[q] = pc[q] /\ at'[q] = at[q] /\ next'[q] = next[q] /\ tmp'[q] = tmp[q]
        /\ children'[q] = children[q]
  BY <1>a, <1>c, <1>d, <1>i
<1>1. TypeOK'
  <2>1. CallTypes'
    BY ZenonT(60), <1>a, <1>c, <1>d, <1>i, Known DEF CallTypes
  <2>2. StatusTypes' /\ HistoryTypes'
    BY SMTT(30), <1>a, <1>e, <1>f, <1>g, Known DEF StatusTypes, HistoryTypes
  <2> QED BY SMTT(30), <2>1, <2>2 DEF TypeOK
<1>2. ListInv'
  <2>0. ListInv
    BY SMTT(30), Known
  <2>1. \A q \in Proc : IsInjective(children'[q]) /\ parent'[q] # q
    BY ZenonT(60), <1>b, <1>g, <1>i, <1>j, <2>0 DEF ListInv
  <2>2. \A q \in Proc : \A s \in Range(children'[q]) : parent'[s] = q /\ pc'[s] # "none"
    <3> SUFFICES ASSUME NEW q \in Proc, NEW s \in Range(children'[q])
                 PROVE  parent'[s] = q /\ pc'[s] # "none"
      OBVIOUS
    <3>1. CASE s = c
      BY <1>c, <1>g, <1>h, <1>i, <3>1
    <3>2. CASE s # c
      <4>1. s \in Range(children[q]) /\ s \in Proc
        <5>1. CASE q = p
          BY <1>h, <1>j, <3>2, <5>1
        <5>2. CASE q # p
          BY SMTT(30), <1>h, <1>i, <5>2
        <5> QED BY <5>1, <5>2
      <4> QED BY <1>c, <1>g, <2>0, <3>2, <4>1 DEF ListInv
    <3> QED BY <3>1, <3>2
  <2>3. \A s \in Proc : memory'[s] = "live" =>
          parent'[s] \in Proc /\ s \in Range(children'[parent'[s]])
    <3>1. p \in Proc /\ c \in Range(children'[p])
      BY <1>j
    <3>2. ASSUME NEW s \in Proc \ {c}, memory'[s] = "live"
          PROVE  parent'[s] \in Proc /\ s \in Range(children'[parent'[s]])
      <4>1. parent'[s] = parent[s] /\ parent[s] \in Proc /\ s \in Range(children[parent[s]])
        BY SMTT(30), <1>f, <1>g, <2>0, <3>2 DEF ListInv
      <4>2. CASE parent[s] = p
        BY <1>j, <4>1, <4>2
      <4>3. CASE parent[s] # p
        BY SMTT(30), <1>i, <4>1, <4>3
      <4> QED BY SMTT(30), <4>2, <4>3
    <3> QED BY SMTT(30), <1>g, <3>1, <3>2
  <2>4. \A s \in Proc \ {main} : memory'[s] = "none" => pc'[s] = "none"
    BY SMTT(30), <1>a, <1>c, <1>f, <2>0 DEF ListInv
  <2> QED BY <2>1, <2>2, <2>3, <2>4 DEF ListInv
<1>3. AtInv'
  <2>1. AtOK(p)' /\ AtOK(c)'
    BY SMTT(30), <1>c, <1>d, <1>j DEF AtOK, InCall, DropsChild, DropsOwn
  <2> QED BY SMTT(30), <2>1, <1>k, Known DEF AtInv, AtOK
<1>l. /\ pc[p] \notin Locking /\ pc[c] \notin Locking /\ pc'[p] \notin Locking /\ pc'[c] \notin Locking
      /\ pc[p] \in Unfinished /\ pc'[p] \in Unfinished /\ pc[c] \in Unfinished /\ pc'[c] \in Unfinished
      /\ pc[c] \in Starting /\ pc'[p] \notin Starting
  BY SMTT(30), <1>a, <1>c DEF Locking, Unfinished, Starting
<1>4. LockInv'
  <2>1. LockInv /\ \A q \in Proc : pc[q] \in Locking => at[q] # c
    <3>1. LockInv
      BY SMTT(30), Known
    <3>2. ASSUME NEW q \in Proc, pc[q] \in Locking PROVE at[q] # c
      <4>1. at[q] \in Range(children[q]) \/ at[q] = q
        BY SMTT(30), <3>2, Known DEF AtInv, AtOK, Locking, DropsChild, DropsOwn
      <4> QED BY SMTT(30), <1>h, <1>l, <3>2, <4>1
    <3> QED BY <3>1, <3>2
  <2>2. \A q \in Proc : pc[q] \in Locking => at[q] \in Proc
    BY SMTT(30), Known DEF AtInv, AtOK, Locking, DropsChild, DropsOwn
  <2>3. /\ \A q, s \in Proc : lock'[s] = q => at'[q] = s /\ pc'[q] \in Locking
        /\ \A q \in Proc : pc'[q] \in Locking => lock'[at'[q]] = q
    <3>1. \A q \in Proc : pc'[q] \in Locking <=> pc[q] \in Locking
      BY <1>k, <1>l
    <3>2. \A q \in Proc : pc[q] \in Locking => at'[q] = at[q]
      BY <1>k, <1>l
    <3>3. /\ \A q, s \in Proc : lock[s] = q => at[q] = s /\ pc[q] \in Locking
          /\ \A q \in Proc : pc[q] \in Locking => lock[at[q]] = q
      BY <2>1 DEF LockInv
    <3> QED BY ZenonT(60), <1>a, <3>1, <3>2, <3>3
  <2>4. \A q \in Proc : pc'[q] \in {"child_write", "own_write"} => tmp'[q] = ref_cnt'[at'[q]]
    BY <1>a, <1>c, <1>e, <1>k, <1>l, <2>1, <2>2 DEF LockInv, Locking
  <2> QED BY SMTT(30), <2>3, <2>4 DEF LockInv
<1>5. /\ \A s \in Proc : ~Dropped(p, s) /\ ~Dropped(p, s)' /\ ~Dropped(c, s) /\ ~Dropped(c, s)'
      /\ \A q \in Proc \ {p, c} : \A s \in Proc : Dropped(q, s)' <=> Dropped(q, s)
  <2>1. \A s \in Proc : ~Dropped(p, s) /\ ~Dropped(p, s)' /\ ~Dropped(c, s) /\ ~Dropped(c, s)'
    BY <1>a, <1>c DEF Dropped
  <2>2. \A q \in Proc \ {p, c} : \A s \in Proc : Dropped(q, s)' <=> Dropped(q, s)
    BY <1>k DEF Dropped
  <2> QED BY <2>1, <2>2
<1>m. \A q, s \in Proc : Dropped(q, s)' <=> Dropped(q, s)
  BY <1>5
<1>n. \A s \in Proc \ {c} : memory[s] = "live" => parent'[s] = parent[s] /\ parent[s] \in Proc
  BY SMTT(30), <1>g, Known DEF ListInv
<1>6. CountInv'
  <2>1. ASSUME NEW s \in Proc \ {c}, memory'[s] = "live"
        PROVE  ref_cnt'[s] = Keeps(s, s)' + Keeps(parent[s], s)'
    <3>1. memory[s] = "live" /\ ref_cnt'[s] = ref_cnt[s] /\ parent[s] \in Proc /\ parent'[s] = parent[s]
      BY SMTT(30), <1>e, <1>f, <1>n, <2>1
    <3>2. ref_cnt[s] = Keeps(s, s) + Keeps(parent[s], s)
      BY ZenonT(60), <3>1, Known DEF CountInv
    <3> QED BY SMTT(30), <1>m, <3>1, <3>2 DEF Keeps
  <2>2. ref_cnt'[c] = Keeps(c, c)' + Keeps(parent[c], c)'
    BY <1>e, <1>g, <1>5 DEF Keeps
  <2> QED BY SMTT(30), <2>1, <2>2 DEF CountInv
<1>7. FreeInv'
  <2> SUFFICES ASSUME NEW s \in Proc, memory'[s] = "live", Dropped(s, s)', Dropped(parent[s], s)'
               PROVE  \/ pc'[s] \in OwnTest
                      \/ pc'[parent'[s]] \in ChildTest /\ at'[parent'[s]] = s
    BY DEF FreeInv, OwnTest, ChildTest
  <2>1. s # c
    BY SMTT(30), <1>5
  <2>2. memory[s] = "live" /\ parent'[s] = parent[s] /\ parent[s] \in Proc
    BY SMTT(30), <1>f, <1>n, <2>1
  <2>3. Dropped(s, s) /\ Dropped(parent[s], s)
    BY SMTT(30), <1>m, <2>2
  <2>4. \/ pc[s] \in OwnTest
        \/ pc[parent[s]] \in ChildTest /\ at[parent[s]] = s
    BY SMTT(30), <2>2, <2>3, Known DEF FreeInv, OwnTest, ChildTest
  <2>5. s # p /\ parent[s] # p /\ parent[s] # c
    BY SMTT(30), <1>5, <2>2, <2>3
  <2> QED BY <1>k, <2>1, <2>2, <2>4, <2>5
<1>8. LoadInv'
  <2>0. LoadInv
    BY Known
  <2>1. \A s \in Proc : load_finished'[s] > 0 => pc'[s] \notin Starting
    BY <1>a, <1>c, <1>l, <2>0 DEF LoadInv
  <2>2. \A q \in Proc : pc'[q] = "exec_code" => pc'[at'[q]] \notin {"none", "load"}
    <3> SUFFICES ASSUME NEW q \in Proc, pc'[q] = "exec_code"
                 PROVE  pc'[at'[q]] \notin {"none", "load"}
      OBVIOUS
    <3>1. q # p /\ q # c /\ pc[q] = "exec_code" /\ at'[q] = at[q]
      BY SMTT(30), <1>c, <1>k
    <3>2. at[q] \in Proc /\ pc[at[q]] \notin {"none", "load"}
      BY SMTT(30), <3>1, <2>0, Known DEF LoadInv, InCall
    <3> QED BY <1>a, <1>c, <3>1, <3>2
  <2> QED BY ZenonT(60), <1>a, <2>0, <2>1, <2>2 DEF LoadInv
<1>9. EndInv'
  <2>0. EndInv
    BY Known
  <2>1. \A s \in Proc : ended[s].how = "no" <=> pc'[s] \in Unfinished
    BY <1>c, <1>l, <2>0 DEF EndInv
  <2>2. \A s \in Proc : dead[s] > 0 => pc'[s] \in {"leaving", "gone"}
    BY <1>a, <1>c, <2>0 DEF EndInv
  <2>3. \A q \in Proc : pc'[q] = "wait_reap" => ended[at'[q]].how # "no"
    BY SMTT(30), <1>c, <1>k, <2>0 DEF EndInv
  <2>4. CodeReturned'
    BY <1>a, <2>0 DEF EndInv, CodeReturned
  <2> QED BY ZenonT(60), <1>a, <2>0, <2>1, <2>2, <2>3, <2>4 DEF EndInv
<1> QED BY SMTT(30), <1>1, <1>2, <1>3, <1>4, <1>6, <1>7, <1>8, <1>9 DEF Inductive

-----------------------------------------------------------------------------
(* The theorems.                                                           *)

\* Every step of every process keeps the invariant.
LEMMA NextKeeps ==
  ASSUME Inductive, [Next]_vars
  PROVE  Inductive'
<1>1. CASE UNCHANGED vars
  <2>1. fault' = fault /\ UNCHANGED <<pc, at, next, tmp, children, status_vars, history>>
    BY <1>1 DEF vars
  <2>2. fault \in Faults
    BY SMTT(30) DEF Inductive, TypeOK, CallTypes, Faults
  <2> QED BY <2>1, <2>2, FaultKeeps
<1>2. CASE Next
  <2>1. PICK p \in Proc : Call(p) \/ Continue(p)
    BY <1>2 DEF Next
  <2>2. ASSUME NEW c \in Proc, process_execute(p, c) \/ process_wait(p, c) PROVE Inductive'
    BY <2>2, process_execute_keeps, process_wait_keeps
  <2>3. CASE process_execute_fail(p)
    BY <2>3, NullChild_keeps DEF process_execute_fail, At
  <2>4. CASE \E code \in Code : sys_exit(p, code)
    BY <2>4, sys_exit_keeps
  <2>5. CASE kill(p)
    BY <2>5, kill_keeps
  <2>6. CASE exec_find(p) \/ exec_load(p) \/ exec_code(p) \/ start_process(p) \/ load_up(p)
    BY <2>6, exec_find_keeps, exec_load_keeps, exec_code_keeps, start_process_keeps, load_up_keeps
  <2>7. CASE wait_test(p) \/ wait_down(p) \/ wait_reap(p)
    BY <2>7, wait_test_keeps, wait_down_keeps, wait_reap_keeps
  <2>8. CASE process_exit(p) \/ ref_lock(p) \/ ref_write(p) \/ ref_unlock(p)
    BY <2>8, process_exit_keeps, ref_lock_keeps, ref_write_keeps, ref_unlock_keeps
  <2>9. CASE child_next(p) \/ child_test(p) \/ own_test(p) \/ leave(p)
    BY SMTT(30), <2>9, child_next_keeps, child_test_keeps, own_test_keeps, leave_keeps
  <2>10. CASE child_unlink_fault(p)
    BY SMTT(30), <2>10, FaultKeeps DEF child_unlink_fault, Faults
  <2> QED BY SMTT(30), <2>1, <2>2, <2>3, <2>4, <2>5, <2>6, <2>7, <2>8, <2>9, <2>10 DEF Call, Continue
<1> QED BY <1>1, <1>2

\* main() starts with no children.
LEMMA InitKeeps == Init => Inductive
<1> SUFFICES ASSUME Init PROVE Inductive
  OBVIOUS
<1> USE ProcAssumption DEF Init
<1>1. CallTypes
  BY DEF CallTypes, Label
<1>2. StatusTypes
  BY DEF StatusTypes
<1>3. HistoryTypes
  BY DEF HistoryTypes
<1>a. /\ \A p \in Proc : children[p] = <<>> /\ pc[p] \in {"none", "run"}
      /\ \A s \in Proc : memory[s] = "none" /\ lock[s] = NULL /\ parent[s] = NULL
      /\ \A s \in Proc : result[s] = NULL /\ dead[s] = 0 /\ load_finished[s] = 0
      /\ \A s \in Proc \ {main} : pc[s] = "none"
  BY SMTT(30)
<1>4. ListInv
  <2>1. IsInjective(<<>>) /\ Range(<<>>) = {}
    BY SMTT(30) DEF IsInjective, Range
  <2> QED BY <1>a, <2>1 DEF ListInv
<1>5. AtInv /\ LockInv
  BY SMTT(30), <1>a DEF AtInv, AtOK, LockInv, InCall, DropsChild, DropsOwn, Locking
<1>6. CountInv /\ FreeInv
  BY SMTT(30), <1>a DEF CountInv, FreeInv
<1>7. LoadInv /\ EndInv
  BY <1>a DEF LoadInv, EndInv, CodeReturned, Unfinished
<1> QED BY <1>1, <1>2, <1>3, <1>4, <1>5, <1>6, <1>7 DEF Inductive, TypeOK

(***************************************************************************)
(* The inductive invariant holds of every behaviour of process_execute(),  *)
(* process_wait() and process_exit(), for every set of processes.          *)
(***************************************************************************)
THEOREM ProcessInductive == Spec => []Inductive
<1>1. Init => Inductive
  BY InitKeeps
<1>2. Inductive /\ [Next]_vars => Inductive'
  BY NextKeeps
<1> QED BY <1>1, <1>2, PTL DEF Spec

(***************************************************************************)
(* process_wait() returns the status of a child that ended by exit() or by *)
(* a page fault, although it tests ref_cnt without ref_cnt_lock            *)
(* (userprog/process.c:108).                                               *)
(***************************************************************************)
THEOREM WaitStatus == Spec => []WaitGetsStatus
<1>1. Inductive => WaitGetsStatus
  BY DEF Inductive, EndInv, CodeReturned, WaitGetsStatus
<1> QED BY <1>1, ProcessInductive, PTL

(***************************************************************************)
(* When parent and child have left process_exit(), one of them has freed   *)
(* the wait status they shared.                                            *)
(***************************************************************************)
THEOREM NothingLeaks == Spec => []NoLeak
<1>1. ASSUME Inductive, NEW c \in Proc \ {main}, pc[c] = "gone", pc[parent[c]] = "gone"
      PROVE  memory[c] = "freed"
  <2>1. memory[c] \in {"none", "live", "freed"} /\ memory[c] # "none"
    BY SMTT(30), <1>1 DEF Inductive, TypeOK, StatusTypes, ListInv
  <2>2. ASSUME memory[c] = "live" PROVE FALSE
    <3>1. parent[c] # c /\ Dropped(c, c) /\ Dropped(parent[c], c)
      BY SMTT(30), <1>1 DEF Inductive, ListInv, Dropped
    <3> QED BY SMTT(30), <1>1, <2>2, <3>1 DEF Inductive, FreeInv
  <2> QED BY SMTT(30), <2>1, <2>2
<1>2. Inductive => NoLeak
  BY SMTT(30), <1>1 DEF NoLeak
<1> QED BY <1>2, ProcessInductive, PTL

(***************************************************************************)
(* process_execute() reads load_code after start_process() has decided it. *)
(***************************************************************************)
THEOREM ExecLoadKnown == Spec => []ExecKnowsLoad
<1>1. ASSUME Inductive, NEW p \in Proc, pc[p] = "exec_code"
      PROVE  /\ pc[at[p]] \notin {"none", "load"}
             /\ (load_code[at[p]] = -1) = (ended[at[p]].how = "not_loaded")
  <2>1. at[p] \in Proc /\ LoadInv
    BY SMTT(30), <1>1, Known DEF InCall
  <2>2. load_code[at[p]] = -1 <=> ended[at[p]].how = "not_loaded"
    BY SMTT(30), <2>1 DEF LoadInv
  <2> QED BY <1>1, <2>1, <2>2 DEF LoadInv
<1>2. Inductive => ExecKnowsLoad
  BY SMTT(30), <1>1 DEF ExecKnowsLoad
<1> QED BY <1>2, ProcessInductive, PTL

INSTANCE FiniteSetTheorems

(***************************************************************************)
(* ref_cnt of an allocated wait status is the number of its parent and its *)
(* child that have not dropped their reference (threads/thread.h:34).      *)
(***************************************************************************)
THEOREM RefCounted == Spec => []RefCntExact
<1>1. ASSUME Inductive, NEW c \in Proc, memory[c] = "live"
      PROVE  ref_cnt[c] = Cardinality({p \in {c, parent[c]} : ~Dropped(p, c)})
  <2>1. ref_cnt[c] = Keeps(c, c) + Keeps(parent[c], c) /\ c # parent[c]
    BY SMTT(30), <1>1 DEF Inductive, CountInv, ListInv
  <2> DEFINE K == {p \in {c, parent[c]} : ~Dropped(p, c)}
  <2>2. Cardinality({}) = 0 /\ Cardinality({c}) = 1 /\ Cardinality({parent[c]}) = 1
    BY ZenonT(60), FS_EmptySet, FS_Singleton
  <2>3. Cardinality({c, parent[c]}) = 2
    <3>1. {c, parent[c]} = {c} \cup {parent[c]} /\ IsFiniteSet({c}) /\ parent[c] \notin {c}
      BY Zenon, <2>1, FS_Singleton
    <3> QED BY <2>2, <3>1, FS_AddElement
  <2>4. CASE Dropped(c, c) /\ Dropped(parent[c], c)
    <3>1. K = {}
      BY SMTT(30), <2>4
    <3> QED BY <2>1, <2>2, <2>4, <3>1 DEF Keeps
  <2>5. CASE Dropped(c, c) /\ ~Dropped(parent[c], c)
    <3>1. K = {parent[c]}
      BY SMTT(30), <2>5
    <3> QED BY SMTT(30), <2>1, <2>2, <2>5, <3>1 DEF Keeps
  <2>6. CASE ~Dropped(c, c) /\ Dropped(parent[c], c)
    <3>1. K = {c}
      BY SMTT(30), <2>6
    <3> QED BY SMTT(30), <2>1, <2>2, <2>6, <3>1 DEF Keeps
  <2>7. CASE ~Dropped(c, c) /\ ~Dropped(parent[c], c)
    <3>1. K = {c, parent[c]}
      BY SMTT(30), <2>7
    <3> QED BY SMTT(30), <2>1, <2>3, <2>7, <3>1 DEF Keeps
  <2> QED BY SMTT(30), <2>4, <2>5, <2>6, <2>7
<1>2. Inductive => RefCntExact
  BY <1>1 DEF RefCntExact
<1> QED BY <1>2, ProcessInductive, PTL

=============================================================================
