---------------------------- MODULE ProcessSteps ----------------------------
(***************************************************************************)
(* Lemmas about the lists of children and about kinds of steps, and that   *)
(* the steps that do not change ref_cnt, a list of children or the heap    *)
(* keep the inductive invariant of ProcessInv.                             *)
(***************************************************************************)
EXTENDS ProcessInv, QueueLemmas

\* list_remove() of a member of a list without repetitions.
LEMMA RemoveEffect ==
  ASSUME NEW T, NEW l \in Seq(T), IsInjective(l), NEW s \in Range(l)
  PROVE  LET r == list_remove(l, s) IN
         /\ r \in Seq(T) /\ IsInjective(r)
         /\ Range(r) = Range(l) \ {s}
         /\ \A a, e : a # s /\ e # s => (Before(r, a, e) <=> Before(l, a, e))
<1> DEFINE r == list_remove(l, s)
<1>1. PICK n \in DOMAIN l : l[n] = s /\ n = Position(l, s)
  BY DEF Position, Range
<1>2. /\ Len(l) \in Nat /\ DOMAIN l = 1 .. Len(l) /\ n \in 1 .. Len(l)
      /\ \A i \in 1 .. Len(l) : l[i] \in T
  BY <1>1
<1>a. r = [i \in 1 .. Len(l) - 1 |-> IF i < n THEN l[i] ELSE l[i + 1]]
  BY <1>1 DEF list_remove
<1> HIDE DEF r
<1>3. /\ r \in Seq(T) /\ DOMAIN r = 1 .. Len(l) - 1
      /\ \A i \in 1 .. Len(l) - 1 : r[i] = IF i < n THEN l[i] ELSE l[i + 1]
  BY <1>2, <1>a, RemoveAtEffect
<1>4. /\ \A i \in DOMAIN l \ {n} : \E j \in DOMAIN r : r[j] = l[i]
      /\ \A j \in DOMAIN r : \E i \in DOMAIN l \ {n} : r[j] = l[i]
  <2>1. ASSUME NEW i \in DOMAIN l \ {n} PROVE \E j \in DOMAIN r : r[j] = l[i]
    <3>1. CASE i < n
      <4>1. i \in DOMAIN r /\ r[i] = l[i]
        BY <1>2, <1>3, <3>1
      <4> QED BY <4>1
    <3>2. CASE i > n
      <4>1. i - 1 \in DOMAIN r /\ r[i - 1] = l[i]
        BY <1>2, <1>3, <3>2
      <4> QED BY <4>1
    <3> QED BY <1>2, <3>1, <3>2
  <2>2. ASSUME NEW j \in DOMAIN r PROVE \E i \in DOMAIN l \ {n} : r[j] = l[i]
    <3>1. CASE j < n
      BY <1>2, <1>3, <3>1
    <3>2. CASE j >= n
      <4>1. j + 1 \in DOMAIN l \ {n} /\ r[j] = l[j + 1]
        BY <1>2, <1>3, <3>2
      <4> QED BY <4>1
    <3> QED BY <1>2, <1>3, <3>1, <3>2
  <2> QED BY <2>1, <2>2
<1>5. IsInjective(r)
  <2> SUFFICES ASSUME NEW i \in DOMAIN r, NEW j \in DOMAIN r, r[i] = r[j]
               PROVE  i = j
    BY DEF IsInjective
  <2> DEFINE x == IF i < n THEN i ELSE i + 1  y == IF j < n THEN j ELSE j + 1
  <2>1. x \in DOMAIN l /\ y \in DOMAIN l /\ l[x] = r[i] /\ l[y] = r[j]
    BY <1>2, <1>3
  <2>2. x = y
    BY <2>1 DEF IsInjective
  <2> QED BY <1>2, <1>3, <2>2
<1>6. Range(r) = Range(l) \ {s}
  BY <1>1, <1>4 DEF Range, IsInjective
<1>7. ASSUME NEW a, NEW e, a # s, e # s
      PROVE  Before(r, a, e) <=> Before(l, a, e)
  <2>1. ASSUME Before(r, a, e) PROVE Before(l, a, e)
    <3>1. PICK i, j \in DOMAIN r : r[i] = a /\ r[j] = e /\ i < j
      BY <2>1 DEF Before
    <3> DEFINE x == IF i < n THEN i ELSE i + 1  y == IF j < n THEN j ELSE j + 1
    <3>2. x \in DOMAIN l /\ y \in DOMAIN l /\ l[x] = a /\ l[y] = e /\ x < y
      BY <1>2, <1>3, <3>1
    <3> QED BY <3>2 DEF Before
  <2>2. ASSUME Before(l, a, e) PROVE Before(r, a, e)
    <3>1. PICK i, j \in DOMAIN l : l[i] = a /\ l[j] = e /\ i < j
      BY <2>2 DEF Before
    <3> DEFINE x == IF i < n THEN i ELSE i - 1  y == IF j < n THEN j ELSE j - 1
    <3>2. i # n /\ j # n
      BY <1>1, <1>7, <3>1
    <3>3. x \in DOMAIN r /\ y \in DOMAIN r /\ r[x] = a /\ r[y] = e /\ x < y
      BY <1>2, <1>3, <3>1, <3>2
    <3> QED BY <3>3 DEF Before
  <2> QED BY <2>1, <2>2
<1> QED BY <1>3, <1>5, <1>6, <1>7 DEF r

\* list_next() of a member of a list without repetitions.
LEMMA NextEffect ==
  ASSUME NEW T, NULL \notin T, NEW l \in Seq(T), IsInjective(l), NEW s \in Range(l)
  PROVE  LET e == list_next(l, s) IN
         /\ e = NULL => \A a \in Range(l) \ {s} : Before(l, a, s)
         /\ e # NULL =>
              /\ e \in Range(l) \ {s} /\ Before(l, s, e)
              /\ \A a : a # s => (Before(l, a, e) <=> Before(l, a, s))
<1> DEFINE e == list_next(l, s)
<1>1. PICK n \in DOMAIN l : l[n] = s /\ n = Position(l, s)
  BY DEF Position, Range
<1>2. /\ Len(l) \in Nat /\ DOMAIN l = 1 .. Len(l) /\ n \in 1 .. Len(l)
      /\ \A i \in 1 .. Len(l) : l[i] \in T
  BY <1>1
<1>3. e = IF n = Len(l) THEN NULL ELSE l[n + 1]
  BY <1>1 DEF list_next
<1> HIDE DEF e
<1>a. ASSUME n # Len(l) PROVE n + 1 \in 1 .. Len(l) /\ l[n + 1] # NULL
  <2>1. n + 1 \in 1 .. Len(l)
    BY <1>2, <1>a
  <2> QED BY <1>2, <2>1
<1>4. \A a \in Range(l) : \E i \in DOMAIN l : l[i] = a
  BY DEF Range
<1>5. ASSUME e = NULL, NEW a \in Range(l) \ {s} PROVE Before(l, a, s)
  <2>1. n = Len(l)
    BY <1>a, <1>3, <1>5
  <2> QED BY <1>1, <1>2, <1>4, <2>1 DEF Before
<1>6. ASSUME e # NULL
      PROVE  /\ e \in Range(l) \ {s} /\ Before(l, s, e)
             /\ \A a : a # s => (Before(l, a, e) <=> Before(l, a, s))
  <2>1. n + 1 \in DOMAIN l /\ e = l[n + 1] /\ n < n + 1
    BY <1>2, <1>a, <1>3, <1>6
  <2>2. e \in Range(l) \ {s}
    BY <1>1, <1>2, <2>1 DEF IsInjective, Range
  <2>3. Before(l, s, e)
    BY <1>1, <2>1 DEF Before
  <2>4. ASSUME NEW a, a # s, Before(l, a, e) PROVE Before(l, a, s)
    <3>1. PICK i, j \in DOMAIN l : l[i] = a /\ l[j] = e /\ i < j
      BY <2>4 DEF Before
    <3>2. j = n + 1 /\ i < n
      BY <1>1, <1>2, <2>1, <2>4, <3>1 DEF IsInjective
    <3> QED BY <1>1, <3>1, <3>2 DEF Before
  <2>5. ASSUME NEW a, a # s, Before(l, a, s) PROVE Before(l, a, e)
    <3>1. PICK i, j \in DOMAIN l : l[i] = a /\ l[j] = s /\ i < j
      BY <2>5 DEF Before
    <3>2. j = n /\ i < n + 1
      BY <1>1, <1>2, <3>1 DEF IsInjective
    <3> QED BY <2>1, <3>1, <3>2 DEF Before
  <2> QED BY <2>2, <2>3, <2>4, <2>5
<1> QED BY <1>5, <1>6 DEF e

-----------------------------------------------------------------------------
(* Steps.                                                                  *)

Faults == {"none", "freed", "no_thread", "child_gone"}

\* A fault changes nothing else.
LEMMA FaultKeeps ==
  ASSUME Inductive, fault' \in Faults,
         UNCHANGED <<pc, at, next, tmp, children, status_vars, history>>
  PROVE  Inductive'
<1> USE DEF status_vars, history
<1>1. TypeOK' /\ ListInv' /\ AtInv' /\ LockInv'
  BY SMTT(30) DEF Inductive, TypeOK, CallTypes, StatusTypes, HistoryTypes, Faults, ListInv, AtInv, AtOK, LockInv
<1>2. CountInv' /\ FreeInv'
  BY SMTT(30) DEF Inductive, CountInv, FreeInv, Dropped, Keeps
<1>3. LoadInv' /\ EndInv'
  BY DEF Inductive, LoadInv, EndInv, CodeReturned
<1> QED BY <1>1, <1>2, <1>3 DEF Inductive

\* The rest of a process, but for p, stays where it is.
OthersStay(p) ==
  \A q \in Proc \ {p} :
    /\ pc'[q] = pc[q] /\ at'[q] = at[q] /\ next'[q] = next[q] /\ tmp'[q] = tmp[q]
    /\ children'[q] = children[q]

OwnTest == {"own_unlock", "own_test"}
ChildTest == {"child_unlock", "child_next", "child_test"}

\* A step of p that drops no reference keeps ref_cnt exact and the test for the last
\* reference to come.
LEMMA DropFrame ==
  ASSUME TypeOK, ListInv, CountInv, FreeInv, NEW p \in Proc, OthersStay(p), parent' = parent,
         \A s \in Proc : memory'[s] = "live" => memory[s] = "live" /\ ref_cnt'[s] = ref_cnt[s],
         \A s \in Proc : memory'[s] = "live" /\ (s = p \/ parent[s] = p) =>
           (Dropped(p, s)' <=> Dropped(p, s)),
         memory'[p] = "live" /\ pc[p] \in OwnTest =>
           pc'[p] \in OwnTest \/ ~Dropped(parent[p], p),
         \A s \in Proc : memory'[s] = "live" /\ parent[s] = p /\ at[p] = s /\ pc[p] \in ChildTest =>
           (at'[p] = s /\ pc'[p] \in ChildTest) \/ ~Dropped(s, s)
  PROVE  CountInv' /\ FreeInv'
<1>1. ASSUME NEW s \in Proc, memory'[s] = "live"
      PROVE  /\ memory[s] = "live" /\ parent[s] \in Proc /\ parent[s] # s
             /\ ref_cnt'[s] = ref_cnt[s]
             /\ Dropped(s, s)' <=> Dropped(s, s)
             /\ Dropped(parent[s], s)' <=> Dropped(parent[s], s)
  <2>1. memory[s] = "live" /\ parent[s] \in Proc /\ parent[s] # s /\ ref_cnt'[s] = ref_cnt[s]
    BY <1>1 DEF ListInv
  <2>2. ASSUME NEW q \in Proc, q # p PROVE Dropped(q, s)' <=> Dropped(q, s)
    BY <2>2 DEF Dropped, OthersStay
  <2> QED BY <1>1, <2>1, <2>2
<1>2. CountInv'
  BY <1>1 DEF CountInv, Keeps
<1>3. FreeInv'
  <2> SUFFICES ASSUME NEW s \in Proc, memory'[s] = "live", Dropped(s, s), Dropped(parent[s], s)
               PROVE  \/ pc'[s] \in OwnTest
                      \/ pc'[parent[s]] \in ChildTest /\ at'[parent[s]] = s
    BY <1>1 DEF FreeInv, OwnTest, ChildTest
  <2>1. \/ pc[s] \in OwnTest
        \/ pc[parent[s]] \in ChildTest /\ at[parent[s]] = s
    BY <1>1 DEF FreeInv, OwnTest, ChildTest
  <2> QED BY <1>1, <2>1 DEF OthersStay
<1> QED BY <1>2, <1>3

\* Where no reference has been dropped.
Before_exit == Starting \cup Unfinished \cup {"exit"}

\* A step of p between two places before process_exit() drops no reference.
LEMMA QuietFrame ==
  ASSUME TypeOK, ListInv, CountInv, FreeInv, NEW p \in Proc, OthersStay(p), parent' = parent,
         \A s \in Proc : memory'[s] = "live" => memory[s] = "live" /\ ref_cnt'[s] = ref_cnt[s],
         pc[p] \in Before_exit, pc'[p] \in Before_exit
  PROVE  CountInv' /\ FreeInv'
<1>1. \A s \in Proc : ~Dropped(p, s) /\ ~Dropped(p, s)'
  BY DEF Dropped, Before_exit, Starting, Unfinished, InCall
<1>2. pc[p] \notin OwnTest /\ pc[p] \notin ChildTest
  BY DEF OwnTest, ChildTest, Before_exit, Starting, Unfinished, InCall
<1> QED BY <1>1, <1>2, DropFrame

\* A step of p that neither takes nor gives back ref_cnt_lock.
LEMMA LockStill ==
  ASSUME LockInv, NEW p \in Proc, OthersStay(p), UNCHANGED <<lock, ref_cnt>>,
         pc[p] \notin Locking, pc'[p] \notin Locking
  PROVE  LockInv'
<1>1. /\ \A q, s \in Proc : lock'[s] = q => at'[q] = s /\ pc'[q] \in Locking
      /\ \A q \in Proc : pc'[q] \in Locking => lock'[at'[q]] = q
  BY DEF LockInv, OthersStay
<1>2. \A q \in Proc : pc'[q] \in {"child_write", "own_write"} => tmp'[q] = ref_cnt'[at'[q]]
  BY DEF LockInv, OthersStay, Locking
<1> QED BY <1>1, <1>2 DEF LockInv

\* A step of p that leaves the lists, the locks and the outcome of programs alone.
LEMMA MoveKeeps ==
  ASSUME Inductive, NEW p \in Proc, TypeOK', OthersStay(p), children' = children,
         UNCHANGED <<ref_cnt, exit_code, load_code, lock, memory, history>>,
         \A s \in Proc : load_finished'[s] <= load_finished[s] /\ dead'[s] <= dead[s],
         pc[p] \notin Locking \cup Starting, pc'[p] \notin Locking \cup Starting,
         pc[p] \in Unfinished <=> pc'[p] \in Unfinished,
         pc[p] \in {"leaving", "gone"} => pc'[p] \in {"leaving", "gone"},
         AtOK(p)', CountInv', FreeInv',
         pc'[p] = "exec_code" => pc'[at'[p]] \notin {"none", "load"},
         pc'[p] = "wait_reap" => ended[at'[p]].how # "no"
  PROVE  Inductive'
<1> USE ProcAssumption
<1>a. TypeOK /\ ListInv /\ AtInv /\ LockInv /\ LoadInv /\ EndInv
  BY DEF Inductive
<1>b. parent' = parent /\ ended' = ended /\ result' = result
  BY DEF history
<1>c. pc[p] # "none" /\ pc'[p] # "none"
  BY DEF Starting
<1>d. \A q \in Proc : at[q] \in Proc \cup {NULL}
  BY <1>a DEF TypeOK, CallTypes
<1>e. \A q \in Proc : Range(children[q]) \subseteq Proc
  BY SMTT(30), <1>a, MemberOf DEF TypeOK, CallTypes, Range
<1>1. ListInv'
  BY <1>a, <1>b, <1>c, <1>e DEF ListInv, OthersStay
<1>2. AtInv'
  BY <1>a DEF AtInv, AtOK, OthersStay
<1>3. LockInv'
  BY SMTT(30), <1>a, LockStill
<1>4. LoadInv'
  <2>1. \A s \in Proc : load_finished[s] \in Int /\ load_finished'[s] \in Int
    BY SMTT(30), <1>a DEF TypeOK, StatusTypes
  <2>2. ASSUME NEW q \in Proc, q # p, pc'[q] = "exec_code"
        PROVE  pc'[at'[q]] \notin {"none", "load"}
    <3>1. pc[q] = "exec_code" /\ at'[q] = at[q] /\ at[q] \in Proc
      BY <1>a, <1>e, <2>2 DEF OthersStay, AtInv, AtOK, InCall
    <3> QED BY <1>a, <3>1 DEF LoadInv, OthersStay, Starting
  <2> QED BY <1>a, <1>b, <2>1, <2>2 DEF LoadInv, OthersStay, Starting
<1>5. EndInv'
  <2>1. \A s \in Proc : dead[s] \in Int /\ dead'[s] \in Int
    BY SMTT(30), <1>a DEF TypeOK, StatusTypes
  <2>2. \A s \in Proc : ended[s].how = "no" <=> pc'[s] \in Unfinished
    BY <1>a DEF EndInv, OthersStay
  <2>3. \A s \in Proc : dead'[s] > 0 => pc'[s] \in {"leaving", "gone"}
    BY <1>a, <2>1 DEF EndInv, OthersStay
  <2> QED BY <1>a, <1>b, <2>2, <2>3 DEF EndInv, CodeReturned, OthersStay
<1> QED BY <1>1, <1>2, <1>3, <1>4, <1>5 DEF Inductive

\* A step of p between its program and a call, or inside a call.
LEMMA QuietMove ==
  ASSUME Inductive, NEW p \in Proc, OthersStay(p), children' = children,
         pc' \in [Proc -> Label], at' \in [Proc -> Proc \cup {NULL}],
         dead' \in [Proc -> Int], load_finished' \in [Proc -> Int],
         UNCHANGED <<next, tmp, ref_cnt, exit_code, load_code, lock, memory, history, fault>>,
         \A s \in Proc : load_finished'[s] <= load_finished[s] /\ dead'[s] <= dead[s],
         pc[p] \in {"run"} \cup InCall, pc'[p] \in {"run"} \cup InCall,
         pc'[p] \in InCall => at'[p] \in Range(children[p]),
         pc'[p] = "exec_code" => pc'[at'[p]] \notin {"none", "load"},
         pc'[p] = "wait_reap" => ended[at'[p]].how # "no"
  PROVE  Inductive'
<1>a. TypeOK /\ ListInv /\ CountInv /\ FreeInv /\ history' = history
  BY DEF Inductive
<1>1. TypeOK'
  <2>1. CallTypes'
    BY <1>a DEF TypeOK, CallTypes
  <2>2. StatusTypes'
    BY <1>a DEF TypeOK, StatusTypes
  <2> QED BY <1>a, <2>1, <2>2 DEF TypeOK, HistoryTypes, history
<1>2. CountInv' /\ FreeInv'
  <2>1. pc[p] \in Before_exit /\ pc'[p] \in Before_exit
    BY DEF Before_exit, Unfinished, InCall
  <2> QED BY <1>a, <2>1, QuietFrame DEF history
<1>3. AtOK(p)'
  BY DEF AtOK, InCall, DropsChild, DropsOwn
<1>4. /\ pc[p] \notin Locking \cup Starting /\ pc'[p] \notin Locking \cup Starting
      /\ pc[p] \in Unfinished /\ pc'[p] \in Unfinished
      /\ pc[p] \notin {"leaving", "gone"}
  BY DEF InCall, Locking, Starting, Unfinished
<1> QED BY <1>1, <1>2, <1>3, <1>4, MoveKeeps

\* A step of p that decides how its load or its program has ended.
LEMMA OutcomeKeeps ==
  ASSUME Inductive, NEW p \in Proc, TypeOK', OthersStay(p), children' = children,
         UNCHANGED <<ref_cnt, dead, lock, memory, parent, result>>,
         \A q \in Proc \ {p} :
           /\ exit_code'[q] = exit_code[q] /\ load_code'[q] = load_code[q]
           /\ load_finished'[q] = load_finished[q] /\ ended'[q] = ended[q],
         pc[p] \in Before_exit \ {"none"},
         pc'[p] \in {"load_up", "fail_up", "run", "exit"},
         load_finished'[p] > 0 => pc'[p] \notin Starting,
         load_code'[p] = -1 <=> ended'[p].how = "not_loaded",
         ended'[p].how = "no" <=> pc'[p] \in Unfinished,
         exit_code'[p] = ended'[p].code,
         ended'[p] = ended[p] \/ ended[p].how = "no"
  PROVE  Inductive'
<1> USE ProcAssumption
<1>a. TypeOK /\ ListInv /\ AtInv /\ LockInv /\ CountInv /\ FreeInv /\ LoadInv /\ EndInv
  BY SMTT(30) DEF Inductive
<1>d. \A q \in Proc : at[q] \in Proc \cup {NULL}
  BY <1>a DEF TypeOK, CallTypes
<1>e. \A q \in Proc : Range(children[q]) \subseteq Proc
  BY <1>a, MemberOf DEF TypeOK, CallTypes, Range
<1>f. /\ pc[p] # "none" /\ pc[p] \notin Locking
      /\ pc'[p] # "none" /\ pc'[p] \notin Locking \cup InCall \cup DropsChild \cup DropsOwn
      /\ pc'[p] \in Before_exit /\ pc[p] \notin {"leaving", "gone"}
  BY DEF Before_exit, Starting, Unfinished, Locking, InCall, DropsChild, DropsOwn
<1>1. ListInv'
  BY SMTT(30), <1>a, <1>e, <1>f DEF ListInv, OthersStay
<1>2. AtInv'
  BY <1>a, <1>f DEF AtInv, AtOK, OthersStay, DropsChild
<1>3. LockInv'
  BY SMTT(30), <1>a, <1>f, LockStill
<1>4. LoadInv'
  <2>1. ASSUME NEW q \in Proc, pc'[q] = "exec_code"
        PROVE  pc'[at'[q]] \notin {"none", "load"}
    <3>0. q # p /\ pc[q] = "exec_code" /\ at'[q] = at[q]
      BY <1>f, <2>1 DEF InCall, OthersStay
    <3>1. at[q] \in Proc
      BY SMTT(30), <1>a, <1>e, <3>0 DEF AtInv, AtOK, InCall
    <3>2. pc[at[q]] \notin {"none", "load"}
      BY <1>a, <3>0 DEF LoadInv
    <3> QED BY SMTT(30), <3>0, <3>1, <3>2 DEF OthersStay
  <2> QED BY SMTT(30), <1>a, <2>1 DEF LoadInv, OthersStay, Starting
<1>5. EndInv'
  <2>1. ASSUME NEW q \in Proc, pc'[q] = "wait_reap"
        PROVE  ended'[at'[q]].how # "no"
    <3>0. q # p /\ pc[q] = "wait_reap" /\ at'[q] = at[q]
      BY <1>f, <2>1 DEF InCall, OthersStay
    <3>1. at[q] \in Proc
      BY SMTT(30), <1>a, <1>e, <3>0 DEF AtInv, AtOK, InCall
    <3>2. ended[at[q]].how # "no"
      BY SMTT(30), <1>a, <3>0 DEF EndInv
    <3> QED BY SMTT(30), <3>0, <3>1, <3>2
  <2>2. \A s \in Proc : ended'[s].how = "no" <=> pc'[s] \in Unfinished
    BY SMTT(30), <1>a DEF EndInv, OthersStay
  <2>3. \A s \in Proc : exit_code'[s] = ended'[s].code
    BY <1>a DEF EndInv
  <2>4. \A s \in Proc : dead'[s] > 0 => pc'[s] \in {"leaving", "gone"}
    BY SMTT(30), <1>a, <1>f DEF EndInv, OthersStay
  <2>5. CodeReturned'
    BY SMTT(30), <1>a DEF EndInv, CodeReturned
  <2> QED BY SMTT(30), <2>1, <2>2, <2>3, <2>4, <2>5 DEF EndInv
<1>6. CountInv' /\ FreeInv'
  BY SMTT(30), <1>a, <1>f, QuietFrame
<1> QED BY SMTT(30), <1>1, <1>2, <1>3, <1>4, <1>5, <1>6 DEF Inductive

\* What the steps of p use of the invariant.
LEMMA Known ==
  ASSUME Inductive, NEW p \in Proc
  PROVE  /\ TypeOK /\ CallTypes /\ StatusTypes /\ HistoryTypes
         /\ ListInv /\ AtInv /\ LockInv /\ CountInv /\ FreeInv /\ LoadInv /\ EndInv
         /\ Range(children[p]) \subseteq Proc
         /\ children[p] \in Seq(Proc) /\ IsInjective(children[p])
         /\ pc[p] \in InCall \cup DropsChild => at[p] \in Range(children[p]) /\ at[p] \in Proc
<1>1. TypeOK /\ CallTypes /\ AtInv /\ ListInv
  BY SMTT(30) DEF Inductive, TypeOK
<1>2. children[p] \in Seq(Proc) /\ IsInjective(children[p])
  BY <1>1 DEF CallTypes, ListInv
<1>3. Range(children[p]) \subseteq Proc
  BY <1>2, MemberOf DEF Range
<1> QED BY <1>1, <1>2, <1>3 DEF Inductive, TypeOK, AtInv, AtOK

-----------------------------------------------------------------------------
(* process_execute() and start_process().                                  *)

\* sema_down (load_finished): the child has decided load_code by now.
LEMMA exec_load_keeps ==
  ASSUME Inductive, NEW p \in Proc, exec_load(p)
  PROVE  Inductive'
<1>1. CASE memory[at[p]] # "live"
  BY SMTT(30), <1>1, FaultKeeps DEF exec_load, Using, Faults
<1>2. CASE memory[at[p]] = "live"
  <2>a. /\ pc[p] = "exec_load"
        /\ load_finished[at[p]] > 0
        /\ load_finished' = [load_finished EXCEPT ![at[p]] = @ - 1]
        /\ pc' = [pc EXCEPT ![p] = "exec_code"]
        /\ UNCHANGED <<at, next, tmp, children, ref_cnt, exit_code, load_code, dead,
                      lock, memory, history, fault>>
    BY SMTT(30), <1>2 DEF exec_load, At, Using, Goto
  <2>b. at[p] \in Range(children[p]) /\ at[p] \in Proc
    BY <2>a, Known DEF InCall
  <2>c. pc' \in [Proc -> Label] /\ pc'[p] = "exec_code" /\ OthersStay(p)
    BY <2>a, Known DEF CallTypes, OthersStay, Label
  <2>d. at' \in [Proc -> Proc \cup {NULL}] /\ dead' \in [Proc -> Int]
    BY <2>a, Known DEF CallTypes, StatusTypes
  <2>g. load_finished \in [Proc -> Int] /\ dead \in [Proc -> Int]
    BY Known DEF StatusTypes
  <2>h. /\ load_finished' \in [Proc -> Int]
        /\ \A s \in Proc : load_finished'[s] <= load_finished[s] /\ dead'[s] <= dead[s]
    BY SMTT(30), <2>a, <2>b, <2>g
  <2>e. pc[at[p]] \notin Starting /\ at[p] # p
    BY <2>a, <2>b, Known DEF LoadInv, ListInv
  <2>f. pc'[at'[p]] \notin {"none", "load"}
    BY <2>a, <2>b, <2>c, <2>e DEF OthersStay, Starting
  <2> QED BY <2>a, <2>b, <2>c, <2>d, <2>f, <2>h, QuietMove DEF InCall
<1> QED BY <1>1, <1>2

\* process_execute() returns by load_code.
LEMMA exec_code_keeps ==
  ASSUME Inductive, NEW p \in Proc, exec_code(p)
  PROVE  Inductive'
<1>1. CASE memory[at[p]] # "live"
  BY SMTT(30), <1>1, FaultKeeps DEF exec_code, Using, Faults
<1>2. CASE memory[at[p]] = "live"
  <2>a. /\ pc[p] = "exec_code"
        /\ pc' = [pc EXCEPT ![p] = "run"]
        /\ at' = [at EXCEPT ![p] = NULL]
        /\ UNCHANGED <<next, tmp, children, status_vars, history, fault>>
    BY <1>2 DEF exec_code, At, Using, Goto
  <2>c. /\ pc' \in [Proc -> Label] /\ pc'[p] = "run" /\ OthersStay(p)
        /\ at' \in [Proc -> Proc \cup {NULL}]
    BY SMTT(30), <2>a, Known DEF CallTypes, OthersStay, Label
  <2>d. /\ dead' \in [Proc -> Int] /\ load_finished' \in [Proc -> Int]
        /\ \A s \in Proc : load_finished'[s] <= load_finished[s] /\ dead'[s] <= dead[s]
        /\ UNCHANGED <<ref_cnt, exit_code, load_code, lock, memory>>
    BY <2>a, Known DEF StatusTypes, status_vars
  <2> QED BY <2>a, <2>c, <2>d, QuietMove DEF InCall
<1> QED BY <1>1, <1>2

\* A null child ends the process that executed it, or is a fault of main.
LEMMA NullChild_keeps ==
  ASSUME Inductive, NEW p \in Proc, pc[p] \in {"run", "exec_find"},
         NEW why \in {"no_thread", "child_gone"}, NullChild(p, why)
  PROVE  Inductive'
<1>1. CASE p = main
  BY SMTT(30), <1>1, FaultKeeps DEF NullChild, Faults, status_vars, history
<1>2. CASE p # main
  <2>a. /\ exit_code' = [exit_code EXCEPT ![p] = -1]
        /\ ended' = [ended EXCEPT ![p] = [how |-> why, code |-> -1]]
        /\ at' = [at EXCEPT ![p] = NULL]
        /\ pc' = [pc EXCEPT ![p] = "exit"]
        /\ UNCHANGED <<fault, next, tmp, children, ref_cnt, load_code, dead, load_finished,
                       lock, memory, parent, result>>
    BY <1>2 DEF NullChild, Goto
  <2>b. CallTypes' /\ pc'[p] = "exit" /\ OthersStay(p)
    BY SMTT(30), <2>a, Known DEF CallTypes, OthersStay, Label
  <2>c. StatusTypes'
    BY <2>a, Known DEF StatusTypes
  <2>d. /\ HistoryTypes' /\ ended'[p] = [how |-> why, code |-> -1]
        /\ \A q \in Proc \ {p} : ended'[q] = ended[q]
    BY SMTT(30), <2>a, Known DEF HistoryTypes
  <2>e. exit_code'[p] = -1 /\ \A q \in Proc \ {p} : exit_code'[q] = exit_code[q]
    BY SMTT(30), <2>a, Known DEF StatusTypes
  <2>f. ended[p].how = "no" /\ load_code[p] # -1
    BY SMTT(30), Known DEF EndInv, LoadInv, Unfinished
  <2>g. pc[p] \in Before_exit \ {"none"} /\ pc'[p] \notin Starting \cup Unfinished
    BY <2>b DEF Before_exit, Unfinished, Starting
  <2>h. TypeOK'
    BY <2>b, <2>c, <2>d DEF TypeOK
  <2> QED BY <2>a, <2>b, <2>d, <2>e, <2>f, <2>g, <2>h, OutcomeKeeps
<1> QED BY <1>1, <1>2

\* get_thread_by_tid() finds the child or, if it is gone, a null child.
LEMMA exec_find_keeps ==
  ASSUME Inductive, NEW p \in Proc, exec_find(p)
  PROVE  Inductive'
<1>1. CASE pc[at[p]] = "gone"
  BY SMTT(30), <1>1, NullChild_keeps DEF exec_find, At
<1>2. CASE pc[at[p]] # "gone"
  <2>a. /\ pc[p] = "exec_find"
        /\ pc' = [pc EXCEPT ![p] = "exec_load"]
        /\ UNCHANGED <<at, next, tmp, children, status_vars, history, fault>>
    BY <1>2 DEF exec_find, At, Goto
  <2>c. /\ pc' \in [Proc -> Label] /\ pc'[p] = "exec_load" /\ OthersStay(p)
        /\ at' \in [Proc -> Proc \cup {NULL}] /\ at'[p] \in Range(children[p])
    BY SMTT(30), <2>a, Known DEF CallTypes, OthersStay, Label, InCall
  <2>d. /\ dead' \in [Proc -> Int] /\ load_finished' \in [Proc -> Int]
        /\ \A s \in Proc : load_finished'[s] <= load_finished[s] /\ dead'[s] <= dead[s]
        /\ UNCHANGED <<ref_cnt, exit_code, load_code, lock, memory>>
    BY <2>a, Known DEF StatusTypes, status_vars
  <2> QED BY <2>a, <2>c, <2>d, QuietMove DEF InCall
<1> QED BY <1>1, <1>2

\* load() succeeds, or fails and load_code is set.
LEMMA start_process_keeps ==
  ASSUME Inductive, NEW p \in Proc, start_process(p)
  PROVE  Inductive'
<1>a. /\ pc[p] = "load"
      /\ UNCHANGED <<at, next, tmp, children, ref_cnt, exit_code, dead, load_finished,
                     lock, memory, fault, parent, result>>
  BY DEF start_process, At
<1>b. /\ pc[p] \in Before_exit \ {"none"} /\ pc[p] \in Starting /\ pc[p] \in Unfinished
  BY SMTT(30), <1>a DEF Before_exit, Unfinished, Starting
<1>c. ended[p].how = "no" /\ load_code[p] # -1 /\ ~(load_finished[p] > 0)
      /\ exit_code[p] = ended[p].code
  BY SMTT(30), <1>b, Known DEF EndInv, LoadInv
<1>1. CASE pc' = [pc EXCEPT ![p] = "load_up"] /\ load_code' = load_code /\ ended' = ended
  <2>1. CallTypes' /\ pc'[p] = "load_up" /\ OthersStay(p)
    BY <1>1, <1>a, Known DEF CallTypes, OthersStay, Label
  <2>2. StatusTypes' /\ HistoryTypes'
    BY SMTT(30), <1>1, <1>a, Known DEF StatusTypes, HistoryTypes
  <2>3. TypeOK' /\ pc'[p] \in Unfinished
    BY <2>1, <2>2 DEF TypeOK, Unfinished
  <2> QED BY SMTT(30), <1>1, <1>a, <1>b, <1>c, <2>1, <2>3, OutcomeKeeps
<1>2. CASE /\ pc' = [pc EXCEPT ![p] = "fail_up"]
           /\ load_code' = [load_code EXCEPT ![p] = -1]
           /\ ended' = [ended EXCEPT ![p].how = "not_loaded"]
  <2>1. CallTypes' /\ pc'[p] = "fail_up" /\ OthersStay(p)
    BY <1>2, <1>a, Known DEF CallTypes, OthersStay, Label
  <2>2. /\ StatusTypes' /\ load_code'[p] = -1
        /\ \A q \in Proc \ {p} : load_code'[q] = load_code[q]
    BY <1>2, <1>a, Known DEF StatusTypes
  <2>3. /\ HistoryTypes' /\ ended'[p].how = "not_loaded" /\ ended'[p].code = ended[p].code
        /\ \A q \in Proc \ {p} : ended'[q] = ended[q]
    BY ZenonT(60), <1>2, <1>a, Known DEF HistoryTypes
  <2>4. TypeOK' /\ pc'[p] \notin Unfinished
    BY <2>1, <2>2, <2>3 DEF TypeOK, Unfinished
  <2> QED BY <1>a, <1>b, <1>c, <2>1, <2>2, <2>3, <2>4, OutcomeKeeps
<1> QED BY <1>1, <1>2 DEF start_process, Goto

\* sema_up (load_finished), after load_code is decided.
LEMMA load_up_keeps ==
  ASSUME Inductive, NEW p \in Proc, load_up(p)
  PROVE  Inductive'
<1>1. CASE memory[p] # "live"
  BY <1>1, FaultKeeps DEF load_up, Using, Faults
<1>2. CASE memory[p] = "live"
  <2>a. /\ pc[p] \in {"load_up", "fail_up"}
        /\ load_finished' = [load_finished EXCEPT ![p] = @ + 1]
        /\ pc' = [pc EXCEPT ![p] = IF pc[p] = "load_up" THEN "run" ELSE "exit"]
        /\ UNCHANGED <<at, next, tmp, children, ref_cnt, exit_code, load_code, dead,
                       lock, memory, history, fault>>
    BY <1>2 DEF load_up, Using, Goto
  <2>b. /\ CallTypes' /\ pc'[p] = (IF pc[p] = "load_up" THEN "run" ELSE "exit")
        /\ OthersStay(p)
    BY SMTT(30), <2>a, Known DEF CallTypes, OthersStay, Label
  <2>c. StatusTypes' /\ \A q \in Proc \ {p} : load_finished'[q] = load_finished[q]
    BY <2>a, Known DEF StatusTypes
  <2>d. HistoryTypes' /\ UNCHANGED <<parent, ended, result>>
    BY <2>a, Known DEF HistoryTypes, history
  <2>e. TypeOK' /\ pc[p] \in Before_exit \ {"none"} /\ pc'[p] \notin Starting
        /\ (pc[p] \in Unfinished <=> pc'[p] \in Unfinished)
    BY <2>a, <2>b, <2>c, <2>d DEF TypeOK, Before_exit, Starting, Unfinished
  <2>f. /\ ended[p].how = "no" <=> pc[p] \in Unfinished
        /\ exit_code[p] = ended[p].code
        /\ load_code[p] = -1 <=> ended[p].how = "not_loaded"
    BY SMTT(30), Known DEF EndInv, LoadInv
  <2> QED BY <2>a, <2>b, <2>c, <2>d, <2>e, <2>f, OutcomeKeeps
<1> QED BY <1>1, <1>2

-----------------------------------------------------------------------------
(* process_wait().                                                         *)

\* A call of process_wait() for one of the children.
LEMMA process_wait_keeps ==
  ASSUME Inductive, NEW p \in Proc, NEW c \in Proc, process_wait(p, c)
  PROVE  Inductive'
<1>a. /\ pc[p] = "run" /\ c \in Range(children[p])
      /\ pc' = [pc EXCEPT ![p] = "wait_test"]
      /\ at' = [at EXCEPT ![p] = c]
      /\ UNCHANGED <<next, tmp, children, status_vars, history, fault>>
  BY DEF process_wait, At, Goto
<1>b. /\ pc' \in [Proc -> Label] /\ pc'[p] = "wait_test" /\ OthersStay(p)
      /\ at' \in [Proc -> Proc \cup {NULL}] /\ at'[p] = c
  BY <1>a, Known DEF CallTypes, OthersStay, Label
<1>c. /\ dead' \in [Proc -> Int] /\ load_finished' \in [Proc -> Int]
      /\ \A s \in Proc : load_finished'[s] <= load_finished[s] /\ dead'[s] <= dead[s]
      /\ UNCHANGED <<ref_cnt, exit_code, load_code, lock, memory>>
  BY SMTT(30), <1>a, Known DEF StatusTypes, status_vars
<1> QED BY <1>a, <1>b, <1>c, QuietMove DEF InCall

\* The test of ref_cnt without the lock: where it is not 2, the child has dropped its
\* reference and so its program has ended, as the parent itself has dropped none.
LEMMA wait_test_keeps ==
  ASSUME Inductive, NEW p \in Proc, wait_test(p)
  PROVE  Inductive'
<1>1. CASE memory[at[p]] # "live"
  BY SMTT(30), <1>1, FaultKeeps DEF wait_test, Using, Faults
<1>2. CASE memory[at[p]] = "live"
  <2>a. /\ pc[p] = "wait_test"
        /\ pc' = [pc EXCEPT ![p] = IF ref_cnt[at[p]] = 2 THEN "wait_down" ELSE "wait_reap"]
        /\ UNCHANGED <<at, next, tmp, children, status_vars, history, fault>>
    BY SMTT(30), <1>2 DEF wait_test, At, Using, Goto, Alive
  <2>b. at[p] \in Range(children[p]) /\ at[p] \in Proc
    BY <2>a, Known DEF InCall
  <2>c. /\ pc' \in [Proc -> Label] /\ OthersStay(p)
        /\ pc'[p] = (IF ref_cnt[at[p]] = 2 THEN "wait_down" ELSE "wait_reap")
        /\ at' \in [Proc -> Proc \cup {NULL}]
    BY SMTT(30), <2>a, Known DEF CallTypes, OthersStay, Label
  <2>d. /\ dead' \in [Proc -> Int] /\ load_finished' \in [Proc -> Int]
        /\ \A s \in Proc : load_finished'[s] <= load_finished[s] /\ dead'[s] <= dead[s]
        /\ UNCHANGED <<ref_cnt, exit_code, load_code, lock, memory>>
    BY SMTT(30), <2>a, Known DEF StatusTypes, status_vars
  <2>e. ASSUME ref_cnt[at[p]] # 2 PROVE ended[at[p]].how # "no"
    <3>1. parent[at[p]] = p /\ p # at[p] /\ ~Dropped(p, at[p])
      BY SMTT(30), <2>a, <2>b, Known DEF ListInv, Dropped
    <3>2. Dropped(at[p], at[p])
      BY <1>2, <2>b, <2>e, <3>1, Known DEF CountInv, Keeps
    <3>3. pc[at[p]] \notin Unfinished
      BY SMTT(30), <3>2 DEF Dropped, Unfinished
    <3> QED BY SMTT(30), <2>b, <3>3, Known DEF EndInv
  <2> QED BY SMTT(30), <2>a, <2>b, <2>c, <2>d, <2>e, QuietMove DEF InCall
<1> QED BY <1>1, <1>2

\* sema_down (dead): the child is on its way out.
LEMMA wait_down_keeps ==
  ASSUME Inductive, NEW p \in Proc, wait_down(p)
  PROVE  Inductive'
<1>1. CASE memory[at[p]] # "live"
  BY SMTT(30), <1>1, FaultKeeps DEF wait_down, Using, Faults
<1>2. CASE memory[at[p]] = "live"
  <2>a. /\ pc[p] = "wait_down" /\ dead[at[p]] > 0
        /\ dead' = [dead EXCEPT ![at[p]] = @ - 1]
        /\ pc' = [pc EXCEPT ![p] = "wait_reap"]
        /\ UNCHANGED <<at, next, tmp, children, ref_cnt, exit_code, load_code, load_finished,
                      lock, memory, history, fault>>
    BY SMTT(30), <1>2 DEF wait_down, At, Using, Goto
  <2>b. at[p] \in Range(children[p]) /\ at[p] \in Proc
    BY <2>a, Known DEF InCall
  <2>c. pc' \in [Proc -> Label] /\ pc'[p] = "wait_reap" /\ OthersStay(p)
    BY <2>a, Known DEF CallTypes, OthersStay, Label
  <2>d. at' \in [Proc -> Proc \cup {NULL}] /\ load_finished' \in [Proc -> Int]
    BY <2>a, Known DEF CallTypes, StatusTypes
  <2>e. load_finished \in [Proc -> Int] /\ dead \in [Proc -> Int]
    BY Known DEF StatusTypes
  <2>f. /\ dead' \in [Proc -> Int]
        /\ \A s \in Proc : load_finished'[s] <= load_finished[s] /\ dead'[s] <= dead[s]
    BY SMTT(30), <2>a, <2>b, <2>e
  <2>g. ended[at[p]].how # "no"
    <3>1. pc[at[p]] \notin Unfinished
      BY <2>a, <2>b, Known DEF EndInv, Unfinished
    <3> QED BY <2>b, <3>1, Known DEF EndInv
  <2> QED BY SMTT(30), <2>a, <2>b, <2>c, <2>d, <2>f, <2>g, QuietMove DEF InCall
<1> QED BY <1>1, <1>2

-----------------------------------------------------------------------------
(* The end of a process.                                                   *)

\* exit, or a page fault, stores the exit code.
LEMMA sys_exit_keeps ==
  ASSUME Inductive, NEW p \in Proc, NEW code \in Code, sys_exit(p, code)
  PROVE  Inductive'
<1>1. CASE memory[p] # "live"
  BY SMTT(30), <1>1, FaultKeeps DEF sys_exit, Using, Faults
<1>2. CASE memory[p] = "live"
  <2>a. /\ pc[p] = "run" /\ code \in Int
        /\ exit_code' = [exit_code EXCEPT ![p] = code]
        /\ ended' = [ended EXCEPT ![p] = [how |-> "exit", code |-> code]]
        /\ pc' = [pc EXCEPT ![p] = "exit"]
        /\ UNCHANGED <<at, next, tmp, children, ref_cnt, load_code, dead, load_finished,
                       lock, memory, parent, result, fault>>
    BY SMTT(30), <1>2, ProcAssumption DEF sys_exit, Using, At, Goto
  <2>b. CallTypes' /\ pc'[p] = "exit" /\ OthersStay(p)
    BY SMTT(30), <2>a, Known DEF CallTypes, OthersStay, Label
  <2>c. /\ StatusTypes' /\ exit_code'[p] = code
        /\ \A q \in Proc \ {p} : exit_code'[q] = exit_code[q]
    BY <2>a, Known DEF StatusTypes
  <2>d. /\ HistoryTypes' /\ ended'[p] = [how |-> "exit", code |-> code]
        /\ \A q \in Proc \ {p} : ended'[q] = ended[q]
    BY SMTT(30), <2>a, Known DEF HistoryTypes
  <2>e. ended[p].how = "no" /\ load_code[p] # -1
    BY <2>a, Known DEF EndInv, LoadInv, Unfinished
  <2>f. pc[p] \in Before_exit \ {"none"} /\ pc'[p] \notin Starting \cup Unfinished
    BY SMTT(30), <2>a, <2>b DEF Before_exit, Unfinished, Starting
  <2>g. TypeOK'
    BY <2>b, <2>c, <2>d DEF TypeOK
  <2> QED BY SMTT(30), <2>a, <2>b, <2>c, <2>d, <2>e, <2>f, <2>g, OutcomeKeeps
<1> QED BY <1>1, <1>2

\* Another exception ends the program and stores none.
LEMMA kill_keeps ==
  ASSUME Inductive, NEW p \in Proc, kill(p)
  PROVE  Inductive'
<1>a. /\ pc[p] = "run"
      /\ ended' = [ended EXCEPT ![p].how = "killed"]
      /\ pc' = [pc EXCEPT ![p] = "exit"]
      /\ UNCHANGED <<at, next, tmp, children, ref_cnt, exit_code, load_code, dead,
                     load_finished, lock, memory, parent, result, fault>>
  BY DEF kill, At, Goto, status_vars
<1>b. CallTypes' /\ pc'[p] = "exit" /\ OthersStay(p)
  BY <1>a, Known DEF CallTypes, OthersStay, Label
<1>c. StatusTypes'
  BY <1>a, Known DEF StatusTypes
<1>d. /\ HistoryTypes' /\ ended'[p].how = "killed" /\ ended'[p].code = ended[p].code
      /\ \A q \in Proc \ {p} : ended'[q] = ended[q]
  BY ZenonT(60), <1>a, Known DEF HistoryTypes
<1>e. ended[p].how = "no" /\ load_code[p] # -1 /\ exit_code[p] = ended[p].code
  BY <1>a, Known DEF EndInv, LoadInv, Unfinished
<1>f. pc[p] \in Before_exit \ {"none"} /\ pc'[p] \notin Starting \cup Unfinished
  BY <1>a, <1>b DEF Before_exit, Unfinished, Starting
<1>g. TypeOK'
  BY <1>b, <1>c, <1>d DEF TypeOK
<1> QED BY <1>a, <1>b, <1>c, <1>d, <1>e, <1>f, <1>g, OutcomeKeeps

\* The first of the children comes before all others.
LEMMA HeadEffect ==
  ASSUME NEW T, NEW l \in Seq(T), IsInjective(l), l # <<>>
  PROVE  Head(l) \in Range(l) /\ Head(l) \in T /\ \A a : ~Before(l, a, Head(l))
<1>1. /\ Len(l) \in Nat /\ DOMAIN l = 1 .. Len(l) /\ Len(l) > 0
      /\ Head(l) = l[1] /\ \A i \in 1 .. Len(l) : l[i] \in T
  OBVIOUS
<1>2. 1 \in DOMAIN l
  BY <1>1
<1>3. ASSUME NEW a, Before(l, a, Head(l)) PROVE FALSE
  <2>1. PICK i, j \in DOMAIN l : l[j] = l[1] /\ i < j
    BY <1>1, <1>3 DEF Before
  <2>2. j = 1
    BY <1>2, <2>1 DEF IsInjective
  <2> QED BY <1>1, <2>1, <2>2
<1> QED BY <1>1, <1>2, <1>3 DEF Range

\* A step of p that leaves its list of children alone.
LEMMA ListStill ==
  ASSUME Inductive, NEW p \in Proc, OthersStay(p), children' = children, parent' = parent,
         pc[p] # "none", pc'[p] # "none",
         \A s \in Proc : /\ memory'[s] = "live" => memory[s] = "live"
                         /\ memory'[s] = "none" => memory[s] = "none"
  PROVE  ListInv'
<1>1. ListInv /\ \A q \in Proc : Range(children[q]) \subseteq Proc
  BY SMTT(30), Known
<1> QED BY <1>1 DEF ListInv, OthersStay

\* A step of p in process_exit().
LEMMA ExitKeeps ==
  ASSUME Inductive, NEW p \in Proc, OthersStay(p),
         TypeOK', ListInv', AtOK(p)', LockInv', CountInv', FreeInv',
         UNCHANGED <<exit_code, load_code, load_finished, history>>,
         pc[p] \notin Unfinished \cup Starting, pc'[p] \notin Unfinished \cup Starting,
         pc[p] \in {"leaving", "gone"} => pc'[p] \in {"leaving", "gone"},
         \A s \in Proc \ {p} : dead'[s] = dead[s],
         dead'[p] = dead[p] \/ pc'[p] \in {"leaving", "gone"}
  PROVE  Inductive'
<1> USE ProcAssumption
<1>a. TypeOK /\ ListInv /\ AtInv /\ LoadInv /\ EndInv
  BY DEF Inductive
<1>b. parent' = parent /\ ended' = ended /\ result' = result
  BY SMTT(30) DEF history
<1>c. \A q \in Proc : pc[q] \in InCall => at[q] \in Proc
  BY SMTT(30), Known
<1>2. AtInv'
  BY SMTT(30), <1>a DEF AtInv, AtOK, OthersStay
<1>3. /\ pc'[p] # "exec_code" /\ pc'[p] # "wait_reap"
      /\ pc'[p] \notin {"none", "load"}
  BY SMTT(30) DEF Unfinished
<1>4. LoadInv'
  <2>1. ASSUME NEW q \in Proc, pc'[q] = "exec_code"
        PROVE  pc'[at'[q]] \notin {"none", "load"}
    <3>1. q # p /\ pc[q] = "exec_code" /\ at'[q] = at[q]
      BY SMTT(30), <1>3, <2>1 DEF OthersStay
    <3>2. at[q] \in Proc /\ pc[at[q]] \notin {"none", "load"}
      BY SMTT(30), <1>a, <1>c, <3>1 DEF LoadInv, InCall
    <3> QED BY SMTT(30), <1>3, <3>1, <3>2 DEF OthersStay
  <2> QED BY SMTT(30), <1>a, <1>b, <2>1 DEF LoadInv, OthersStay
<1>5. EndInv'
  <2>1. \A s \in Proc : ended[s].how = "no" <=> pc'[s] \in Unfinished
    BY SMTT(30), <1>a DEF EndInv, OthersStay
  <2>2. \A s \in Proc : dead'[s] > 0 => pc'[s] \in {"leaving", "gone"}
    BY SMTT(30), <1>a DEF EndInv, OthersStay
  <2>3. \A q \in Proc : pc'[q] = "wait_reap" => ended[at'[q]].how # "no"
    BY SMTT(30), <1>a, <1>3 DEF EndInv, OthersStay
  <2>4. CodeReturned'
    BY SMTT(30), <1>a, <1>b DEF EndInv, CodeReturned
  <2> QED BY SMTT(30), <1>a, <1>b, <2>1, <2>2, <2>3, <2>4 DEF EndInv
<1> QED BY SMTT(30), <1>2, <1>4, <1>5 DEF Inductive

\* A step of p in process_exit() that only goes to its next part.
LEMMA ExitMove ==
  ASSUME Inductive, NEW p \in Proc, OthersStay(p), CallTypes',
         UNCHANGED <<tmp, children, status_vars, history>>,
         pc[p] \notin Unfinished \cup Starting \cup Locking,
         pc'[p] \notin Unfinished \cup Starting \cup Locking,
         pc[p] \in {"leaving", "gone"} => pc'[p] \in {"leaving", "gone"},
         pc[p] \notin OwnTest, AtOK(p)',
         \A s \in Proc : memory[s] = "live" /\ (s = p \/ parent[s] = p) =>
           (Dropped(p, s)' <=> Dropped(p, s)),
         pc[p] \in ChildTest => pc'[p] \in ChildTest /\ at'[p] = at[p]
  PROVE  Inductive'
<1>a. UNCHANGED <<ref_cnt, exit_code, load_code, dead, load_finished, lock, memory>>
  BY SMTT(30) DEF status_vars
<1>b. parent' = parent /\ ended' = ended /\ result' = result
  BY SMTT(30) DEF history
<1>1. TypeOK'
  BY SMTT(30), <1>a, <1>b, Known DEF TypeOK, StatusTypes, HistoryTypes
<1>2. ListInv'
  BY SMTT(30), <1>a, <1>b, ListStill DEF Starting
<1>3. LockInv'
  BY SMTT(30), <1>a, Known, LockStill
<1>4. CountInv' /\ FreeInv'
  BY SMTT(30), <1>a, <1>b, Known, DropFrame
<1> QED BY SMTT(30), <1>a, <1>1, <1>2, <1>3, <1>4, ExitKeeps

\* The thread leaves all_list.
LEMMA leave_keeps ==
  ASSUME Inductive, NEW p \in Proc, leave(p)
  PROVE  Inductive'
<1>a. /\ pc[p] = "leaving" /\ pc' = [pc EXCEPT ![p] = "gone"]
      /\ UNCHANGED <<at, next, tmp, children, status_vars, fault, history>>
  BY DEF leave, At, Goto
<1>b. CallTypes' /\ pc'[p] = "gone" /\ OthersStay(p)
  BY <1>a, Known DEF CallTypes, OthersStay, Label
<1>c. /\ pc[p] \notin Unfinished \cup Starting \cup Locking
      /\ pc'[p] \notin Unfinished \cup Starting \cup Locking
      /\ pc[p] \notin OwnTest /\ pc[p] \notin ChildTest
  BY <1>a, <1>b DEF Unfinished, Starting, Locking, OwnTest, ChildTest
<1>d. AtOK(p)'
  BY SMTT(30), <1>b DEF AtOK, InCall, DropsChild, DropsOwn
<1>e. \A s \in Proc : Dropped(p, s)' <=> Dropped(p, s)
  BY SMTT(30), <1>a, <1>b DEF Dropped
<1> QED BY <1>a, <1>b, <1>c, <1>d, <1>e, ExitMove

\* e = list_next (e)
LEMMA child_next_keeps ==
  ASSUME Inductive, NEW p \in Proc, child_next(p)
  PROVE  Inductive'
<1>1. CASE memory[at[p]] # "live"
  BY SMTT(30), <1>1, FaultKeeps DEF child_next, Using, Faults
<1>2. CASE memory[at[p]] = "live"
  <2>a. /\ pc[p] = "child_next" /\ pc' = [pc EXCEPT ![p] = "child_test"]
        /\ next' = [next EXCEPT ![p] = list_next(children[p], at[p])]
        /\ UNCHANGED <<at, tmp, children, status_vars, fault, history>>
    BY SMTT(30), <1>2 DEF child_next, At, Using, Goto
  <2>f. at[p] \in Range(children[p])
    BY SMTT(30), <2>a, Known DEF DropsChild
  <2>g. list_next(children[p], at[p]) \in Proc \cup {NULL}
    BY SMTT(30), <2>f, Known, NextEffect, ProcAssumption
  <2>b. CallTypes' /\ pc'[p] = "child_test" /\ OthersStay(p)
        /\ next'[p] = list_next(children[p], at[p])
    BY SMTT(30), <2>a, <2>g, Known DEF CallTypes, OthersStay, Label
  <2>c. /\ pc[p] \notin Unfinished \cup Starting \cup Locking
        /\ pc'[p] \notin Unfinished \cup Starting \cup Locking
        /\ pc[p] \notin OwnTest /\ pc'[p] \in ChildTest
    BY SMTT(30), <2>a, <2>b DEF Unfinished, Starting, Locking, OwnTest, ChildTest
  <2>d. AtOK(p)'
    BY SMTT(30), <2>a, <2>b, <2>f DEF AtOK, InCall, DropsChild, DropsOwn
  <2>e. \A s \in Proc : Dropped(p, s)' <=> Dropped(p, s)
    BY SMTT(30), <2>a, <2>b DEF Dropped
  <2> QED BY SMTT(30), <2>a, <2>b, <2>c, <2>d, <2>e, ExitMove
<1> QED BY <1>1, <1>2

\* process_exit() begins: nothing comes before the first of the children.
LEMMA process_exit_keeps ==
  ASSUME Inductive, NEW p \in Proc, process_exit(p)
  PROVE  Inductive'
<1> DEFINE e == IF children[p] = <<>> THEN NULL ELSE Head(children[p])
<1>1. /\ pc[p] = "exit"
      /\ at' = [at EXCEPT ![p] = IF e = NULL THEN p ELSE e]
      /\ pc' = [pc EXCEPT ![p] = IF e = NULL THEN "own_lock" ELSE "child_lock"]
      /\ UNCHANGED <<next, tmp, children, status_vars, fault, history>>
  BY DEF process_exit, At, Advance, Goto
<1>2. /\ children[p] \in Seq(Proc) /\ IsInjective(children[p])
      /\ NULL \notin Proc
  BY SMTT(30), Known, ProcAssumption
<1>3. /\ children[p] # <<>> =>
           e \in Proc /\ e # NULL /\ e \in Range(children[p]) /\ \A s : ~Before(children[p], s, e)
      /\ children[p] = <<>> => e = NULL
  BY ZenonT(60), <1>2, HeadEffect
<1> HIDE DEF e
<1>4. CallTypes' /\ OthersStay(p)
      /\ pc'[p] = (IF e = NULL THEN "own_lock" ELSE "child_lock")
      /\ at'[p] = (IF e = NULL THEN p ELSE e)
  BY <1>1, <1>3, Known DEF CallTypes, OthersStay, Label
<1>5. /\ pc[p] \notin Unfinished \cup Starting \cup Locking
      /\ pc'[p] \notin Unfinished \cup Starting \cup Locking
      /\ pc[p] \notin OwnTest /\ pc[p] \notin ChildTest
  BY <1>1, <1>4 DEF Unfinished, Starting, Locking, OwnTest, ChildTest
<1>6. AtOK(p)'
  BY <1>1, <1>3, <1>4 DEF AtOK, InCall, DropsChild, DropsOwn
<1>7. ASSUME NEW s \in Proc, memory[s] = "live", s = p \/ parent[s] = p
      PROVE  Dropped(p, s)' <=> Dropped(p, s)
  <2>1. ~Dropped(p, s)
    BY SMTT(30), <1>1 DEF Dropped
  <2>2. s # p => s \in Range(children[p])
    BY SMTT(30), <1>7, Known DEF ListInv
  <2>3. CASE children[p] = <<>>
    BY SMTT(30), <1>3, <1>4, <2>1, <2>2, <2>3 DEF Dropped, Range
  <2>4. CASE children[p] # <<>>
    BY <1>1, <1>3, <1>4, <2>1, <2>4 DEF Dropped
  <2> QED BY <2>3, <2>4
<1> QED BY SMTT(30), <1>1, <1>4, <1>5, <1>6, <1>7, ExitMove

=============================================================================
