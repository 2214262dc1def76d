---------------------------- MODULE QueueLemmas ----------------------------
(* Facts about queues as sequences without repetitions.                    *)
EXTENDS Integers, Sequences, Functions, TLAPS

\* list_push_back(): appending x to a queue adds x to its members.
LEMMA AppendMembers ==
  ASSUME NEW T, NEW q \in Seq(T), NEW x \in T
  PROVE  /\ Append(q, x) \in Seq(T)
         /\ Append(q, x) # <<>>
         /\ Range(Append(q, x)) = Range(q) \cup {x}
         /\ IsInjective(q) /\ x \notin Range(q) => IsInjective(Append(q, x))
<1> DEFINE a == Append(q, x)
<1>1. /\ a \in Seq(T) /\ a # <<>> /\ Len(q) \in Nat
      /\ DOMAIN a = 1 .. Len(q) + 1
      /\ DOMAIN q = 1 .. Len(q)
      /\ \A i \in 1 .. Len(q) : a[i] = q[i]
      /\ a[Len(q) + 1] = x
  OBVIOUS
<1> HIDE DEF a
<1>2. Range(a) = Range(q) \cup {x}
  BY <1>1 DEF Range
<1>3. ASSUME IsInjective(q), x \notin Range(q)
      PROVE  IsInjective(a)
  <2> SUFFICES ASSUME NEW i \in DOMAIN a, NEW j \in DOMAIN a, a[i] = a[j]
               PROVE  i = j
    BY DEF IsInjective
  <2> QED BY <1>1, <1>3 DEF IsInjective, Range
<1> QED BY <1>1, <1>2, <1>3 DEF a

\* list_pop_front(): the head leaves a queue without repetitions.
LEMMA TailMembers ==
  ASSUME NEW T, NEW q \in Seq(T), q # <<>>
  PROVE  /\ Head(q) \in T
         /\ Tail(q) \in Seq(T)
         /\ Head(q) \in Range(q)
         /\ Range(q) = Range(Tail(q)) \cup {Head(q)}
         /\ IsInjective(q) => IsInjective(Tail(q)) /\ Head(q) \notin Range(Tail(q))
<1> DEFINE r == Tail(q)
<1>1. /\ r \in Seq(T) /\ Head(q) \in T /\ Head(q) = q[1]
      /\ Len(q) \in Nat \ {0}
      /\ DOMAIN q = 1 .. Len(q)
      /\ DOMAIN r = 1 .. Len(q) - 1
      /\ \A i \in 1 .. Len(q) - 1 : r[i] = q[i + 1]
  OBVIOUS
<1> HIDE DEF r
<1>2. \A i \in 2 .. Len(q) : i - 1 \in 1 .. Len(q) - 1 /\ q[i] = r[i - 1]
  BY <1>1
<1>3. Range(q) = Range(r) \cup {q[1]}
  <2>1. ASSUME NEW x \in Range(q), x # q[1]
        PROVE  x \in Range(r)
    <3>1. PICK i \in 1 .. Len(q) : x = q[i]
      BY <1>1 DEF Range
    <3>2. i \in 2 .. Len(q)
      BY <1>1, <2>1, <3>1
    <3> QED BY ZenonT(60), <1>1, <1>2, <3>1, <3>2 DEF Range
  <2>2. ASSUME NEW x \in Range(r)
        PROVE  x \in Range(q)
    <3>1. PICK i \in 1 .. Len(q) - 1 : x = r[i]
      BY <1>1 DEF Range
    <3>2. i + 1 \in 1 .. Len(q) /\ x = q[i + 1]
      BY <1>1, <3>1
    <3> QED BY <1>1, <3>2 DEF Range
  <2>3. q[1] \in Range(q)
    <3>1. 1 \in 1 .. Len(q)
      BY <1>1
    <3> QED BY <1>1, <3>1 DEF Range
  <2> QED BY <2>1, <2>2, <2>3
<1>4. ASSUME IsInjective(q)
      PROVE  IsInjective(r) /\ q[1] \notin Range(r)
  <2>1. ASSUME NEW i \in 1 .. Len(q) - 1
        PROVE  /\ i + 1 \in DOMAIN q /\ 1 \in DOMAIN q /\ i + 1 # 1
               /\ r[i] = q[i + 1]
    BY <1>1
  <2>2. ASSUME NEW i \in DOMAIN r, NEW j \in DOMAIN r, r[i] = r[j]
        PROVE  i = j
    <3>1. i \in Nat /\ j \in Nat /\ i + 1 = j + 1
      BY <1>1, <1>4, <2>1, <2>2 DEF IsInjective
    <3> QED BY <3>1
  <2>3. q[1] \notin Range(r)
    BY <1>1, <1>4, <2>1 DEF IsInjective, Range
  <2> QED BY <2>2, <2>3 DEF IsInjective
<1>5. q[1] \in Range(q)
  BY <1>3
<1> QED BY <1>1, <1>3, <1>4, <1>5 DEF r

\* list_remove(): the elements behind position n move up.
LEMMA RemoveAtEffect ==
  ASSUME NEW T, NEW l \in Seq(T), NEW n \in 1 .. Len(l)
  PROVE  LET r == [i \in 1 .. Len(l) - 1 |-> IF i < n THEN l[i] ELSE l[i + 1]] IN
         r \in Seq(T) /\ Len(r) = Len(l) - 1
<1> DEFINE r == [i \in 1 .. Len(l) - 1 |-> IF i < n THEN l[i] ELSE l[i + 1]]
<1>1. Len(l) \in Nat /\ Len(l) - 1 \in Nat /\ \A i \in 1 .. Len(l) : l[i] \in T
  OBVIOUS
<1>2. \A i \in 1 .. Len(l) - 1 : i \in 1 .. Len(l) /\ i + 1 \in 1 .. Len(l)
  BY <1>1
<1>3. r \in [1 .. Len(l) - 1 -> T]
  BY <1>1, <1>2
<1>4. PICK k \in Nat : k = Len(l) - 1
  BY <1>1
<1> HIDE DEF r
<1>5. r \in Seq(T) /\ Len(r) = k
  BY <1>3, <1>4
<1> QED BY <1>4, <1>5 DEF r

\* list_init(): the empty queue has no members.
LEMMA EmptyMembers ==
  /\ Range(<<>>) = {}
  /\ IsInjective(<<>>)
  /\ \A T : <<>> \in Seq(T)
BY DEF Range, IsInjective

\* A member of a queue of elements of T is in T, and a queue with a member is
\* not empty.
LEMMA MemberOf ==
  ASSUME NEW T, NEW q \in Seq(T), NEW x \in Range(q)
  PROVE  x \in T /\ q # <<>>
BY DEF Range

=============================================================================
