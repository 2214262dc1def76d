-------------------------------- MODULE Lists --------------------------------
(***************************************************************************)
(* Doubly linked lists (lib/kernel/list.c), with the pointers they are     *)
(* made of, against the sequences they stand for.  There are two lists;    *)
(* head and tail are elements of their own, and removed elements keep      *)
(* their old pointers, as in the code.                                     *)
(***************************************************************************)
EXTENDS Integers, Sequences, FiniteSets, SequencesExt

CONSTANTS Items,    \* the elements: a set of positive numbers
          Value     \* what less() compares: a function from the elements

ListId == {1, 2}
head(l) == -l
tail(l) == -2 - l
Node == Items \union {head(l) : l \in ListId} \union {tail(l) : l \in ListId}
nil == 0

ListsAssumption ==
  /\ Items \subseteq Nat \ {0} /\ IsFiniteSet(Items)
  /\ DOMAIN Value = Items

less(a, b) == Value[a] < Value[b]

VARIABLES
  link,    \* per node: [prev, next]
  lists,   \* history: the sequences
  answer   \* what list_min() or list_max() has found, and should find

NoAnswer == <<nil, nil>>
list_vars == <<link, lists, answer>>

ListsInit ==
  /\ link = [n \in Node |->
               [prev |-> IF \E l \in ListId : n = tail(l) THEN n + 2 ELSE nil,
                next |-> IF \E l \in ListId : n = head(l) THEN n - 2 ELSE nil]]
  /\ lists = [l \in ListId |-> <<>>]
  /\ answer = NoAnswer

-----------------------------------------------------------------------------
(* Operations on the pointers k; list_begin(), list_next() and the like are  *)
(* the fields.                                                              *)

list_insert(k, before, e) ==
  LET p == k[before].prev
      a == [k EXCEPT ![e] = [prev |-> p, next |-> before]]
      b == [a EXCEPT ![p].next = e]
  IN  [b EXCEPT ![before].prev = e]

list_remove(k, e) ==
  [[k EXCEPT ![k[e].prev].next = k[e].next] EXCEPT ![k[e].next].prev = k[e].prev]

\* Mutant: the element in front of the spliced ones keeps its next pointer.
list_splice_half(k, before, first, end) ==
  IF first = end THEN k ELSE
  LET last == k[end].prev
      a == [k EXCEPT ![k[last].next].prev = k[first].prev]
      p == a[before].prev
      b == [[a EXCEPT ![first].prev = p] EXCEPT ![last].next = before]
  IN  [[b EXCEPT ![p].next = first] EXCEPT ![before].prev = last]

list_splice(k, before, first, end) ==
  IF first = end THEN k ELSE
  LET last == k[end].prev
      out == [k EXCEPT ![k[first].prev].next = k[last].next]
      a == [out EXCEPT ![k[last].next].prev = k[first].prev]
      p == a[before].prev
      b == [[a EXCEPT ![first].prev = p] EXCEPT ![last].next = before]
  IN  [[b EXCEPT ![p].next = first] EXCEPT ![before].prev = last]

\* The loop of list_reverse(): prev and next of each element from e on are swapped.
RECURSIVE SwapAll(_, _, _)
SwapAll(k, e, end) ==
  IF e = end THEN k
  ELSE LET s == [k EXCEPT ![e] = [prev |-> k[e].next, next |-> k[e].prev]]
       IN  SwapAll(s, s[e].prev, end)

list_reverse(k, l) ==
  IF k[head(l)].next = tail(l) THEN k ELSE
  LET s == SwapAll(k, k[head(l)].next, tail(l))
      f == s[head(l)].next
      b == s[tail(l)].prev
      t == [[s EXCEPT ![head(l)].next = b] EXCEPT ![tail(l)].prev = f]
      fp == t[b].prev
      bn == t[f].next
  IN  [[t EXCEPT ![b].prev = bn] EXCEPT ![f].next = fp]

\* The (exclusive) end of the run that starts at a.
RECURSIVE find_end_of_run(_, _, _)
find_end_of_run(k, a, b) ==
  LET n == k[a].next IN
  IF n # b /\ ~less(n, k[n].prev) THEN find_end_of_run(k, n, b) ELSE n

RECURSIVE inplace_merge(_, _, _, _)
inplace_merge(k, a0, a1b0, b1) ==
  IF a0 = a1b0 \/ a1b0 = b1 THEN k
  ELSE IF ~less(a1b0, a0) THEN inplace_merge(k, k[a0].next, a1b0, b1)
  ELSE LET n == k[a1b0].next
       IN  inplace_merge(list_splice(k, a0, k[n].prev, n), a0, n, b1)

\* One pass of list_sort() from a0 on: the pointers and the number of runs written.
RECURSIVE MergePass(_, _, _, _)
MergePass(k, a0, end, runs) ==
  IF a0 = end THEN [k |-> k, runs |-> runs] ELSE
  LET a1b0 == find_end_of_run(k, a0, end)
      b1 == find_end_of_run(k, a1b0, end)
  IN  IF a1b0 = end THEN [k |-> k, runs |-> runs + 1]
      ELSE MergePass(inplace_merge(k, a0, a1b0, b1), b1, end, runs + 1)

RECURSIVE list_sort(_, _)
list_sort(k, l) ==
  LET p == MergePass(k, k[head(l)].next, tail(l), 0) IN
  IF p.runs > 1 THEN list_sort(p.k, l) ELSE p.k

\* The first element from e on that elem is less than, or the tail.
RECURSIVE Position(_, _, _, _)
Position(k, e, end, elem) ==
  IF e = end \/ less(elem, e) THEN e ELSE Position(k, k[e].next, end, elem)

list_insert_ordered(k, l, elem) ==
  list_insert(k, Position(k, k[head(l)].next, tail(l), elem), elem)

\* The loop of list_unique(): equal neighbours move to the list dup.
RECURSIVE Unique(_, _, _, _)
Unique(k, elem, end, dup) ==
  LET n == k[elem].next IN
  IF n = end THEN k
  ELSE IF ~less(elem, n) /\ ~less(n, elem)
  THEN Unique(list_insert(list_remove(k, n), tail(dup), n), elem, end, dup)
  ELSE Unique(k, n, end, dup)

list_unique(k, l, dup) ==
  IF k[head(l)].next = tail(l) THEN k ELSE Unique(k, k[head(l)].next, tail(l), dup)

\* The loops of list_min() and list_max(): e is the best so far.
RECURSIVE Extreme(_, _, _, _, _)
Extreme(k, best, e, end, max) ==
  IF e = end THEN best
  ELSE Extreme(k, IF (IF max THEN less(best, e) ELSE less(e, best)) THEN e ELSE best,
               k[e].next, end, max)

list_min_max(k, l, max) ==
  LET b == k[head(l)].next IN
  IF b = tail(l) THEN b ELSE Extreme(k, b, k[b].next, tail(l), max)

-----------------------------------------------------------------------------
(* Steps: each operation, and what it should do to the sequences.            *)

Linked == ToSet(lists[1]) \union ToSet(lists[2])

\* What the operations promise of sequences.
Ordered(s) == \A i, j \in DOMAIN s : i < j => ~less(s[j], s[i])
Sorted(s) ==
  CHOOSE t \in SetToSeqs(ToSet(s)) :
    /\ Ordered(t)
    /\ \A i, j \in DOMAIN s : i < j /\ ~less(s[j], s[i]) =>
         \E x, y \in DOMAIN t : x < y /\ t[x] = s[i] /\ t[y] = s[j]
IsRepeat(s, i) == i > 1 /\ Value[s[i - 1]] = Value[s[i]]
Pick(s, want(_)) ==
  LET is == SetToSortSeq({i \in DOMAIN s : want(i)}, <) IN [i \in DOMAIN is |-> s[is[i]]]
Extremes(s, max) == {i \in DOMAIN s : \A j \in DOMAIN s : IF max THEN ~less(s[i], s[j]) ELSE ~less(s[j], s[i])}

\* list_push_front(), list_push_back() and list_insert() in between.
insert(l, i, e) ==
  /\ e \in Items \ Linked /\ i \in 1 .. Len(lists[l]) + 1
  /\ link' = list_insert(link, IF i > Len(lists[l]) THEN tail(l) ELSE lists[l][i], e)
  /\ lists' = [lists EXCEPT ![l] = InsertAt(@, i, e)]
  /\ answer' = NoAnswer

\* list_pop_front(), list_pop_back() and list_remove() in between.
remove(l, i) ==
  /\ i \in DOMAIN lists[l]
  /\ link' = list_remove(link, lists[l][i])
  /\ lists' = [lists EXCEPT ![l] = RemoveAt(@, i)]
  /\ answer' = NoAnswer

\* The elements from the i'th to before the j'th move to the front of list m.
splice(l, m, i, j) ==
  /\ l # m /\ i \in DOMAIN lists[l] /\ j \in i .. Len(lists[l]) + 1
  /\ link' = list_splice(link, link[head(m)].next, lists[l][i],
                         IF j > Len(lists[l]) THEN tail(l) ELSE lists[l][j])
  /\ lists' = [lists EXCEPT ![l] = SubSeq(@, 1, i - 1) \o SubSeq(@, j, Len(@)),
                            ![m] = SubSeq(lists[l], i, j - 1) \o @]
  /\ answer' = NoAnswer

reverse(l) ==
  /\ link' = list_reverse(link, l)
  /\ lists' = [lists EXCEPT ![l] = Reverse(@)]
  /\ answer' = NoAnswer

sort(l) ==
  /\ link' = list_sort(link, l)
  /\ lists' = [lists EXCEPT ![l] = Sorted(@)]
  /\ answer' = NoAnswer

\* In a sorted list.
insert_ordered(l, e) ==
  LET s == lists[l]
      at == CHOOSE i \in 1 .. Len(s) + 1 :
              /\ \A j \in 1 .. i - 1 : ~less(e, s[j])
              /\ i <= Len(s) => less(e, s[i])
  IN
  /\ e \in Items \ Linked /\ Ordered(s)
  /\ link' = list_insert_ordered(link, l, e)
  /\ lists' = [lists EXCEPT ![l] = InsertAt(@, at, e)]
  /\ answer' = NoAnswer

unique(l, m) ==
  LET s == lists[l]
      first(i) == ~IsRepeat(s, i)
      again(i) == IsRepeat(s, i)
  IN
  /\ l # m
  /\ link' = list_unique(link, l, m)
  /\ lists' = [lists EXCEPT ![l] = Pick(s, first), ![m] = @ \o Pick(s, again)]
  /\ answer' = NoAnswer

\* list_min() and list_max(): the earliest, or the tail of an empty list.
min_max(l, max) ==
  LET s == lists[l]
      e == Extremes(s, max)
  IN
  /\ answer' = <<list_min_max(link, l, max),
                 IF s = <<>> THEN tail(l) ELSE s[CHOOSE i \in e : \A j \in e : i <= j]>>
  /\ UNCHANGED <<link, lists>>

-----------------------------------------------------------------------------
(* Properties *)

(***************************************************************************)
(* After any sequence of operations the two lists, followed from head to   *)
(* tail and from tail to head, are the sequences that the operations       *)
(* promise: list_sort() sorts and keeps equal elements in order,           *)
(* list_unique() keeps the first of equal neighbours and appends the       *)
(* others, list_insert_ordered() inserts after equal elements, and         *)
(* list_min() and list_max() find the earliest.                            *)
(***************************************************************************)
ListsAsSequences ==
  /\ \A l \in ListId :
       LET nodes == <<head(l)>> \o lists[l] \o <<tail(l)>> IN
       /\ \A i \in 1 .. Len(nodes) - 1 :
            link[nodes[i]].next = nodes[i + 1] /\ link[nodes[i + 1]].prev = nodes[i]
       /\ link[head(l)].prev = nil /\ link[tail(l)].next = nil
  /\ answer[1] = answer[2]
=============================================================================
