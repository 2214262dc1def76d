----------------------------- MODULE HashTable -----------------------------
(***************************************************************************)
(* Hash tables (lib/kernel/hash.c) against the sets they stand for: the    *)
(* buckets, and rehash() at the end of insertions and deletions, whose     *)
(* allocation may fail.  The least number of buckets and the ideal number  *)
(* of elements per bucket are scaled down.                                 *)
(***************************************************************************)
EXTENDS Integers, Sequences, FiniteSets, SequencesExt, FiniteSetsExt

CONSTANTS Entry,       \* elements
          KeyOf,       \* what less() compares
          HashOf,      \* the hash of a key
          MIN_BUCKETS, BEST_ELEMS_PER_BUCKET

null == 0

HashAssumption ==
  /\ DOMAIN KeyOf = Entry /\ null \notin Entry
  /\ \A e \in Entry : HashOf[KeyOf[e]] \in Nat
  /\ MIN_BUCKETS \in Nat \ {0} /\ BEST_ELEMS_PER_BUCKET \in Nat \ {0}

VARIABLES
  buckets,    \* sequence of the lists; bucket_cnt is its length
  elem_cnt,
  stored,     \* history: the elements that should be in the table
  returned    \* what the last call returned, and should return

hash_vars == <<buckets, elem_cnt, stored, returned>>

\* hash_init()
HashInit ==
  /\ buckets = [i \in 1 .. MIN_BUCKETS |-> <<>>]
  /\ elem_cnt = 0 /\ stored = {} /\ returned = <<null, null>>

-----------------------------------------------------------------------------

\* h->hash (e) & (h->bucket_cnt - 1): the low bits, as bucket_cnt is a power of 2.
find_bucket(b, e) == 1 + (HashOf[KeyOf[e]] % Len(b))

\* The first element of the bucket that is neither less nor greater.
find_elem(b, e) ==
  LET l == b[find_bucket(b, e)]
      same == {i \in DOMAIN l : KeyOf[l[i]] = KeyOf[e]}
  IN  IF same = {} THEN null ELSE l[Min(same)]

insert_elem(b, e) == [b EXCEPT ![find_bucket(b, e)] = <<e>> \o @]
remove_elem(b, e) == [b EXCEPT ![find_bucket(b, e)] = SelectSeq(@, LAMBDA x : x # e)]

\* x & (x - 1) until a power of 2 is left: the highest bit of x.
RECURSIVE PowerBelow(_, _)
PowerBelow(x, p) == IF 2 * p > x THEN p ELSE PowerBelow(x, 2 * p)

new_bucket_cnt(cnt) ==
  LET n == cnt \div BEST_ELEMS_PER_BUCKET IN
  PowerBelow(IF n < MIN_BUCKETS THEN MIN_BUCKETS ELSE n, 1)

\* Mutant: an element keeps the number of its bucket.
Moved_stays(old, n) ==
  [i \in 1 .. n |-> IF i <= Len(old) THEN old[i] ELSE <<>>]

\* The loop that moves every element to the front of its new bucket.
Moved(old, n) ==
  FoldLeft(LAMBDA b, e : insert_elem(b, e), [i \in 1 .. n |-> <<>>], FlattenSeq(old))

\* rehash(); memory says whether malloc() succeeds.
rehash(b, cnt, memory) ==
  IF new_bucket_cnt(cnt) = Len(b) \/ ~memory THEN b ELSE Moved(b, new_bucket_cnt(cnt))

\* The element equal to e that should be in the table.
Equal(e) == {x \in stored : KeyOf[x] = KeyOf[e]}
TheEqual(e) == IF Equal(e) = {} THEN null ELSE CHOOSE x \in Equal(e) : TRUE

hash_insert(e, memory) ==
  LET old == find_elem(buckets, e)
      cnt == IF old = null THEN elem_cnt + 1 ELSE elem_cnt
  IN
  /\ e \in Entry \ stored
  /\ elem_cnt' = cnt
  /\ buckets' = rehash(IF old = null THEN insert_elem(buckets, e) ELSE buckets, cnt, memory)
  /\ stored' = IF Equal(e) = {} THEN stored \union {e} ELSE stored
  /\ returned' = <<old, TheEqual(e)>>

hash_replace(e, memory) ==
  LET old == find_elem(buckets, e)
      rest == IF old = null THEN buckets ELSE remove_elem(buckets, old)
      cnt == IF old = null THEN elem_cnt + 1 ELSE elem_cnt
  IN
  /\ e \in Entry \ stored
  /\ elem_cnt' = cnt
  /\ buckets' = rehash(insert_elem(rest, e), cnt, memory)
  /\ stored' = (stored \ Equal(e)) \union {e}
  /\ returned' = <<old, TheEqual(e)>>

\* hash_delete(), and hash_find() when nothing is found.
hash_delete(e, memory) ==
  LET found == find_elem(buckets, e) IN
  /\ e \in Entry
  /\ IF found = null THEN UNCHANGED <<buckets, elem_cnt>>
     ELSE /\ elem_cnt' = elem_cnt - 1
          /\ buckets' = rehash(remove_elem(buckets, found), elem_cnt - 1, memory)
  /\ stored' = stored \ Equal(e)
  /\ returned' = <<found, TheEqual(e)>>

hash_clear ==
  /\ buckets' = [i \in DOMAIN buckets |-> <<>>]
  /\ elem_cnt' = 0 /\ stored' = {} /\ returned' = <<null, null>>

\* hash_next() from the i'th element of bucket b on, after hash_first(): the elements
\* in the order they are visited.
RECURSIVE Visited(_, _)
Visited(b, i) ==
  IF b > Len(buckets) THEN <<>>
  ELSE IF i > Len(buckets[b]) THEN Visited(b + 1, 1)
  ELSE <<buckets[b][i]>> \o Visited(b, i + 1)

-----------------------------------------------------------------------------

(***************************************************************************)
(* Whenever the table grows or shrinks, or would but gets no memory        *)
(* ("we can still continue", lib/kernel/hash.c:350), it holds exactly the  *)
(* elements inserted and not deleted, at most one of equal ones, each in   *)
(* the bucket where it is looked for; it counts them, an iteration visits  *)
(* each once, and what insertions, replacements and deletions return is    *)
(* the equal element.                                                      *)
(***************************************************************************)
HashAsSet ==
  LET visited == Visited(1, 1) IN
  /\ ToSet(visited) = stored /\ Len(visited) = Cardinality(stored)
  /\ elem_cnt = Cardinality(stored)
  /\ \A e \in stored : find_elem(buckets, e) = e
  /\ returned[1] = returned[2]
=============================================================================
