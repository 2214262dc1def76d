------------------------------- MODULE Memory -------------------------------
(***************************************************************************)
(* Memory allocation in the kernel: pages from a pool (threads/palloc.c)   *)
(* and blocks inside arenas of a page (threads/malloc.c).                  *)
(*                                                                         *)
(* Threads hold the lock of the descriptor, an abstract mutex here, while  *)
(* they take pages, and the lock of the pool while they search it; pages   *)
(* are given back without the lock.  Page and block sizes are scaled down, *)
(* and there is one descriptor.                                            *)
(***************************************************************************)
EXTENDS Integers, Sequences, FiniteSets, SequencesExt, FiniteSetsExt

CONSTANTS Task,       \* threads that allocate
          PGSIZE, BLOCK_SIZE, ARENA,   \* bytes of a page, a block and a struct arena
          PoolPages,  \* pages in the pool
          Sizes,      \* bound: the sizes asked for
          MaxBlocks   \* bound: the blocks a thread keeps

Free == "free"
Page == 0 .. PoolPages - 1
blocks_per_arena == (PGSIZE - ARENA) \div BLOCK_SIZE

MemoryAssumption ==
  /\ {PGSIZE, BLOCK_SIZE, ARENA, PoolPages} \subseteq Nat \ {0}
  /\ blocks_per_arena > 0 /\ ARENA < PGSIZE
  /\ Sizes \subseteq Nat /\ MaxBlocks \in Nat
  /\ Free \notin Task

VARIABLES
  used_map,    \* the pages marked in the pool's bitmap
  pool_lock, desc_lock,
  free_list,   \* free blocks: sequence of [page, idx]
  arena,       \* per page: "none", or [desc, free_cnt]
  task,        \* what each thread does
  live,        \* the blocks in use: [owner, page, idx, size]
  asserted     \* the ASSERTs of palloc.c and malloc.c have held

mem_vars == <<used_map, pool_lock, desc_lock, free_list, arena, task, live, asserted>>

Idle == [pc |-> "out"]
NoArena == [desc |-> FALSE, free_cnt |-> 0]
NoBlock == [page |-> -1, idx |-> 0]

MemoryInit ==
  /\ used_map = {} /\ pool_lock = Free /\ desc_lock = Free
  /\ free_list = <<>>
  /\ arena = [p \in Page |-> NoArena]
  /\ task = [t \in Task |-> Idle]
  /\ live = {}
  /\ asserted = TRUE

-----------------------------------------------------------------------------

Blocks(page) == [i \in 1 .. blocks_per_arena |-> [page |-> page, idx |-> i - 1]]
Goes(t, pc) == task' = [task EXCEPT ![t].pc = pc]
Owned(t) == {b \in live : b.owner = t}

\* Mutant: the struct arena in front of a big block is not counted.
page_cnt_bare(size) == (size + PGSIZE - 1) \div PGSIZE

\* DIV_ROUND_UP (size + sizeof *a, PGSIZE)
page_cnt(size) == (size + ARENA + PGSIZE - 1) \div PGSIZE

\* What malloc (size) asks for; old is the block that realloc() moves, if any.
Request(t, size, old) ==
  [pc |-> IF size <= BLOCK_SIZE THEN "desc" ELSE "pool", size |-> size,
   small |-> size <= BLOCK_SIZE,
   cnt |-> IF size <= BLOCK_SIZE THEN 1 ELSE page_cnt(size), old |-> old]

\* malloc() of size bytes; none for size 0.
malloc(t, size) ==
  /\ task[t].pc = "out" /\ size > 0 /\ Cardinality(Owned(t)) < MaxBlocks
  /\ task' = [task EXCEPT ![t] = Request(t, size, NoBlock)]
  /\ UNCHANGED <<used_map, pool_lock, desc_lock, free_list, arena, live, asserted>>

\* realloc() to a size that is not 0; to size 0 it is free().
realloc(t, b, size) ==
  /\ task[t].pc = "out" /\ size > 0 /\ b \in Owned(t)
  /\ task' = [task EXCEPT ![t] = Request(t, size, b)]
  /\ UNCHANGED <<used_map, pool_lock, desc_lock, free_list, arena, live, asserted>>

\* The block is found: it is the thread's, and realloc() goes on to free the old one.
Returned(t, page, idx) ==
  LET b == [owner |-> t, page |-> page, idx |-> idx, size |-> task[t].size] IN
  /\ live' = (live \ {task[t].old}) \union {b}
  /\ task' = [task EXCEPT ![t] = IF @.old = NoBlock THEN Idle
                                 ELSE [pc |-> "free", block |-> @.old]]

\* malloc() under the descriptor's lock: the first free block, or a new arena.
malloc_desc(t) ==
  /\ task[t].pc = "desc" /\ desc_lock = Free
  /\ IF free_list # <<>>
     THEN LET b == Head(free_list) IN
          /\ free_list' = Tail(free_list)
          /\ arena' = [arena EXCEPT ![b.page].free_cnt = @ - 1]
          /\ asserted' = (asserted /\ arena[b.page].desc)
          /\ Returned(t, b.page, b.idx)
          /\ UNCHANGED desc_lock
     ELSE /\ desc_lock' = t
          /\ Goes(t, "pool")
          /\ UNCHANGED <<free_list, arena, live, asserted>>
  /\ UNCHANGED <<used_map, pool_lock>>

\* bitmap_scan(): the start of the first cnt pages in a row that are not marked.
Runs(cnt) == {p \in Page : p + cnt <= PoolPages /\ p .. p + cnt - 1 \intersect used_map = {}}

\* Mutant: the search does not take the pool's lock.
Searching_unlocked(t) == UNCHANGED pool_lock

Searching(t) == pool_lock = Free /\ pool_lock' = t

\* palloc_get_multiple(): the search, with the lock.
palloc_scan(t) ==
  /\ task[t].pc = "pool"
  /\ Searching(t)
  /\ task' = [task EXCEPT ![t] = [pc |-> "flip", size |-> @.size, small |-> @.small,
                                  cnt |-> @.cnt, old |-> @.old,
                                  found |-> IF Runs(@.cnt) = {} THEN -1 ELSE Min(Runs(@.cnt))]]
  /\ UNCHANGED <<used_map, desc_lock, free_list, arena, live, asserted>>

\* Its end: the pages are marked, and malloc() makes a new arena of them, or fails.
palloc_flip(t) ==
  LET r == task[t]
      p == r.found
  IN
  /\ r.pc = "flip"
  /\ pool_lock' = IF pool_lock = t THEN Free ELSE pool_lock
  /\ desc_lock' = IF desc_lock = t THEN Free ELSE desc_lock
  /\ IF p = -1
     THEN /\ task' = [task EXCEPT ![t] = Idle]
          /\ UNCHANGED <<used_map, free_list, arena, live>>
     ELSE /\ used_map' = used_map \union (p .. p + r.cnt - 1)
          /\ free_list' = IF r.small THEN free_list \o Tail(Blocks(p)) ELSE free_list
          /\ arena' = [arena EXCEPT ![p] =
                         [desc |-> r.small,
                          free_cnt |-> IF r.small THEN blocks_per_arena - 1 ELSE r.cnt]]
          /\ Returned(t, p, 0)
  /\ UNCHANGED asserted

\* free() of a block of the thread.
free(t, b) ==
  /\ task[t].pc = "out" /\ b \in Owned(t)
  /\ live' = live \ {b}
  /\ task' = [task EXCEPT ![t] = [pc |-> "free", block |-> b]]
  /\ UNCHANGED <<used_map, pool_lock, desc_lock, free_list, arena, asserted>>

\* ++a->free_cnt >= d->blocks_per_arena
Unused(page) == arena[page].free_cnt + 1 >= blocks_per_arena

\* free() of a block of an arena, under the descriptor's lock; an arena all of whose
\* blocks are free goes back to the pool.
free_small(t) ==
  LET b == [page |-> task[t].block.page, idx |-> task[t].block.idx]
      all == <<b>> \o free_list
  IN
  /\ task[t].pc = "free" /\ arena[b.page].desc /\ desc_lock = Free
  /\ IF Unused(b.page)
     THEN /\ asserted' = (asserted /\ b.page \in used_map
                            /\ arena[b.page].free_cnt + 1 = blocks_per_arena)
          /\ free_list' = SelectSeq(all, LAMBDA x : x.page # b.page)
          /\ arena' = [arena EXCEPT ![b.page] = NoArena]
          /\ used_map' = used_map \ {b.page}
     ELSE /\ free_list' = all
          /\ arena' = [arena EXCEPT ![b.page].free_cnt = @ + 1]
          /\ UNCHANGED <<used_map, asserted>>
  /\ task' = [task EXCEPT ![t] = Idle]
  /\ UNCHANGED <<pool_lock, desc_lock, live>>

\* free() of a big block: palloc_free_multiple() of its pages, one bit at a time.
free_big(t) ==
  LET p == task[t].block.page
      pages == p .. p + arena[p].free_cnt - 1
  IN
  /\ task[t].pc = "free" /\ ~arena[p].desc
  /\ asserted' = (asserted /\ pages \subseteq used_map)
  /\ arena' = [arena EXCEPT ![p] = NoArena]
  /\ task' = [task EXCEPT ![t] = [pc |-> "clear", next |-> p, left |-> Cardinality(pages)]]
  /\ UNCHANGED <<used_map, pool_lock, desc_lock, free_list, live>>

\* bitmap_set_multiple(), without the pool's lock.
palloc_clear(t) ==
  LET r == task[t] IN
  /\ r.pc = "clear"
  /\ used_map' = used_map \ {r.next}
  /\ task' = [task EXCEPT ![t] = IF r.left = 1 THEN Idle
                                 ELSE [r EXCEPT !.next = @ + 1, !.left = @ - 1]]
  /\ UNCHANGED <<pool_lock, desc_lock, free_list, arena, live, asserted>>

-----------------------------------------------------------------------------
(* Properties *)

Address(b) == b.page * PGSIZE + ARENA + b.idx * BLOCK_SIZE
Bytes(b) == Address(b) .. Address(b) + b.size - 1
Header(p) == p * PGSIZE .. p * PGSIZE + ARENA - 1
Clearing == UNION {r.next .. r.next + r.left - 1 : r \in {task[t] : t \in
                     {u \in Task : task[u].pc = "clear"}}}

(***************************************************************************)
(* The bytes of a block belong to one owner at a time: blocks in use do    *)
(* not overlap, lie in pages that the pool has given out and nobody is     *)
(* giving back, and keep clear of the headers of arenas, although pages    *)
(* are given back without the pool's lock; and no assertion of malloc.c    *)
(* or palloc.c fails (malloc(), free(), palloc_free_multiple()).           *)
(***************************************************************************)
BlocksDisjoint ==
  /\ asserted
  /\ \A b, c \in live : b # c => Bytes(b) \intersect Bytes(c) = {}
  /\ \A b \in live :
       /\ {a \div PGSIZE : a \in Bytes(b)} \subseteq used_map \ Clearing
       /\ \A p \in Page : arena[p] # NoArena => Bytes(b) \intersect Header(p) = {}

(***************************************************************************)
(* No page is lost and no free block is forgotten, whatever fails: every   *)
(* page the pool has given out is an arena or part of a big block, or is   *)
(* on its way back; the free blocks of an arena, those on the list, are as *)
(* many as it counts, and an arena without a block in use does not stay    *)
(* (malloc(), realloc(), free()).                                          *)
(***************************************************************************)
PagesAccounted ==
  LET freeing == {task[t].block : t \in {u \in Task : task[u].pc = "free"}}
      big == {b \in live \union freeing : ~arena[b.page].desc}
      small(p) == {b \in live \union freeing : b.page = p}
      arenas == {p \in Page : arena[p].desc}
  IN
  /\ used_map = arenas \union Clearing
                  \union UNION {b.page .. b.page + arena[b.page].free_cnt - 1 : b \in big}
  /\ \A p \in arenas :
       /\ arena[p].free_cnt = Cardinality({i \in DOMAIN free_list : free_list[i].page = p})
       /\ arena[p].free_cnt + Cardinality(small(p)) = blocks_per_arena
       /\ small(p) # {}
=============================================================================
