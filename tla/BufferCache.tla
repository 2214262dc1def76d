---------------------------- MODULE BufferCache ----------------------------
(***************************************************************************)
(* The buffer cache of filesys/buffer.c: a fixed number of slots on a list *)
(* in order of use, written back to the disk on eviction and on flush.     *)
(* Every operation but buffer_performance() holds list_revise_lock, which  *)
(* is an abstract mutex here (Synch shows that locks are); the thread that *)
(* holds it sleeps during disk transfers, so each transfer is a step.  A   *)
(* crash may come between any two steps.                                   *)
(***************************************************************************)
EXTENDS Naturals, SequencesExt

CONSTANTS Thread,
          Cleaner, Meter,  \* those that call buffer_clean(), buffer_performance()
          Sector,          \* (device, sector number) pairs
          Slot, SlotOrder, \* the struct sector_caches, as buffer_init() lists them
          Part, Val,       \* the parts a sector is written in, and their values
          Extent,          \* the sets of parts (offset, size) that callers use
          PartialMiss,     \* whether callers write parts of uncached sectors
          TestsAlone,      \* whether those run only while no other call does
          IntRange,        \* the number of values of a counter
          NULL

ASSUME BufferAssumption ==
  /\ Cleaner \subseteq Thread /\ Meter \subseteq Thread
  /\ SlotOrder \in Seq(Slot) /\ SlotOrder # <<>>
  /\ IsInjective(SlotOrder) /\ ToSet(SlotOrder) = Slot
  /\ Extent \subseteq SUBSET Part
  /\ PartialMiss \in BOOLEAN /\ TestsAlone \in BOOLEAN
  /\ IntRange \in Nat \ {0}
  /\ Val # {}
  /\ NULL \notin Thread \cup Sector \cup Slot

Content == [Part -> Val]
Zero == [p \in Part |-> CHOOSE v \in Val : TRUE]

VARIABLES open_sectors,  \* the slots, most recently used first
          valid, dirty, sector_id, sector_location,  \* the fields of each slot
          num_access, num_hits,
          list_revise_lock,  \* the thread that holds it, or NULL
          disk,
          pc,    \* where each thread is
          req,   \* the arguments of its call
          slot,  \* the slot its call works on
          out,   \* what its buffer_read() has copied
          stats, \* what its buffer_performance() has copied
          recent \* history: the sectors used since the cache was cold, latest first

list_vars == <<open_sectors, recent>>
slot_vars == <<valid, dirty, sector_id, sector_location>>
count_vars == <<num_access, num_hits, stats>>
vars == <<list_vars, slot_vars, count_vars, list_revise_lock, disk,
          pc, req, slot, out>>

Request ==
  [op : {"read"}, sector : Sector, extent : Extent]
    \cup [op : {"write"}, sector : Sector, extent : Extent, buf : Content]
    \cup [op : {"flush", "clean"}]

\* buffer_init() over a disk with any content.
Init ==
  /\ open_sectors = SlotOrder
  /\ valid = [c \in Slot |-> FALSE]
  /\ dirty = [c \in Slot |-> FALSE]
  /\ sector_id = [c \in Slot |-> NULL]
  /\ sector_location = [c \in Slot |-> Zero]
  /\ num_access = 0
  /\ num_hits = 0
  /\ list_revise_lock = NULL
  /\ disk \in [Sector -> Content]
  /\ pc = [t \in Thread |-> "out"]
  /\ req = [t \in Thread |-> NULL]
  /\ slot = [t \in Thread |-> NULL]
  /\ out = [t \in Thread |-> NULL]
  /\ stats = [t \in Thread |-> [access |-> 0, hit |-> 0]]
  /\ recent = <<>>

-----------------------------------------------------------------------------
(* Helpers.                                                                *)

Goto(t, label) == pc' = [pc EXCEPT ![t] = label]
Plus1(n) == (n + 1) % IntRange

\* Where the search for sector s may stop: at its slot, or at an invalid one.
Stops(s) ==
  {i \in DOMAIN open_sectors :
     valid[open_sectors[i]] => sector_id[open_sectors[i]] = s}

Found(s) == Stops(s) # {} /\ valid[open_sectors[Min(Stops(s))]]

\* Mutant: the slot to reuse is the one at the front.
Place_first(s) == IF Stops(s) # {} THEN Min(Stops(s)) ELSE 1

\* The position of the slot found, else of the slot to reuse: the first
\* invalid one or, when the search runs off the list, the last.
Place(s) == IF Stops(s) # {} THEN Min(Stops(s)) ELSE Len(open_sectors)

\* memcpy() of the request's extent into, and out of, the content c.
Overlay(c, r) == [p \in Part |-> IF p \in r.extent THEN r.buf[p] ELSE c[p]]
Copy(c, r) == [p \in r.extent |-> c[p]]

\* block_write() of slot c.
WriteBack(c) == disk' = [disk EXCEPT ![sector_id[c]] = sector_location[c]]

-----------------------------------------------------------------------------
(* buffer_read() and buffer_write().                                       *)

\* lock_acquire (&list_revise_lock).
Locks(t) == list_revise_lock = NULL /\ list_revise_lock' = t

\* The other threads that are inside a call, and those inside a call for the tests.
Others(t) == {u \in Thread \ {t} : pc[u] # "out"}
Testing == {"perf_hits", "perf_reset_access", "perf_reset_hits"}
Tests(t) == {u \in Others(t) : pc[u] \in Testing \/ req[u].op = "clean"}

\* A thread enters with its request, once it has the lock.  Unless PartialMiss,
\* a write to a sector that is not cached covers the whole sector.  With TestsAlone,
\* buffer_clean() and buffer_performance() are called as the tests call them, by the
\* only program that runs.
buffer_enter(t, r) ==
  /\ pc[t] = "out"
  /\ TestsAlone => Tests(t) = {} /\ (r.op = "clean" => Others(t) = {})
  /\ Locks(t)
  /\ r.op = "write" => PartialMiss \/ r.extent = Part \/ Found(r.sector)
  /\ req' = [req EXCEPT ![t] = r]
  /\ Goto(t, IF r.op \in {"read", "write"} THEN "look" ELSE "flush")
  /\ UNCHANGED <<list_vars, slot_vars, count_vars, disk, slot, out>>

\* list_remove() or list_pop_back().
Unlink(i) == open_sectors' = RemoveAt(open_sectors, i)

\* The search: the slot found or to be reused is unlinked.
buffer_look(t) ==
  LET s == req[t].sector IN
  /\ pc[t] = "look"
  /\ num_access' = Plus1(num_access)
  /\ slot' = [slot EXCEPT ![t] = open_sectors[Place(s)]]
  /\ Unlink(Place(s))
  /\ Goto(t, IF Found(s) THEN "hit" ELSE "evict")
  /\ UNCHANGED <<slot_vars, num_hits, stats, list_revise_lock, disk, req, out, recent>>

\* A write that hits marks the slot dirty.
HitDirty(t) ==
  dirty' = [dirty EXCEPT ![slot[t]] = @ \/ req[t].op = "write"]

Relink(c) == open_sectors' = <<c>> \o open_sectors

\* The sector is cached: copy from or to it and move the slot to the front.
buffer_hit(t) ==
  LET c == slot[t]  r == req[t] IN
  /\ pc[t] = "hit"
  /\ IF r.op = "read"
     THEN /\ out' = [out EXCEPT ![t] = Copy(sector_location[c], r)]
          /\ UNCHANGED sector_location
     ELSE /\ sector_location' = [sector_location EXCEPT ![c] = Overlay(@, r)]
          /\ UNCHANGED out
  /\ HitDirty(t)
  /\ Relink(c)
  /\ recent' = <<r.sector>> \o Remove(recent, r.sector)
  /\ num_hits' = Plus1(num_hits)
  /\ Goto(t, "release")
  /\ UNCHANGED <<valid, sector_id, num_access, stats, list_revise_lock, disk, req, slot>>

\* Mutant: dirty slots are not written back on eviction.
Evicts_none(c) == UNCHANGED disk

\* The slot to be reused is written back if it is dirty and valid.
Evicts(c) == IF dirty[c] /\ valid[c] THEN WriteBack(c) ELSE UNCHANGED disk

buffer_evict(t) ==
  /\ pc[t] = "evict"
  /\ Evicts(slot[t])
  /\ Goto(t, "fill")
  /\ UNCHANGED <<list_vars, slot_vars, count_vars, list_revise_lock, req, slot, out>>

\* The slot takes the sector: a read fetches it from the disk; a write copies
\* its extent over what the slot held, without fetching the sector.
buffer_fill(t) ==
  LET c == slot[t]  r == req[t] IN
  /\ pc[t] = "fill"
  /\ IF r.op = "read"
     THEN /\ sector_location' = [sector_location EXCEPT ![c] = disk[r.sector]]
          /\ out' = [out EXCEPT ![t] = Copy(disk[r.sector], r)]
     ELSE /\ sector_location' = [sector_location EXCEPT ![c] = Overlay(@, r)]
          /\ UNCHANGED out
  /\ valid' = [valid EXCEPT ![c] = TRUE]
  /\ dirty' = [dirty EXCEPT ![c] = r.op = "write"]
  /\ sector_id' = [sector_id EXCEPT ![c] = r.sector]
  /\ Relink(c)
  /\ recent' = <<r.sector>> \o Remove(recent, r.sector)
  /\ Goto(t, "release")
  /\ UNCHANGED <<count_vars, list_revise_lock, disk, req, slot>>

\* lock_release() and the return to the caller.
buffer_release(t) ==
  /\ pc[t] = "release"
  /\ list_revise_lock' = NULL
  /\ req' = [req EXCEPT ![t] = NULL]
  /\ slot' = [slot EXCEPT ![t] = NULL]
  /\ out' = [out EXCEPT ![t] = NULL]
  /\ Goto(t, "out")
  /\ UNCHANGED <<list_vars, slot_vars, count_vars, disk>>

-----------------------------------------------------------------------------
(* buffer_update_disk() and buffer_clean().                                *)

Unwritten == {i \in DOMAIN open_sectors : valid[open_sectors[i]] /\ dirty[open_sectors[i]]}

\* The loop of buffer_update_disk() writes the next dirty slot...
buffer_update_disk(t) ==
  LET c == open_sectors[Min(Unwritten)] IN
  /\ pc[t] = "flush"
  /\ Unwritten # {}
  /\ WriteBack(c)
  /\ dirty' = [dirty EXCEPT ![c] = FALSE]
  /\ UNCHANGED <<list_vars, valid, sector_id, sector_location, count_vars,
                 list_revise_lock, pc, req, slot, out>>

\* Mutant: the flush may stop while a dirty slot is left.
FlushOver_early == Cardinality(Unwritten) <= 1

FlushOver == Unwritten = {}

\* ... and ends when none is left.
buffer_update_end(t) ==
  /\ pc[t] = "flush"
  /\ FlushOver
  /\ Goto(t, "flushed")
  /\ UNCHANGED <<list_vars, slot_vars, count_vars, list_revise_lock, disk, req, slot, out>>

\* It releases the lock; buffer_clean() goes on to take it again.
buffer_update_release(t) ==
  /\ pc[t] = "flushed"
  /\ list_revise_lock' = NULL
  /\ Goto(t, IF req[t].op = "clean" THEN "invalidate" ELSE "out")
  /\ req' = IF req[t].op = "clean" THEN req ELSE [req EXCEPT ![t] = NULL]
  /\ UNCHANGED <<list_vars, slot_vars, count_vars, disk, slot, out>>

\* buffer_clean() invalidates every slot and resets the counters.
buffer_clean(t) ==
  /\ pc[t] = "invalidate"
  /\ Locks(t)
  /\ valid' = [c \in Slot |-> FALSE]
  /\ num_access' = 0
  /\ recent' = <<>>
  /\ Goto(t, "reset_hits")
  /\ UNCHANGED <<open_sectors, dirty, sector_id, sector_location, num_hits, stats,
                 disk, req, slot, out>>

buffer_clean_hits(t) ==
  /\ pc[t] = "reset_hits"
  /\ num_hits' = 0
  /\ Goto(t, "release")
  /\ UNCHANGED <<list_vars, slot_vars, num_access, stats, list_revise_lock, disk,
                 req, slot, out>>

-----------------------------------------------------------------------------
(* buffer_performance() copies and resets the counters without the lock.   *)

buffer_performance(t) ==
  /\ \/ /\ pc[t] = "out" /\ (TestsAlone => Others(t) = {})
        /\ stats' = [stats EXCEPT ![t].access = num_access]
        /\ Goto(t, "perf_hits")
        /\ UNCHANGED <<num_access, num_hits>>
     \/ /\ pc[t] = "perf_hits"
        /\ stats' = [stats EXCEPT ![t].hit = num_hits]
        /\ Goto(t, "perf_reset_access")
        /\ UNCHANGED <<num_access, num_hits>>
     \/ /\ pc[t] = "perf_reset_access"
        /\ num_access' = 0
        /\ Goto(t, "perf_reset_hits")
        /\ UNCHANGED <<num_hits, stats>>
     \/ /\ pc[t] = "perf_reset_hits"
        /\ num_hits' = 0
        /\ stats' = [stats EXCEPT ![t] = [access |-> 0, hit |-> 0]]
        /\ Goto(t, "out")
        /\ UNCHANGED num_access
  /\ UNCHANGED <<list_vars, slot_vars, list_revise_lock, disk, req, slot, out>>

\* The machine stops without a flush and starts again, with buffer_init().
Crash ==
  /\ open_sectors' = SlotOrder
  /\ valid' = [c \in Slot |-> FALSE]
  /\ dirty' = [c \in Slot |-> FALSE]
  /\ sector_id' = [c \in Slot |-> NULL]
  /\ sector_location' = [c \in Slot |-> Zero]
  /\ num_access' = 0
  /\ num_hits' = 0
  /\ list_revise_lock' = NULL
  /\ pc' = [t \in Thread |-> "out"]
  /\ req' = [t \in Thread |-> NULL]
  /\ slot' = [t \in Thread |-> NULL]
  /\ out' = [t \in Thread |-> NULL]
  /\ stats' = [t \in Thread |-> [access |-> 0, hit |-> 0]]
  /\ recent' = <<>>
  /\ UNCHANGED disk

Next ==
  \/ \E t \in Thread :
       \/ \E r \in Request : (r.op = "clean" => t \in Cleaner) /\ buffer_enter(t, r)
       \/ buffer_look(t) \/ buffer_hit(t) \/ buffer_evict(t) \/ buffer_fill(t)
       \/ buffer_release(t)
       \/ buffer_update_disk(t) \/ buffer_update_end(t) \/ buffer_update_release(t)
       \/ buffer_clean(t) \/ buffer_clean_hits(t)
       \/ t \in Meter /\ buffer_performance(t)
  \/ Crash

Spec == Init /\ [][Next]_vars

-----------------------------------------------------------------------------
(* Properties.                                                             *)

\* The slots that hold sector s.
Holding(s) == {c \in Slot : valid[c] /\ sector_id[c] = s}

(***************************************************************************)
(* Least recently used replacement: between calls, the cached sectors, in  *)
(* list order, are the most recently used sectors in order of their last   *)
(* use ("the head of list the recent one, the tail of the list is the      *)
(* oldest one", filesys/buffer.c:10), no slot stays unused while a sector  *)
(* used before is not cached, and no sector is cached twice: the search    *)
(* may stop at the first invalid slot (filesys/buffer.c:111).              *)
(***************************************************************************)
LRUOrder ==
  LET cached == {i \in DOMAIN open_sectors : valid[open_sectors[i]]}
      n == Cardinality(cached)
  IN  list_revise_lock = NULL =>
        /\ n = Min({Len(recent), Len(open_sectors)})
        /\ cached = 1 .. n
        /\ \A i \in 1 .. n : sector_id[open_sectors[i]] = recent[i]

\* What a reader of sector s sees: the cached content, else that on the disk.
Visible(s) ==
  IF Holding(s) = {} THEN disk[s] ELSE sector_location[CHOOSE c \in Holding(s) : TRUE]

\* "flush all the dirty entries whenever file_sys_done is called"
\* (proj3_final_doc.txt): when buffer_update_disk() ends, the disk holds what
\* readers see of every sector, so a crash now loses nothing.
FlushMakesDurable ==
  \A t \in Thread : pc[t] = "flushed" => \A s \in Sector : disk[s] = Visible(s)

\* A buffer_write() that misses leaves the rest of the sector as it is: it "need[s]
\* to read from the real device" (filesys/buffer.c:188) what it does not write.
WriteKeepsRest ==
  [][\A t \in Thread :
       pc[t] = "fill" /\ pc'[t] = "release" /\ req[t].op = "write" =>
         \A p \in Part \ req[t].extent :
           Visible(req[t].sector)'[p] = Visible(req[t].sector)[p]]_vars

\* buffer_clean() makes the cache cold and loses nothing that buffer_write() was
\* given: what readers see of each sector stays.
CleanLosesNothing ==
  [][\A t \in Thread :
       pc[t] = "invalidate" /\ pc'[t] = "reset_hits" =>
         \A s \in Sector : Visible(s)' = Visible(s)]_vars

\* buffer_performance() reports "the number of accesses and hits"
\* (proj3_final_doc.txt), and every hit is an access.
HitsAreAccesses ==
  \A t \in Thread :
    pc[t] = "perf_reset_access" => stats[t].hit <= stats[t].access

=============================================================================
