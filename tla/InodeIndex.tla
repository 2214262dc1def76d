----------------------------- MODULE InodeIndex -----------------------------
(***************************************************************************)
(* The multilevel index of an inode (filesys/inode.c) and the free map     *)
(* (filesys/free-map.c): creation, lookup, growth and removal of files by  *)
(* one thread, over DIR_LEN direct pointers, two single and one double     *)
(* indirect sector of ENTRIES pointers each, and BYTES bytes per sector.   *)
(* What is stored in data sectors is left out; what is stored in index     *)
(* sectors is not.  When the device runs full, inode_create() and          *)
(* inode_extend_length() take the sectors there are and go on with the     *)
(* other pointers as they were, for a new file 0, so that they write over  *)
(* the inode of the free map; a pointer past the end of an index sector is *)
(* outside its buffer.  Both are recorded in fault and end the behaviour.  *)
(***************************************************************************)
EXTENDS Integers, Sequences, SequencesExt, FiniteSets

CONSTANTS DIR_LEN, ENTRIES, BYTES,
          NSectors,   \* sectors of the device
          File,       \* names of files
          Lengths,    \* bound: lengths that files are created with and grow to
          MaxRemovals \* bound: how many files are removed

IndexAssumption ==
  /\ DIR_LEN \in Nat \ {0} /\ ENTRIES \in Nat \ {0} /\ BYTES \in Nat \ {0}
  /\ NSectors \in Nat /\ NSectors > 2
  /\ Lengths \subseteq Nat /\ MaxRemovals \in Nat

VARIABLES free_map,   \* sectors that are marked in the bitmap
          table,      \* content of sectors that are used as index sectors
          data,       \* inode->data of each file, NoFile if there is none
          fault,
          removals    \* how many files have been removed

index_vars == <<free_map, table, data, fault, removals>>

MAX_LEN == (DIR_LEN + 2 * ENTRIES + ENTRIES * ENTRIES) * BYTES

Sector == 0 .. NSectors - 1
Entry == 0 .. ENTRIES - 1
NoFile == [sector |-> 0]
Exists(f) == data[f] # NoFile
inode_disk == [sector : Sector, length : Nat, dir : [0 .. DIR_LEN - 1 -> Sector],
               single_indir : [0 .. 1 -> Sector], double_indir : Sector]

Zeros == [e \in Entry |-> 0]

\* free_map_init(): the free map and the root directory have their sectors.
IndexInit ==
  /\ free_map = {0, 1}
  /\ table = [s \in Sector |-> Zeros]
  /\ data = [f \in File |-> NoFile]
  /\ fault = "none"
  /\ removals = 0

-----------------------------------------------------------------------------
(* Which pointers there are.                                               *)

Single == DIR_LEN                     \* first index under single_indir[0]
Double == DIR_LEN + 2 * ENTRIES       \* first index under double_indir

\* The pointers of an inode: to a data sector, by its index in the file, to the
\* single and double indirect sectors, to second-level sectors and to the inode.
Dat(i) == [kind |-> "data", n |-> i]
Sgl(k) == [kind |-> "single", n |-> k]
Dbl == [kind |-> "double", n |-> 0]
Ino == [kind |-> "inode", n |-> 0]
Lvl2(t) == [kind |-> "level2", n |-> t]

Run(Ptr(_), first, last) == [k \in 1 .. last - first + 1 |-> Ptr(first + k - 1)]
OptTo(cond, ptr) == IF cond THEN <<ptr>> ELSE <<>>

\* The last second-level sector of a file whose last index is n, -1 if none.
Level2(n) == IF n < Double THEN -1 ELSE (n - Double) \div ENTRIES

\* Mutant: growth looks for the first single indirect sector one index late.
NewPointers_late(o, n) ==
     OptTo(n >= Single /\ o <= Single, Sgl(0))
  \o OptTo(n >= Single + ENTRIES /\ o < Single + ENTRIES, Sgl(1))
  \o OptTo(n >= Double /\ o < Double, Dbl)
  \o Run(Lvl2, Level2(o) + 1, Level2(n))
  \o Run(Dat, o + 1, n)

\* The pointers that are allocated, in this order, when the last index of a file
\* goes from o to n; o = -1 for a new file.
NewPointers(o, n) ==
     OptTo(n >= Single /\ o < Single, Sgl(0))
  \o OptTo(n >= Single + ENTRIES /\ o < Single + ENTRIES, Sgl(1))
  \o OptTo(n >= Double /\ o < Double, Dbl)
  \o Run(Lvl2, Level2(o) + 1, Level2(n))
  \o Run(Dat, o + 1, n)

\* free_map_allocate() for each of ptrs: bitmap_scan_and_flip() takes the lowest
\* sector that is free.  Once none is left it fails, and leaves the pointer alone.
Free == Sector \ free_map
NthFree(n) == CHOOSE s \in Free : Cardinality({t \in Free : t <= s}) = n
Allocated(ptrs) ==
  [p \in {ptrs[k] : k \in {n \in DOMAIN ptrs : n <= Cardinality(Free)}} |->
     NthFree(CHOOSE k \in DOMAIN ptrs : ptrs[k] = p)]

\* The content of an index sector: old, with the pointers of this kind, base the number
\* of the first one, replaced where the file grew, from o to n.
Fill(old, kind, sector, base, o, n) ==
  [e \in Entry |->
     LET ptr == [kind |-> kind, n |-> base + e] IN
     IF base + e \in o + 1 .. n /\ ptr \in DOMAIN sector THEN sector[ptr] ELSE old[e]]

\* The inode and the index sectors after an allocation: sector maps the pointers
\* that are new to their sectors, old the index sectors to what they held.
Indexed(d, old, sector, o, n) ==
  LET new(ptr, was) == IF ptr \in DOMAIN sector THEN sector[ptr] ELSE was
      single == [k \in 0 .. 1 |-> new(Sgl(k), d.single_indir[k])]
      double == new(Dbl, d.double_indir)
      second == Fill(old[double], "level2", sector, 0, Level2(o), Level2(n))
      touched == IF n < Double THEN {} ELSE
                   {(i - Double) \div ENTRIES : i \in {j \in o + 1 .. n : j >= Double}}
      lvl2(s) == CHOOSE t \in touched : second[t] = s
      base(t) == Double + t * ENTRIES
  IN  [data |-> [d EXCEPT !.dir = [i \in DOMAIN @ |-> new(Dat(i), @[i])],
                          !.single_indir = single, !.double_indir = double],
       table |-> [s \in Sector |->
         IF n >= Single /\ s = single[0]
           THEN Fill(old[s], "data", sector, Single, o, n)
         ELSE IF n >= Single + ENTRIES /\ s = single[1]
           THEN Fill(old[s], "data", sector, Single + ENTRIES, o, n)
         ELSE IF n >= Double /\ s = double THEN second
         ELSE IF s \in {second[t] : t \in touched}
           THEN Fill(IF base(lvl2(s)) > o THEN Zeros ELSE table[s],
                     "data", sector, base(lvl2(s)), o, n)
         ELSE IF \E ptr \in DOMAIN sector : ptr.kind = "data" /\ sector[ptr] = s THEN Zeros
         ELSE table[s]]]

\* byte_to_sector_helper(): the sector that pointer ptr of inode d leads to.
Stored(d, ptr) ==
  LET i == ptr.n IN
  CASE ptr.kind = "inode" -> d.sector
    [] ptr.kind = "single" -> d.single_indir[i]
    [] ptr.kind = "double" -> d.double_indir
    [] ptr.kind = "level2" -> table[d.double_indir][i]
    [] OTHER ->
         IF i < Single THEN d.dir[i]
         ELSE IF i < Single + ENTRIES THEN table[d.single_indir[0]][i - Single]
         ELSE IF i < Double THEN table[d.single_indir[1]][i - Single - ENTRIES]
         ELSE table[table[d.double_indir][(i - Double) \div ENTRIES]]
                   [(i - Double) % ENTRIES]

byte_to_sector(d, pos) == IF pos < d.length THEN Stored(d, Dat(pos \div BYTES)) ELSE -1

-----------------------------------------------------------------------------
(* The operations.                                                         *)

Fail(why) == fault' = why /\ UNCHANGED <<free_map, table, data, removals>>

\* The sectors of ptrs are marked and the file has the inode and index sectors new; if
\* there were too few, that goes unnoticed.
Grown(f, ptrs, new, why) ==
  LET sector == Allocated(ptrs) IN
  /\ free_map' = free_map \cup {sector[p] : p \in DOMAIN sector}
  /\ table' = new.table
  /\ data' = [data EXCEPT ![f] = new.data]
  /\ fault' = IF Len(ptrs) > Cardinality(Free) THEN why ELSE fault
  /\ UNCHANGED removals

\* free_map_allocate (1, &inode_sector) and inode_create (inode_sector, length).
\* Without a sector for the inode, or above MAX_LEN, nothing is created.
inode_create(f, length) ==
  LET index == length \div BYTES
      ptrs == <<Ino>> \o NewPointers(-1, index)
      sector == Allocated(ptrs)
      empty == [sector |-> sector[Ino], length |-> length,
                dir |-> [i \in 0 .. DIR_LEN - 1 |-> 0],
                single_indir |-> [k \in 0 .. 1 |-> 0], double_indir |-> 0]
      new == Indexed(empty, [s \in Sector |-> Zeros], sector, -1, index)
  IN
  /\ fault = "none" /\ ~Exists(f) /\ Free # {} /\ length <= MAX_LEN
  /\ IF Level2(index) >= ENTRIES THEN Fail("past_end")
     ELSE Grown(f, ptrs, new, "create_full")

\* inode_write_at() to newLen, beyond the end of the file: inode_extend_length(),
\* and the new length.  Above MAX_LEN nothing is written.
inode_extend_length(f, newLen) ==
  LET o == data[f].length \div BYTES
      n == newLen \div BYTES
      ptrs == NewPointers(o, n)
      sector == Allocated(ptrs)
      new == Indexed(data[f], table, sector, o, n)
  IN
  /\ fault = "none" /\ Exists(f) /\ data[f].length < newLen /\ newLen <= MAX_LEN
  /\ IF Level2(n) >= ENTRIES THEN Fail("past_end")
     ELSE Grown(f, ptrs, [new EXCEPT !.data.length = newLen], "extend_full")

\* Mutant: the last second-level sector of a partly used one is not released.
Released_full_only(index) ==
  SelectSeq(<<Ino>> \o NewPointers(-1, index),
            LAMBDA p : p.kind = "level2" => Double + (p.n + 1) * ENTRIES <= index + 1)

\* The pointers whose sectors inode_close() releases.
Released(index) == <<Ino>> \o NewPointers(-1, index)

\* inode_close() of a removed inode by its last opener.  free_map_release() asserts
\* that each sector it releases is marked.
inode_close(f) ==
  LET ptrs == Released(data[f].length \div BYTES)
      gone == [k \in DOMAIN ptrs |-> Stored(data[f], ptrs[k])]
  IN
  /\ fault = "none" /\ Exists(f) /\ removals < MaxRemovals
  /\ IF IsInjective(gone) /\ ToSet(gone) \subseteq free_map
     THEN /\ free_map' = free_map \ ToSet(gone)
          /\ data' = [data EXCEPT ![f] = NoFile]
          /\ removals' = removals + 1
          /\ UNCHANGED <<table, fault>>
     ELSE Fail("release")
-----------------------------------------------------------------------------

RanFull == fault \in {"create_full", "extend_full"}

\* The pointers of a file and where they lead, as pairs.
Owned(f) ==
  IF Exists(f)
  THEN {<<f, p, Stored(data[f], p)>> :
          p \in ToSet(<<Ino>> \o NewPointers(-1, data[f].length \div BYTES))}
  ELSE {}

(***************************************************************************)
(* Every pointer of every file leads to a sector of its own, and the       *)
(* sectors that are marked in the free map are exactly those, the free     *)
(* map's and the root directory's: growth across the boundaries of the     *)
(* index neither shares, leaks nor forgets a sector, removal returns all   *)
(* of them, and each once, as free_map_release() asserts; this as long as  *)
(* the device has not run full in the middle of an allocation.             *)
(***************************************************************************)
SectorsAccounted ==
  LET all == UNION {Owned(f) : f \in File} IN
  /\ ~RanFull =>
       /\ \A x, y \in all : x[3] = y[3] => x = y
       /\ free_map = {0, 1} \cup {x[3] : x \in all}
       /\ \A x \in all : x[3] \notin {0, 1}
  /\ fault # "release"

(***************************************************************************)
(* Growing a file leaves every byte it already had in the sector where it  *)
(* was, and so does any operation on another file, as long as the device   *)
(* does not run full on the way.                                           *)
(***************************************************************************)
BytesStay ==
  [][\A f \in File : Exists(f) /\ Exists(f)' /\ ~RanFull' =>
       \A pos \in 0 .. data[f].length - 1 :
         byte_to_sector(data[f], pos)' = byte_to_sector(data[f], pos)]_index_vars

\* "Returns false if memory or disk allocation fails" (filesys/inode.c:119).
FullIsReported == fault # "create_full"

\* "The max file we support is: ... + 1 * (512/4)^2 * 512B" (design_doc.txt:83): a
\* file of MAX_LEN bytes has its pointers in its index sectors.
MaxIsSupported == fault # "past_end"

=============================================================================
