----------------------------- MODULE InodeGrow -----------------------------
(***************************************************************************)
(* Threads that read, write and grow one open file at the same time        *)
(* (filesys/inode.c: inode_read_at, inode_write_at, inode_extend_length,   *)
(* inode_length).  extend_lock covers the allocation of sectors; the       *)
(* length is read and set under length_lock only, so each section under    *)
(* that lock is a step.  A sector holds one byte, and all pointers are     *)
(* direct: InodeIndex is about the others.  The copy of the inode on disk  *)
(* is left out.  Writers write their own name.                             *)
(***************************************************************************)
EXTENDS Integers, Sequences, FiniteSets

CONSTANTS Writer, Reader,
          Zero,        \* what inode_extend_length() writes to a new sector
          Junk,        \* what a sector that is not in use holds
          NoSector,
          MaxLen,      \* bound: writes end at MaxLen at most
          MaxWrites,   \* bound: writes of each writer
          NBlocks     \* bound: sectors of the device; they do not run out

GrowAssumption ==
  /\ MaxLen \in Nat /\ MaxWrites \in Nat /\ NBlocks \in Nat \ {0}
  /\ NoSector \notin 1 .. NBlocks
  /\ {Zero, Junk} \cap Writer = {}

VARIABLES
  length, dir,        \* inode->data
  extend_lock,        \* its holder, or NoSector
  free,               \* sectors that the free map has not given out
  content,            \* what each sector holds
  pc, from, upto,     \* each thread's call: its first and the byte after its last
  newLen, pos, sec,   \* its newLen (a reader's inode_len), offset and sector_idx
  writes,             \* writes that each writer has begun
  got,                \* history: <<pos, value>> that readers have been given
  hole,               \* history: bytes the length has passed without a write
  written             \* history: <<pos, writer>> of the writes that have returned

inode_vars == <<length, dir, extend_lock, free, content>>
call_vars == <<from, upto, newLen, pos, sec, writes>>
history == <<got, hole, written>>
grow_vars == <<inode_vars, pc, call_vars, history>>

Thread == Writer \cup Reader
Pos == 0 .. MaxLen
Block == 1 .. NBlocks

\* inode_create() of an empty file has given it one sector, and it has been opened.
GrowInit ==
  /\ length = 0
  /\ dir = [p \in Pos |-> IF p = 0 THEN 1 ELSE NoSector]
  /\ extend_lock = NoSector
  /\ free = 2 .. NBlocks
  /\ content = [s \in Block |-> IF s = 1 THEN Zero ELSE Junk]
  /\ pc = [t \in Thread |-> "idle"]
  /\ from = [t \in Thread |-> 0]
  /\ upto = [t \in Thread |-> 0]
  /\ newLen = [t \in Thread |-> 0]
  /\ pos = [t \in Thread |-> 0]
  /\ sec = [t \in Thread |-> NoSector]
  /\ writes = [w \in Writer |-> 0]
  /\ got = {} /\ hole = {} /\ written = {}

-----------------------------------------------------------------------------

Goto(t, label) == pc' = [pc EXCEPT ![t] = label]

Larger(a, b) == IF a > b THEN a ELSE b

\* inode_write_at() is called for the bytes first to last - 1.
inode_write_at(w, first, last) ==
  /\ pc[w] = "idle" /\ writes[w] < MaxWrites
  /\ writes' = [writes EXCEPT ![w] = @ + 1]
  /\ from' = [from EXCEPT ![w] = first]
  /\ upto' = [upto EXCEPT ![w] = last]
  /\ newLen' = [newLen EXCEPT ![w] = last]
  /\ Goto(w, "ext_lock")
  /\ UNCHANGED <<inode_vars, pos, sec, history>>

\* lock_acquire (&inode->extend_lock)
extend_acquire(w) ==
  /\ pc[w] = "ext_lock" /\ extend_lock = NoSector
  /\ extend_lock' = w
  /\ Goto(w, "ext_len")
  /\ UNCHANGED <<length, dir, free, content, call_vars, history>>

\* Mutant: the loop starts at the first index every time.
extend_length_restart(w) ==
  /\ pc[w] = "ext_len"
  /\ IF length < upto[w]
     THEN Goto(w, "ext_alloc") /\ pos' = [pos EXCEPT ![w] = 0]
     ELSE Goto(w, "ext_unlock") /\ UNCHANGED pos
  /\ UNCHANGED <<inode_vars, from, upto, newLen, sec, writes, history>>

\* oldLen, and whether the file has to grow.  pos is the loop's i.
extend_length(w) ==
  /\ pc[w] = "ext_len"
  /\ IF length < upto[w]
     THEN Goto(w, "ext_alloc") /\ pos' = [pos EXCEPT ![w] = length + 1]
     ELSE Goto(w, "ext_unlock") /\ UNCHANGED pos
  /\ UNCHANGED <<inode_vars, from, upto, newLen, sec, writes, history>>

\* free_map_allocate (1, &disk_inode->dir[i])
extend_alloc(w) ==
  /\ pc[w] = "ext_alloc" /\ free # {}
  /\ LET s == CHOOSE x \in free : \A y \in free : x <= y IN
     /\ free' = free \ {s}
     /\ dir' = [dir EXCEPT ![pos[w]] = s]
  /\ Goto(w, "ext_zero")
  /\ UNCHANGED <<length, extend_lock, content, call_vars, history>>

\* buffer_write (fs_device, disk_inode->dir[i], zeros, ...)
extend_zero(w) ==
  /\ pc[w] = "ext_zero"
  /\ content' = [content EXCEPT ![dir[pos[w]]] = Zero]
  /\ pos' = [pos EXCEPT ![w] = @ + 1]
  /\ Goto(w, IF pos[w] = upto[w] THEN "ext_unlock" ELSE "ext_alloc")
  /\ UNCHANGED <<length, dir, extend_lock, free, from, upto, newLen, sec, writes, history>>

\* lock_release (&inode->extend_lock)
extend_release(w) ==
  /\ pc[w] = "ext_unlock"
  /\ extend_lock' = NoSector
  /\ Goto(w, "len")
  /\ UNCHANGED <<length, dir, free, content, call_vars, history>>

\* Mutant: the length is set before the data is copied.
write_length_early(w) ==
  /\ w \in Writer /\ pc[w] = "len"
  /\ newLen' = [newLen EXCEPT ![w] = Larger(length, @)]
  /\ length' = Larger(length, newLen[w])
  /\ pos' = [pos EXCEPT ![w] = from[w]]
  /\ Goto(w, "find")
  /\ UNCHANGED <<dir, extend_lock, free, content, from, upto, sec, writes, history>>

\* newLen becomes the larger of inode_length() and newLen.
write_length(w) ==
  /\ w \in Writer /\ pc[w] = "len"
  /\ newLen' = [newLen EXCEPT ![w] = Larger(length, @)]
  /\ pos' = [pos EXCEPT ![w] = from[w]]
  /\ Goto(w, "find")
  /\ UNCHANGED <<inode_vars, from, upto, sec, writes, history>>

\* sector_idx = byte_to_sector_helper (inode, offset, newLen)
write_find(w) ==
  /\ w \in Writer /\ pc[w] = "find"
  /\ IF pos[w] < upto[w]
     THEN sec' = [sec EXCEPT ![w] = dir[pos[w]]] /\ Goto(w, "copy")
     ELSE UNCHANGED sec /\ Goto(w, "set_len")
  /\ UNCHANGED <<inode_vars, from, upto, newLen, pos, writes, history>>

\* buffer_write (fs_device, sector_idx, ...)
write_copy(w) ==
  /\ w \in Writer /\ pc[w] = "copy"
  /\ content' = [content EXCEPT ![sec[w]] = w]
  /\ pos' = [pos EXCEPT ![w] = @ + 1]
  /\ sec' = [sec EXCEPT ![w] = NoSector]
  /\ Goto(w, "find")
  /\ UNCHANGED <<length, dir, extend_lock, free, from, upto, newLen, writes, history>>

\* What a write leaves as holes between the old length and its first byte.
NewHole(w) == {p \in Pos : length <= p /\ p < from[w]}

\* disk_inode->length = newLen, and the call returns.
write_set_length(w) ==
  /\ pc[w] = "set_len"
  /\ length' = newLen[w]
  /\ hole' = hole \cup NewHole(w)
  /\ written' = written \cup {<<p, w>> : p \in from[w] .. upto[w] - 1}
  /\ Goto(w, "idle")
  /\ from' = [from EXCEPT ![w] = 0]
  /\ upto' = [upto EXCEPT ![w] = 0]
  /\ newLen' = [newLen EXCEPT ![w] = 0]
  /\ pos' = [pos EXCEPT ![w] = 0]
  /\ UNCHANGED <<dir, extend_lock, free, content, sec, writes, got>>

-----------------------------------------------------------------------------

\* inode_read_at() of the bytes from first on; inode_len = inode_length().
inode_read_at(r, first) ==
  /\ pc[r] = "idle"
  /\ newLen' = [newLen EXCEPT ![r] = length]
  /\ pos' = [pos EXCEPT ![r] = first]
  /\ Goto(r, "find")
  /\ UNCHANGED <<inode_vars, from, upto, sec, writes, history>>

\* sector_idx = byte_to_sector (inode, offset), and whether bytes are left.
read_find(r) ==
  /\ r \in Reader /\ pc[r] = "find"
  /\ IF pos[r] < newLen[r]
     THEN /\ sec' = [sec EXCEPT ![r] = IF pos[r] < length THEN dir[pos[r]] ELSE NoSector]
          /\ Goto(r, "copy")
          /\ UNCHANGED <<newLen, pos>>
     ELSE /\ newLen' = [newLen EXCEPT ![r] = 0]
          /\ pos' = [pos EXCEPT ![r] = 0]
          /\ Goto(r, "idle")
          /\ UNCHANGED sec
  /\ UNCHANGED <<inode_vars, from, upto, writes, history>>

\* buffer_read (fs_device, sector_idx, ...); a sector of -1, when the file has become
\* shorter meanwhile, is a kernel panic.
read_copy(r) ==
  /\ r \in Reader /\ pc[r] = "copy" /\ sec[r] # NoSector
  /\ got' = got \cup {<<pos[r], content[sec[r]]>>}
  /\ pos' = [pos EXCEPT ![r] = @ + 1]
  /\ sec' = [sec EXCEPT ![r] = NoSector]
  /\ Goto(r, "find")
  /\ UNCHANGED <<inode_vars, from, upto, newLen, writes, hole, written>>

-----------------------------------------------------------------------------

(***************************************************************************)
(* A reader at the end of a file that grows may get all, part or none of   *)
(* what is being written, but nothing else (design_doc.txt, question 12):  *)
(* no byte of a sector that was never written, and a zero only for a byte  *)
(* the file grew over without writing it.                                  *)
(***************************************************************************)
ReadersSeeWrites ==
  \A g \in got : g[2] # Junk /\ (g[2] = Zero => g[1] \in hole)

(***************************************************************************)
(* The bytes of every write that has returned stay in the file, below its  *)
(* length and with the value of some write to them; growing the file again *)
(* does not lose them.                                                     *)
(***************************************************************************)
WritesSurvive ==
  \A x \in written : x[1] < length /\ content[dir[x[1]]] \in Writer

=============================================================================
