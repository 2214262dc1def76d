------------------------------ MODULE DirTree ------------------------------
(***************************************************************************)
(* Names and open inodes (filesys/directory.c, filesys.c, file.c, the life *)
(* of an inode in inode.c, and the system calls on names): directories of  *)
(* slots, path traversal, creation, removal, current directories, and the  *)
(* counts that decide when a removed inode gives its sectors back.         *)
(*                                                                         *)
(* A sector is the one that holds an inode; every inode has one block of   *)
(* data, of which only the number is kept, and the entries of a directory  *)
(* are in it.  No lock protects any of this, so a call is split where      *)
(* another process can change what it has read; a traversal is one step.   *)
(* A process that follows a pointer to a struct dir that has been freed,   *)
(* or an entry to a sector that has been released, ends the behaviour:     *)
(* what it finds there is not modelled.                                    *)
(***************************************************************************)
EXTENDS Integers, FiniteSets, FiniteSetsExt, Sequences, SequencesExt

CONSTANTS Proc,        \* processes
          Name,        \* names of files, without "." and ".."
          Program,     \* the name of a file in the root directory
          Path,        \* paths that are used: [abs, parts, slash]
          NSectors,    \* sectors 1 .. NSectors can hold inodes
          Capacity,    \* sectors of the device, for inodes and their data
          MaxFds,      \* bound: files that a process has open
          MaxLost,     \* bound: handles that are lost
          Scope        \* bound: [calls, overlap], the calls made in a behaviour and
                       \* whether a call may begin before another one's has ended

ROOT == 1
Sector == 1 .. NSectors
Gone == -1             \* a sector that has been released since
Dots == {".", ".."}
Slot == 1 .. Cardinality(Name) + 2
NoEntry == [name |-> "", sector |-> 0, is_dir |-> FALSE]

Calls == {"create", "mkdir", "remove", "open", "chdir", "exec", "close", "exit", "kill"}

ASSUME DirAssumption ==
  /\ Name \cap Dots = {} /\ "" \notin Name
  /\ \A path \in Path : path.parts \in Seq(Name \cup Dots) /\ (path.parts = <<>> => path.abs)
  /\ Program \in Name /\ NSectors \in Nat \ {0, 1} /\ Capacity \in 2 .. 2 * NSectors + 1
  /\ MaxFds \in Nat /\ MaxLost \in Nat
  /\ \A w \in Scope : w.calls \subseteq Calls /\ w.overlap \in BOOLEAN

VARIABLES
  used,     \* free map: the sectors that are allocated for inodes
  blocks,   \* free map: the number of those that are allocated for data
  disk,     \* the directory entries in the file at each sector: [name, sector, is_dir]
  inode,    \* open_inodes: open_cnt, removed and deny_write_cnt; open_cnt 0 is not open
  dirs,     \* struct dirs that are current directories: [sector, is_remove, of], where
            \* of is the set of processes whose curr_dir points to it
  dangling, \* processes whose curr_dir points to a struct dir that has been freed
  fds,      \* open files and directories of each process; sector 0 is free
  exe,      \* t->executable, or 0
  call,     \* the system call of each process and its local variables
  scope,    \* the member of Scope that this behaviour keeps to
  fault,    \* why the behaviour has ended, or "no"
  lost,     \* history: handles that no pointer leads to any more
  failed,   \* history: creations that have failed with their data allocated
  orphans   \* history: inodes created in a directory that was removed or about to be

names  == <<used, blocks, disk, inode, call, orphans>>
procs  == <<dirs, dangling, fds, exe>>
errors == <<fault, lost, failed>>
vars   == <<names, procs, errors, scope>>

Idle == [pc |-> "idle"]
Absent == [pc |-> "absent"]
NoFd == [sector |-> 0, is_dir |-> FALSE]
NotOpen == [cnt |-> 0, removed |-> FALSE, deny |-> 0]
NoSlots == [i \in Slot |-> NoEntry]

\* do_format(): a root directory without entries, not even for itself; then
\* fsutil_extract() has put a program into it.
Init ==
  /\ used = {ROOT, ROOT + 1} /\ blocks = 2
  /\ disk = [[s \in Sector |-> NoSlots] EXCEPT
               ![ROOT][1] = [name |-> Program, sector |-> ROOT + 1, is_dir |-> FALSE]]
  /\ inode = [s \in Sector |-> NotOpen]
  /\ dirs = {} /\ dangling = {}
  /\ fds = [p \in Proc |-> [i \in 1 .. MaxFds |-> NoFd]]
  /\ exe = [p \in Proc |-> 0]
  /\ call = [p \in Proc |-> Absent]
  /\ fault = "no" /\ scope \in Scope
  /\ lost = [s \in Sector |-> 0] /\ failed = 0 /\ orphans = {}

-----------------------------------------------------------------------------
(* Entries and paths *)

InUse(s) == {i \in Slot : disk[s][i] # NoEntry}

\* lookup() and entry_lookup(): slots of directory s with the name, of the given kinds.
Matching(s, name, kinds) == {i \in InUse(s) : disk[s][i].name = name /\ disk[s][i].is_dir \in kinds}
lookup(s, name, kinds) == Min(Matching(s, name, kinds))
Lookup(s, name, kinds) ==
  IF Matching(s, name, kinds) = {} THEN 0 ELSE disk[s][lookup(s, name, kinds)].sector

\* dir_sizeof(): the number of entries that are neither "." nor "..".
dir_sizeof(s) == Cardinality({i \in InUse(s) : disk[s][i].name \notin Dots})

\* get_next_part(): the parts it returns 1 for, and what is left in `part' at the
\* end.  After a slash at the end of a path that is the name of the last directory.
Dirs(path) == IF path.slash \/ path.parts = <<>> THEN path.parts ELSE Front(path.parts)
Part(path) == IF path.parts = <<>> THEN "" ELSE Last(path.parts)

\* The traversal that all calls on names start with; 0 if a part is no directory.
Walk(start, path) ==
  FoldLeft(LAMBDA s, name : IF s \in Sector THEN Lookup(s, name, {TRUE}) ELSE s, start, Dirs(path))

-----------------------------------------------------------------------------
(* Open inodes *)

\* inode_open() and inode_reopen().
Opened(ino, s) == [ino EXCEPT ![s].cnt = @ + 1]

\* inode_close(): the last one forgets the struct ...
inode_close(ino, s) ==
  [ino EXCEPT ![s] = IF @.cnt = 1 THEN NotOpen ELSE [@ EXCEPT !.cnt = @ - 1]]

\* ... and releases the inode and its data if it has been removed: what becomes free
\* when each sector of the sequence ss is closed.
Times(ss, s) == Cardinality({i \in DOMAIN ss : ss[i] = s})
Released(ino, ss) == {s \in ToSet(ss) : ino[s].removed /\ ino[s].cnt = Times(ss, s)}

\* Entries that still lead to the sectors R lead nowhere.
Forget(dsk, R) ==
  [s \in Sector |-> IF s \in R THEN NoSlots
                    ELSE [i \in Slot |-> IF dsk[s][i].sector \in R
                                         THEN [dsk[s][i] EXCEPT !.sector = Gone] ELSE dsk[s][i]]]

\* Process p writes an entry into a directory that has been removed, or that another
\* one has found to be empty and will remove.
Orphaned(p) ==
  IF /\ call[p].pc = "write"
     /\ \/ inode[call[p].dir].removed
        \/ \E q \in Proc : call[q].pc = "erase" /\ call[q].new = call[p].dir
  THEN {call[p].new} ELSE {}

\* The end of a step of process p that closes ss, with the other changes it has made:
\* back is the set of inodes that it gives back because their creation has failed.
Leave(p, next, ino, dsk, ss, back) ==
  LET R == Released(ino, ss) IN
  /\ inode' = FoldLeft(inode_close, ino, ss)
  /\ used' = used \ (R \cup back)
  /\ blocks' = blocks - Cardinality(R)
  /\ disk' = Forget(dsk, R)
  /\ orphans' = (orphans \cup Orphaned(p)) \ R
  /\ call' = [q \in Proc |->
                IF q = p THEN next
                ELSE IF call[q].pc = "dots" /\ call[q].new \in R THEN [call[q] EXCEPT !.new = Gone]
                ELSE call[q]]

\* Nobody will close these handles any more.
Lose(ss) ==
  /\ MapThenSumSet(LAMBDA s : lost[s], Sector) + Len(ss) <= MaxLost
  /\ lost' = [s \in Sector |-> lost[s] + Times(ss, s)]

Stops(why) == fault' = why /\ UNCHANGED <<names, procs, lost, failed>>

\* Entries have been written: the tree is no longer one if the name was "." or "..",
\* or if what the call had looked up before has been changed by another one.
After(name, changed) == IF name \in Dots THEN "dots" ELSE IF changed THEN "race" ELSE "no"

-----------------------------------------------------------------------------
(* Current directories *)

HasDir(p) == \E d \in dirs : p \in d.of
DirOf(p) == CHOOSE d \in dirs : p \in d.of
NewDir(p, s) == [sector |-> s, is_remove |-> FALSE, of |-> {p}]

\* filesys_curr_dir(): the root, opened now, when curr_dir is null.
IsNull(p) == ~HasDir(p) /\ p \notin dangling
CurrDir(p) == IF HasDir(p) THEN DirOf(p) ELSE NewDir(p, ROOT)
WithCurrDir(p) == IF IsNull(p) THEN Opened(inode, ROOT) ELSE inode
CurrDirs(p) == IF IsNull(p) THEN dirs \cup {NewDir(p, ROOT)} ELSE dirs

\* The struct dir d without process p: nobody has a pointer to it if p was the only one.
Without(d, p) == IF d.of = {p} THEN {} ELSE {[d EXCEPT !.of = @ \ {p}]}
Dropped(p) == IF HasDir(p) THEN (dirs \ {DirOf(p)}) \cup Without(DirOf(p), p) ELSE dirs
Unreferenced(p) == IF HasDir(p) /\ DirOf(p).of = {p} THEN <<DirOf(p).sector>> ELSE <<>>

-----------------------------------------------------------------------------
(* The start of every call on a name *)

Running(p, pc) == fault = "no" /\ call[p].pc = pc

\* A process makes a call, or a new one opens its executable.
Begins(p, op, pc) ==
  /\ Running(p, pc) /\ op \in scope.calls
  /\ scope.overlap \/ \A q \in Proc \ {p} : call[q].pc \in {"absent", "idle", "load", "loading"}

\* A path that leads nowhere: open() tries again for a directory, and a process whose
\* executable is not found ends.
NotFound(op, paths) ==
  CASE op = "open" -> [pc |-> "retry", path |-> paths]
    [] op = "exec" -> [pc |-> "exit"]
    [] OTHER       -> Idle

\* `if (dir->is_remove) return false', for relative paths.
Refused(p, path) == ~path.abs /\ CurrDir(p).is_remove

enter(p, op, path) ==
  LET dir == Walk(IF path.abs THEN ROOT ELSE CurrDir(p).sector, path) IN
  IF ~path.abs /\ p \in dangling THEN Stops("freed_dir")
  ELSE IF ~Refused(p, path) /\ dir = Gone THEN Stops("released")
  ELSE
  /\ dirs' = CurrDirs(p)
  /\ IF Refused(p, path) \/ dir = 0
     THEN inode' = WithCurrDir(p) /\ call' = [call EXCEPT ![p] = NotFound(op, {path})]
     ELSE /\ inode' = Opened(WithCurrDir(p), dir)
          /\ call' = [call EXCEPT ![p] =
                        [pc |-> "found", op |-> op, dir |-> dir, name |-> Part(path),
                         path |-> IF op = "open" THEN {path} ELSE {},
                         named |-> op = "mkdir" /\ Dirs(path) # <<>>, new |-> 0, slot |-> 0]]
  /\ UNCHANGED <<used, blocks, disk, orphans, dangling, fds, exe, errors>>

IsRoot(path) == path.abs /\ path.parts = <<>>

\* SYS_CREATE, SYS_MKDIR, SYS_REMOVE, SYS_OPEN, SYS_CHDIR, and load() of a new process.
call_name(p, op, path) ==
  /\ Begins(p, op, IF op = "exec" THEN "load" ELSE "idle")
  /\ op \in {"open", "chdir", "exec"} => ~IsRoot(path)
  /\ op = "open" => \E i \in 1 .. MaxFds : fds[p][i] = NoFd
  /\ enter(p, op, path)

\* filesys_open_directory(), called by sys_open_handler() when there is no file.
retry(p) ==
  /\ Running(p, "retry")
  /\ \E path \in call[p].path : enter(p, "opendir", path)

\* open ("/"): filesys_open() and filesys_open_directory() both open the root and
\* return without closing it; so do load() and chdir ("/"), once.
open_root(p, op) ==
  LET extra == IF op = "open" THEN <<ROOT, ROOT>> ELSE <<ROOT>>
      i     == Min({j \in 1 .. MaxFds : fds[p][j] = NoFd} \cup {MaxFds + 1})
      ino   == [WithCurrDir(p) EXCEPT ![ROOT].cnt = @ + Len(extra) + (IF op = "exec" THEN 0 ELSE 1)]
      old   == CurrDir(p)
  IN
  /\ Begins(p, op, IF op = "exec" THEN "load" ELSE "idle")
  /\ op = "open" => i <= MaxFds
  /\ IF op = "chdir" /\ p \in dangling THEN Stops("freed_dir")
     ELSE
     /\ Lose(extra)
     /\ IF op = "chdir"
        THEN /\ dirs' = (dirs \ {old}) \cup {NewDir(p, ROOT)}
             /\ dangling' = dangling \cup (old.of \ {p})
             /\ Leave(p, Idle, ino, disk, <<old.sector>>, {})
             /\ UNCHANGED fds
        ELSE /\ dirs' = CurrDirs(p)
             /\ fds' = IF op = "exec" THEN fds
                       ELSE [fds EXCEPT ![p][i] = [sector |-> ROOT, is_dir |-> TRUE]]
             /\ inode' = ino
             /\ call' = [call EXCEPT ![p] = IF op = "exec" THEN [pc |-> "exit"] ELSE Idle]
             /\ UNCHANGED <<used, blocks, disk, orphans, dangling>>
     /\ UNCHANGED <<exe, fault, failed>>

-----------------------------------------------------------------------------
(* Creation *)

Op(p, ops) == Running(p, "found") /\ call[p].op \in ops
Free == Capacity - Cardinality(used) - blocks

\* free_map_allocate() and inode_create(), which goes on when there is no sector left
\* for the data.
create_alloc(p) ==
  LET s == Min(Sector \ used) IN
  /\ Op(p, {"create", "mkdir"}) /\ Free > 0
  /\ IF Free = 1 THEN Stops("full")
     ELSE /\ used' = used \cup {s} /\ blocks' = blocks + 1
          /\ disk' = [disk EXCEPT ![s] = NoSlots]
          /\ call' = [call EXCEPT ![p].pc = "add", ![p].new = s]
          /\ UNCHANGED <<inode, orphans, procs, errors>>

\* No sector for the inode, or no memory to build it: its sector is released.
create_fails(p) ==
  /\ Op(p, {"create", "mkdir"})
  /\ Leave(p, Idle, inode, disk, <<call[p].dir>>, {})
  /\ UNCHANGED <<procs, errors>>

\* Mutant: the name is looked for among the entries of the new one's kind.
Taken_same_kind(p) ==
  Matching(call[p].dir, call[p].name, {call[p].op = "mkdir"}) # {}

\* dir_add_directory(): the name is empty or in use.
Taken(p) == call[p].name = "" \/ Matching(call[p].dir, call[p].name, BOOLEAN) # {}

\* When it fails only the sector of the inode is given back, not the data.
add_lookup(p) ==
  /\ Running(p, "add")
  /\ IF Taken(p)
     THEN /\ Leave(p, Idle, inode, disk, <<call[p].dir>>, {call[p].new})
          /\ failed' = failed + 1
     ELSE /\ \E i \in Slot : disk[call[p].dir][i] = NoEntry
          /\ call' = [call EXCEPT ![p].pc = "write",
                                  ![p].slot = Min({i \in Slot : disk[call[p].dir][i] = NoEntry})]
          /\ UNCHANGED <<used, blocks, disk, inode, orphans, failed>>
  /\ UNCHANGED <<procs, fault, lost>>

add_write(p) ==
  LET dsk == [disk EXCEPT ![call[p].dir][call[p].slot] =
                [name |-> call[p].name, sector |-> call[p].new, is_dir |-> call[p].op = "mkdir"]]
  IN
  /\ Running(p, "write")
  /\ IF call[p].op = "mkdir"
     THEN /\ disk' = dsk /\ call' = [call EXCEPT ![p].pc = "dots"]
          /\ orphans' = orphans \cup Orphaned(p)
          /\ UNCHANGED <<used, blocks, inode>>
     ELSE Leave(p, Idle, inode, dsk, <<call[p].dir>>, {})
  /\ fault' = After(call[p].name, Taken(p) \/ disk[call[p].dir][call[p].slot] # NoEntry)
  /\ UNCHANGED <<procs, lost, failed>>

\* The first two slots of the new directory.  They are written from a local entry
\* whose in_use only a traversal sets; otherwise it is uninitialized.
mkdir_dots(p) ==
  LET s == call[p].new
      dot(name, to) == [name |-> name, sector |-> to, is_dir |-> TRUE]
  IN
  /\ Running(p, "dots")
  /\ IF s = Gone THEN Stops("released")
     ELSE /\ \E in_use \in IF call[p].named THEN {TRUE} ELSE BOOLEAN :
               Leave(p, Idle, inode,
                     [disk EXCEPT ![s][1] = IF in_use THEN dot("..", call[p].dir) ELSE NoEntry,
                                  ![s][2] = IF in_use THEN dot(".", s) ELSE NoEntry],
                     <<call[p].dir>>, {})
          /\ fault' = After("", InUse(s) \cap {1, 2} # {})
          /\ UNCHANGED <<procs, lost, failed>>

-----------------------------------------------------------------------------
(* Removal *)

\* Mutant: a directory that holds something can be removed.
NotEmpty_never(e) == FALSE

NotEmpty(e) == e.is_dir /\ dir_sizeof(e.sector) # 0

\* dir_remove() up to inode_open().  Only the caller's own current directory is marked.
remove_lookup(p) ==
  LET found == Matching(call[p].dir, call[p].name, BOOLEAN)
      slot  == lookup(call[p].dir, call[p].name, BOOLEAN)
      e     == disk[call[p].dir][slot]
  IN
  /\ Op(p, {"remove"})
  /\ IF found = {} THEN Leave(p, Idle, inode, disk, <<call[p].dir>>, {}) /\ UNCHANGED <<procs, errors>>
     ELSE IF e.sector = Gone THEN Stops("released")
     ELSE IF NotEmpty(e)
     THEN Leave(p, Idle, inode, disk, <<call[p].dir>>, {}) /\ UNCHANGED <<procs, errors>>
     ELSE IF e.is_dir /\ p \in dangling THEN Stops("freed_dir")
     ELSE /\ dirs' = {IF e.is_dir /\ p \in d.of /\ d.sector = e.sector
                      THEN [d EXCEPT !.is_remove = TRUE] ELSE d : d \in dirs}
          /\ inode' = Opened(inode, e.sector)
          /\ call' = [call EXCEPT ![p].pc = "erase", ![p].slot = slot, ![p].new = e.sector]
          /\ UNCHANGED <<used, blocks, disk, orphans, dangling, fds, exe, errors>>

\* The entry is erased, the inode marked and both are closed.
remove_erase(p) ==
  LET s     == call[p].new
      entry == disk[call[p].dir][call[p].slot]
  IN
  /\ Running(p, "erase")
  /\ Leave(p, Idle, [inode EXCEPT ![s].removed = TRUE],
           [disk EXCEPT ![call[p].dir][call[p].slot] = NoEntry], <<s, call[p].dir>>, {})
  /\ fault' = After(call[p].name, entry.sector \notin {0, s})
  /\ UNCHANGED <<procs, lost, failed>>

-----------------------------------------------------------------------------
(* Opening, closing and exit *)

FreeFd(p) == Min({i \in 1 .. MaxFds : fds[p][i] = NoFd})

\* filesys_open() and file_open(); an executable is protected by file_deny_write().
open_file(p) ==
  LET s   == Lookup(call[p].dir, call[p].name, {FALSE})
      ino == Opened(inode, s)
  IN
  /\ Op(p, {"open", "exec"})
  /\ IF s = Gone THEN Stops("released")
     ELSE
     /\ IF s = 0
        THEN /\ Leave(p, NotFound(call[p].op, call[p].path), inode, disk, <<call[p].dir>>, {})
             /\ UNCHANGED <<fds, exe>>
        ELSE IF call[p].op = "open"
        THEN /\ fds' = [fds EXCEPT ![p][FreeFd(p)] = [sector |-> s, is_dir |-> FALSE]]
             /\ Leave(p, Idle, ino, disk, <<call[p].dir>>, {})
             /\ UNCHANGED exe
        ELSE /\ exe' = [exe EXCEPT ![p] = s]
             /\ Leave(p, Idle, [ino EXCEPT ![s].deny = @ + 1], disk, <<call[p].dir>>, {})
             /\ UNCHANGED fds
     /\ UNCHANGED <<dirs, dangling, errors>>

\* filesys_open_directory(), for open() and for chdir(), which frees the struct dir of
\* the directory it leaves, whoever else points to it.
open_directory(p) ==
  LET s   == Lookup(call[p].dir, call[p].name, {TRUE})
      ino == Opened(inode, s)
      old == CurrDir(p)
  IN
  /\ Op(p, {"opendir", "chdir"})
  /\ IF s = Gone THEN Stops("released")
     ELSE IF s # 0 /\ call[p].op = "chdir" /\ p \in dangling THEN Stops("freed_dir")
     ELSE
     /\ IF s = 0
        THEN Leave(p, Idle, inode, disk, <<call[p].dir>>, {}) /\ UNCHANGED <<fds, dirs, dangling>>
        ELSE IF call[p].op = "opendir"
        THEN /\ fds' = [fds EXCEPT ![p][FreeFd(p)] = [sector |-> s, is_dir |-> TRUE]]
             /\ Leave(p, Idle, ino, disk, <<call[p].dir>>, {})
             /\ UNCHANGED <<dirs, dangling>>
        ELSE /\ dirs' = (dirs \ {old}) \cup {NewDir(p, s)}
             /\ dangling' = dangling \cup (old.of \ {p})
             /\ Leave(p, Idle, ino, disk, <<call[p].dir, old.sector>>, {})
             /\ UNCHANGED fds
     /\ UNCHANGED <<exe, errors>>

\* file_close() of an open file; the struct dir of a directory is never closed.
CloseFd(p, i) ==
  LET f == fds[p][i] IN
  /\ f # NoFd
  /\ fds' = [fds EXCEPT ![p][i] = NoFd]
  /\ IF f.is_dir
     THEN Lose(<<f.sector>>) /\ UNCHANGED names
     ELSE Leave(p, call[p], inode, disk, <<f.sector>>, {}) /\ UNCHANGED lost
  /\ UNCHANGED <<dirs, dangling, exe, fault, failed>>

\* SYS_CLOSE
sys_close(p) == Begins(p, "close", "idle") /\ \E i \in 1 .. MaxFds : CloseFd(p, i)

sys_exit(p) ==
  /\ Begins(p, "exit", "idle")
  /\ call' = [call EXCEPT ![p] = [pc |-> "exit"]]
  /\ UNCHANGED <<used, blocks, disk, inode, orphans, procs, errors>>

\* sys_exit_handler() closes one descriptor after the other.
exit_close(p) ==
  /\ Running(p, "exit")
  /\ \E i \in 1 .. MaxFds : /\ \A j \in 1 .. i - 1 : fds[p][j] = NoFd
                            /\ CloseFd(p, i)

\* kill() in exception.c: thread_exit() without sys_exit_handler().
kill(p) ==
  LET open == SetToSeq({i \in 1 .. MaxFds : fds[p][i] # NoFd}) IN
  /\ Begins(p, "kill", "idle") /\ open # <<>>
  /\ Lose([j \in DOMAIN open |-> fds[p][open[j]].sector])
  /\ fds' = [fds EXCEPT ![p] = [i \in 1 .. MaxFds |-> NoFd]]
  /\ call' = [call EXCEPT ![p] = [pc |-> "exit"]]
  /\ UNCHANGED <<used, blocks, disk, inode, orphans, dirs, dangling, exe, fault, failed>>

\* Mutant: the executable stays protected.
AllowWrite_not(ino, s) == ino

\* file_allow_write().
AllowWrite(ino, s) == [ino EXCEPT ![s].deny = @ - 1]

\* process_exit(): the executable is closed, curr_dir is not.
exit_leave(p) ==
  LET closes == IF exe[p] = 0 THEN <<>> ELSE <<exe[p]>> IN
  /\ Running(p, "exit")
  /\ \A i \in 1 .. MaxFds : fds[p][i] = NoFd
  /\ Lose(Unreferenced(p))
  /\ dirs' = Dropped(p) /\ dangling' = dangling \ {p}
  /\ Leave(p, Absent, IF exe[p] = 0 THEN inode ELSE AllowWrite(inode, exe[p]), disk, closes, {})
  /\ exe' = [exe EXCEPT ![p] = 0]
  /\ UNCHANGED <<fds, fault, failed>>

-----------------------------------------------------------------------------
(* New processes *)

\* run_task(): the first thread, which has no current directory, starts a process
\* and waits for it.
run_task(c) ==
  /\ fault = "no" /\ \A q \in Proc : call[q] = Absent
  /\ call' = [call EXCEPT ![c] = [pc |-> "load"]]
  /\ UNCHANGED <<used, blocks, disk, inode, orphans, procs, errors>>

\* process_execute() up to the return of thread_create() ...
exec_create(p, c) ==
  /\ Begins(p, "exec", "idle") /\ call[c] = Absent
  /\ call' = [call EXCEPT ![p] = [pc |-> "created", child |-> c], ![c] = [pc |-> "load"]]
  /\ UNCHANGED <<used, blocks, disk, inode, orphans, procs, errors>>

\* ... and `child->curr_dir = parent->curr_dir': both point to one struct dir, and
\* what the child may have opened meanwhile is lost.
exec_inherit(p) ==
  LET c    == call[p].child
      rest == Dropped(c)
  IN
  /\ Running(p, "created")
  /\ IF call[c] = Absent THEN Stops("no_child")
     ELSE /\ Lose(Unreferenced(c))
          /\ dirs' = {IF p \in d.of THEN [d EXCEPT !.of = @ \cup {c}] ELSE d : d \in rest}
          /\ dangling' = IF p \in dangling THEN dangling \cup {c} ELSE dangling \ {c}
          /\ call' = [call EXCEPT ![p].pc = "loading"]
          /\ UNCHANGED <<used, blocks, disk, inode, orphans, fds, exe, fault, failed>>

\* The load_finished semaphore is raised once the child has opened its executable.
Loading(c) == call[c].pc = "load" \/ (call[c].pc = "found" /\ call[c].op = "exec")
exec_return(p) ==
  /\ Running(p, "loading") /\ ~Loading(call[p].child)
  /\ call' = [call EXCEPT ![p] = Idle]
  /\ UNCHANGED <<used, blocks, disk, inode, orphans, procs, errors>>

Next ==
  /\ UNCHANGED scope
  /\ \E p \in Proc :
    \/ \E op \in {"create", "mkdir", "remove", "open", "chdir", "exec"}, path \in Path : call_name(p, op, path)
    \/ \E op \in {"open", "chdir", "exec"} : open_root(p, op)
    \/ retry(p)
    \/ create_alloc(p) \/ create_fails(p) \/ add_lookup(p) \/ add_write(p) \/ mkdir_dots(p)
    \/ remove_lookup(p) \/ remove_erase(p)
    \/ open_file(p) \/ open_directory(p)
    \/ sys_close(p) \/ sys_exit(p) \/ exit_close(p) \/ kill(p) \/ exit_leave(p)
    \/ run_task(p)
    \/ \E c \in Proc : exec_create(p, c)
    \/ exec_inherit(p) \/ exec_return(p)

Spec == Init /\ [][Next]_vars

-----------------------------------------------------------------------------
(* Properties *)

\* The entries of a directory that name something below it, and the directories below
\* those of S.
Children(s) == {i \in InUse(s) : disk[s][i].name \notin Dots}
Below(S) ==
  LET subdirs(s) == {disk[s][i].sector : i \in {j \in Children(s) : disk[s][j].is_dir}}
      f[n \in 0 .. NSectors] == IF n = 0 THEN S ELSE f[n - 1] \cup UNION {subdirs(s) : s \in f[n - 1]}
  IN  f[NSectors]
Named == {<<s, i>> \in Below({ROOT}) \X Slot : i \in Children(s)}
Target(n) == disk[n[1]][n[2]].sector

\* No entry "." or ".." has been created or removed by its name, and no call has
\* written an entry over what another one did after it had looked.
Orderly == fault \notin {"dots", "race"}

(***************************************************************************)
(* What the entries reachable from the root name is a tree of allocated    *)
(* inodes: no inode has two names or a name that occurs twice in its       *)
(* directory, none that is named has been removed, and the entries "." and *)
(* ".." of a directory, where it has them, lead to itself and its parent,  *)
(* after any calls of processes that overlap in any way, as long as no     *)
(* call names "." or ".." itself to create or remove it, and no entry is   *)
(* written where another call has put one since the place and the name     *)
(* were looked up (dir_add_directory(), dir_remove(),                      *)
(* filesys_create_dir()).                                                  *)
(***************************************************************************)
TreeSound ==
  Orderly =>
  /\ \A m, n \in Named :
       /\ Target(m) = Target(n) => m = n
       /\ m[1] = n[1] /\ disk[m[1]][m[2]].name = disk[n[1]][n[2]].name => m = n
  /\ \A n \in Named : Target(n) \in used \ {ROOT} /\ ~inode[Target(n)].removed
  /\ \A n \in Named : disk[n[1]][n[2]].is_dir =>
       \A i \in InUse(Target(n)) :
         /\ disk[Target(n)][i].name = "." => disk[Target(n)][i].sector = Target(n)
         /\ disk[Target(n)][i].name = ".." => disk[Target(n)][i].sector = n[1]

(***************************************************************************)
(* The sectors of the free map are those of the inodes that a directory    *)
(* of the tree names, that a call is creating, or that have been removed   *)
(* and are still open, and their data; beyond these only two kinds are     *)
(* lost: the data of creations that failed in dir_add(), and what was      *)
(* created in a directory that had been removed under its users.  The last *)
(* close of a removed inode, a file, a current directory or an executable, *)
(* gives its sectors back (inode_close(), filesys_create(); under the      *)
(* conditions of TreeSound).                                               *)
(***************************************************************************)
SectorsInUse ==
  LET live == Below({ROOT} \cup orphans \cup {s \in Sector : inode[s].removed}) IN
  Orderly =>
  /\ used = live \cup UNION {{disk[s][i].sector : i \in Children(s)} : s \in live}
            \cup {call[p].new : p \in {q \in Proc : call[q].pc \in {"add", "write"}}}
  /\ blocks = Cardinality(used) + failed

Held(s) ==
  LET Inside == {p \in Proc : call[p].pc \in {"found", "add", "write", "dots", "erase"}} IN
  lost[s] + Cardinality({d \in dirs : d.sector = s})
          + Cardinality({p \in Proc : exe[p] = s})
          + Cardinality({f \in Proc \X (1 .. MaxFds) : fds[f[1]][f[2]].sector = s})
          + Cardinality({p \in Inside : call[p].dir = s})
          + Cardinality({p \in Inside : call[p].pc = "erase" /\ call[p].new = s})

(***************************************************************************)
(* The open count of every inode is the number of its holders: struct dirs *)
(* that are current directories (one for a process and the children that   *)
(* share it), open files and directories, executables, calls in progress   *)
(* and the handles that the code loses, although calls overlap, processes  *)
(* are killed and directories removed in use; and its writes are denied    *)
(* exactly while a process runs it (inode_open(), inode_close(),           *)
(* file_close(), file_deny_write(), process_execute(), process_exit()).    *)
(***************************************************************************)
CountsExact ==
  \A s \in Sector : /\ inode[s].cnt = Held(s)
                    /\ inode[s].deny = Cardinality({p \in Proc : exe[p] = s})

(***************************************************************************)
(* "only one of two simultaneous attempts to remove a single file should   *)
(* succeed, as should only one of two simultaneous attempts to create a    *)
(* file with the same name" (design_doc.txt:136): no two calls are past    *)
(* their checks for the same name of one directory.                        *)
(***************************************************************************)
OnlyOneSucceeds ==
  \A p, q \in Proc : /\ p # q
                     /\ call[p].pc = call[q].pc
                     /\ call[p].pc \in {"write", "erase"}
                     => call[p].dir # call[q].dir \/ call[p].name # call[q].name

\* "Only the cnf = 0, we can delete the dir", where cnf is the number of processes
\* that have it open (design_doc.txt:142).
RemovedIsUnused == \A d \in dirs : ~inode[d.sector].removed

=============================================================================
