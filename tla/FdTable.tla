------------------------------ MODULE FdTable ------------------------------
(***************************************************************************)
(* The file descriptors of one process (userprog/syscall.c): the list      *)
(* fd_list of struct fd_pair, its search and its gap-filling insertion,    *)
(* and what the system calls that take a descriptor do to it.  Each        *)
(* process has its own list and one thread, so a system call is one step.  *)
(* Files and directories are handles, new on each open().                  *)
(***************************************************************************)
EXTENDS Integers, Sequences, SequencesExt, FiniteSets

CONSTANTS FileHandle,    \* handles that filesys_open() may return
          DirHandle,     \* handles that filesys_open_directory() may return
          MaxFd    \* bound: programs pass descriptors up to MaxFd

FdAssumption ==
  /\ FileHandle \cap DirHandle = {}
  /\ MaxFd \in Nat

VARIABLES
  fd_list,   \* struct fd_pairs: sequence of [fd, obj]
  open,      \* handles that are open in the file system
  used,      \* history: handles that have been opened
  lost,      \* history: handles for which no fd_pair could be allocated
  last,      \* the descriptor that the last open() returned, and the best one
  status     \* "run", "exited", "killed" or "panic"

fd_vars == <<fd_list, open, used, lost, last, status>>

Handle == FileHandle \cup DirHandle

FdInit ==
  /\ fd_list = <<>>
  /\ open = {} /\ used = {} /\ lost = {}
  /\ last = [fd |-> 2, smallest |-> 2]
  /\ status = "run"

-----------------------------------------------------------------------------

Fds(l) == {l[i].fd : i \in DOMAIN l}

\* The positions of fd in the list; get_file_pair() finds the first.
Matches(fd) == {i \in DOMAIN fd_list : fd_list[i].fd = fd}
get_file_pair(fd) == CHOOSE i \in Matches(fd) : \A j \in Matches(fd) : i <= j

\* Positions whose descriptor is more than one above its predecessor's.
Gaps(l) == {i \in 2 .. Len(l) : l[i].fd > l[i - 1].fd + 1}
FirstGap(l) == CHOOSE i \in Gaps(l) : \A j \in Gaps(l) : i <= j

\* find_free_fd(): the descriptor and where its pair is inserted.  For a gap that
\* is the position of the element below the gap: list_insert() inserts before it.
find_free_fd(l) ==
  IF l = <<>> \/ l[1].fd > 2 THEN [fd |-> 2, at |-> 1]
  ELSE IF Gaps(l) = {} THEN [fd |-> l[Len(l)].fd + 1, at |-> Len(l) + 1]
  ELSE [fd |-> l[FirstGap(l) - 1].fd + 1, at |-> FirstGap(l) - 1]

Smallest(l) == CHOOSE n \in 2 .. Len(l) + 2 :
                 n \notin Fds(l) /\ \A k \in 2 .. n - 1 : k \in Fds(l)

\* sys_open_handler(): a name that opens nothing changes nothing.
sys_open(h) ==
  LET new == find_free_fd(fd_list) IN
  /\ status = "run" /\ h \notin used
  /\ open' = open \cup {h} /\ used' = used \cup {h}
  /\ fd_list' = InsertAt(fd_list, new.at, [fd |-> new.fd, obj |-> h])
  /\ last' = [fd |-> new.fd, smallest |-> Smallest(fd_list)]
  /\ UNCHANGED <<lost, status>>

\* The handles that stay open after file_close (pair->f) of every pair: pair->f is
\* NULL for a directory.
CloseAll == open \ (FileHandle \cap {fd_list[i].obj : i \in DOMAIN fd_list})

\* sys_exit_handler(): from exit(), and from every call that fails with -1 or
\* follows a null fd_pair.
sys_exit_handler ==
  /\ open' = CloseAll
  /\ fd_list' = <<>>
  /\ status' = "exited"
  /\ UNCHANGED <<used, last>>

sys_exit == status = "run" /\ sys_exit_handler /\ UNCHANGED lost

\* kill(), for an exception of the program: thread_exit() and process_exit() close no
\* descriptor, so that the pairs stay allocated and their files open.
kill ==
  /\ status = "run"
  /\ status' = "killed"
  /\ UNCHANGED <<fd_list, open, used, lost, last>>

\* malloc() fails in find_free_fd(): the store to insert_pair is a page fault.
sys_open_nomem(h) ==
  /\ status = "run" /\ h \notin used
  /\ used' = used \cup {h} /\ lost' = lost \cup {h}
  /\ open' = CloseAll \cup {h}
  /\ fd_list' = <<>>
  /\ status' = "exited"
  /\ UNCHANGED <<last>>

\* Mutant: the pair stays on the list.
sys_close_keeps(fd) ==
  /\ status = "run" /\ Matches(fd) # {}
  /\ open' = open \ (FileHandle \cap {fd_list[get_file_pair(fd)].obj})
  /\ UNCHANGED <<fd_list, used, lost, last, status>>

\* SYS_CLOSE: the pair is unlinked and its file closed; a directory stays open.
\* An unknown descriptor is ignored.
sys_close(fd) ==
  /\ status = "run" /\ Matches(fd) # {}
  /\ fd_list' = RemoveAt(fd_list, get_file_pair(fd))
  /\ open' = open \ (FileHandle \cap {fd_list[get_file_pair(fd)].obj})
  /\ UNCHANGED <<used, lost, last, status>>

\* SYS_READ and SYS_WRITE of an unknown descriptor or a directory.  (Read from
\* the keyboard, 0, and write to the console, 1, leave the list alone.)
sys_read_write(fd) ==
  /\ status = "run"
  /\ Matches(fd) # {} => fd_list[get_file_pair(fd)].obj \in DirHandle
  /\ sys_exit_handler /\ UNCHANGED lost

\* SYS_READDIR, SYS_ISDIR and SYS_INUMBER follow a null fd_pair.
sys_dir_query(fd) ==
  /\ status = "run" /\ Matches(fd) = {}
  /\ sys_exit_handler /\ UNCHANGED lost

\* SYS_FILESIZE, SYS_SEEK and SYS_TELL of a directory: ASSERT (file != NULL).
sys_position(fd) ==
  /\ status = "run" /\ Matches(fd) # {}
  /\ fd_list[get_file_pair(fd)].obj \in DirHandle
  /\ status' = "panic"
  /\ UNCHANGED <<fd_list, open, used, lost, last>>

-----------------------------------------------------------------------------

(***************************************************************************)
(* While the process runs every open file has one fd_pair, and every       *)
(* fd_pair's file is open, also after gaps have been filled in the wrong   *)
(* place; and once the process has ended in sys_exit_handler(), by exit()  *)
(* or by a call that fails, no file of it stays open but one for which no  *)
(* fd_pair could be allocated.  (The end by kill() is ClosedAtEnd.)        *)
(***************************************************************************)
FilesAccounted ==
  /\ \A h \in FileHandle :
       h \in open \ lost <=> Cardinality({i \in DOMAIN fd_list : fd_list[i].obj = h}) = 1
  /\ \A i, j \in DOMAIN fd_list : fd_list[i].obj = fd_list[j].obj => i = j
  /\ status = "exited" => open \cap FileHandle \subseteq lost

\* "If a process finishes, we close all opened files and delete all the fd_pairs in
\* the list" (src/pintos/proj2_final_doc.txt:25), also when kill() ends it.
ClosedAtEnd == status \in {"exited", "killed"} => open \cap FileHandle \subseteq lost

\* "find a smallest fd number to return" (userprog/syscall.c:518), which is in
\* particular one that is not in use.
SmallestFd == last.fd = last.smallest

\* ASSERT (file != NULL) in file_length(), file_seek() and file_tell().
FileNotNull == status # "panic"

=============================================================================
