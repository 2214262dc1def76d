------------------------------ MODULE MCFiles ------------------------------
(***************************************************************************)
(* Files at three levels that share no state in the model: the sectors of  *)
(* inodes, threads that use one inode at the same time, and the            *)
(* descriptors of a process.  Each behaviour exercises one of them, the    *)
(* one that part names, and the others keep their initial state.           *)
(***************************************************************************)
EXTENDS InodeIndex, InodeGrow, FdTable, TLC

CONSTANT Parts   \* those of "index", "grow" and "fds" that are exercised

VARIABLE part

vars == <<index_vars, grow_vars, fd_vars, part>>

ASSUME FilesAssumption ==
  IndexAssumption /\ GrowAssumption /\ FdAssumption /\ Parts \subseteq {"index", "grow", "fds"}

Init == part \in Parts /\ IndexInit /\ GrowInit /\ FdInit

Idx(A) == part = "index" /\ A /\ UNCHANGED <<grow_vars, fd_vars, part>>
Grw(A) == part = "grow" /\ A /\ UNCHANGED <<index_vars, fd_vars, part>>
Des(A) == part = "fds" /\ A /\ UNCHANGED <<index_vars, grow_vars, part>>

\* Handles are fresh, so which one an open() returns makes no difference.
Fresh == {h \in Handle : \A g \in Handle \ used : (g \in FileHandle <=> h \in FileHandle) => h <= g}

Next ==
  \/ \E f \in File, len \in Lengths : Idx(inode_create(f, len))
  \/ \E f \in File, len \in Lengths : Idx(inode_extend_length(f, len))
  \/ \E f \in File : Idx(inode_close(f))
  \/ \E w \in Writer, p, q \in Pos : p < q /\ Grw(inode_write_at(w, p, q))
  \/ \E w \in Writer : Grw(extend_acquire(w))
  \/ \E w \in Writer : Grw(extend_length(w))
  \/ \E w \in Writer : Grw(extend_alloc(w))
  \/ \E w \in Writer : Grw(extend_zero(w))
  \/ \E w \in Writer : Grw(extend_release(w))
  \/ \E w \in Writer : Grw(write_length(w))
  \/ \E w \in Writer : Grw(write_find(w))
  \/ \E w \in Writer : Grw(write_copy(w))
  \/ \E w \in Writer : Grw(write_set_length(w))
  \/ \E r \in Reader, p \in Pos : Grw(inode_read_at(r, p))
  \/ \E r \in Reader : Grw(read_find(r))
  \/ \E r \in Reader : Grw(read_copy(r))
  \/ \E h \in Fresh : Des(sys_open(h))
  \/ \E h \in Fresh : Des(sys_open_nomem(h))
  \/ \E fd \in 0 .. MaxFd : Des(sys_close(fd))
  \/ \E fd \in 0 .. MaxFd : Des(sys_read_write(fd))
  \/ \E fd \in 0 .. MaxFd : Des(sys_dir_query(fd))
  \/ \E fd \in 0 .. MaxFd : Des(sys_position(fd))
  \/ Des(sys_exit)
  \/ Des(kill)

Spec == Init /\ [][Next]_vars

\* Files and threads are interchangeable.
Interchangeable == Permutations(File) \cup Permutations(Reader) \cup Permutations(Writer)

=============================================================================
