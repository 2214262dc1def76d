---------------------------- MODULE AddressSpace ----------------------------
(***************************************************************************)
(* The address space of a process: loading an executable                   *)
(* (userprog/process.c, load()), its page tables (userprog/pagedir.c), and *)
(* its end in process_exit().                                              *)
(*                                                                         *)
(* One process runs at a time; a timer interrupt switches to another at    *)
(* any step and activates its page directory.  A page from the pools of    *)
(* palloc.c is a frame.  Sizes are scaled down.                            *)
(***************************************************************************)
EXTENDS Integers, Sequences, FiniteSets, SequencesExt, FiniteSetsExt

CONSTANTS Job,            \* processes
          PgBytes,        \* bytes of a page
          PtEntries,      \* pages under one page table
          PHYS_BASE,      \* where kernel addresses begin, and
          AddrRange,      \* the number of 32-bit values, scaled down
          KernelFrames, UserFrames,   \* frames of the two pools
          Elf             \* executables: [ok, length, phdrs]

NULL == 0
init_page_dir == -1
NoPte == [frame |-> NULL, writable |-> FALSE]
UserPage == 0 .. PHYS_BASE \div PgBytes - 1
Pde == 0 .. (PHYS_BASE \div PgBytes - 1) \div PtEntries

SpaceAssumption ==
  /\ {PgBytes, PtEntries, PHYS_BASE} \subseteq Nat \ {0}
  /\ PHYS_BASE % PgBytes = 0 /\ AddrRange \in Nat /\ AddrRange > PHYS_BASE
  /\ KernelFrames \intersect UserFrames = {}
  /\ KernelFrames \union UserFrames \subseteq Nat \ {NULL}

VARIABLES
  kernel_used, user_used,   \* frames given out
  pagedir,                  \* per process: the frame of its page directory, or NULL
  pdes,                     \* per process: the frames of its page tables
  ptes,                     \* per process and page: [frame, writable], or NoPte
  contents,                 \* per user frame: for each byte, the offset in the file, or -1
  cr3,                      \* the active page directory
  current,                  \* the process that runs
  loader                    \* per process: where it is in load() and process_exit()

space_vars == <<kernel_used, user_used, pagedir, pdes, ptes, contents, cr3, current, loader>>

Unborn == [pc |-> "unborn"]

SpaceInit ==
  /\ kernel_used = {} /\ user_used = {}
  /\ pagedir = [j \in Job |-> NULL]
  /\ pdes = [j \in Job |-> [d \in Pde |-> NULL]]
  /\ ptes = [j \in Job |-> [u \in UserPage |-> NoPte]]
  /\ contents = [f \in UserFrames |-> <<>>]
  /\ cr3 = init_page_dir
  /\ current \in Job
  /\ loader = [j \in Job |-> Unborn]

-----------------------------------------------------------------------------

At(j, pc) == current = j /\ loader[j].pc = pc
To(j, pc) == loader' = [loader EXCEPT ![j].pc = pc]

\* palloc_get_page(): the first free frame.
FirstFree(pool, used) == CHOOSE f \in pool \ used : \A g \in pool \ used : f <= g

\* schedule() and process_activate(): on every switch the page directory of the
\* thread that will run is activated.
thread_switch(j) ==
  /\ current # j
  /\ current' = j
  /\ cr3' = IF pagedir[j] = NULL THEN init_page_dir ELSE pagedir[j]
  /\ UNCHANGED <<kernel_used, user_used, pagedir, pdes, ptes, contents, loader>>

\* load(): pagedir_create() and process_activate(), then the header.
load(j, elf) ==
  LET f == FirstFree(KernelFrames, kernel_used) IN
  /\ At(j, "unborn")
  /\ IF KernelFrames \subseteq kernel_used
     THEN /\ To(j, "exit")
          /\ UNCHANGED <<kernel_used, pagedir, cr3>>
     ELSE /\ kernel_used' = kernel_used \union {f}
          /\ pagedir' = [pagedir EXCEPT ![j] = f]
          /\ cr3' = f
          /\ loader' = [loader EXCEPT ![j] =
                          [pc |-> IF elf.ok THEN "phdr" ELSE "exit", elf |-> elf, i |-> 1]]
  /\ UNCHANGED <<user_used, pdes, ptes, contents, current>>

validate_segment(ph, length) ==
  LET end == (ph.vaddr + ph.memsz) % AddrRange IN
  /\ ph.offset % PgBytes = ph.vaddr % PgBytes
  /\ ph.offset <= length
  /\ ph.memsz >= ph.filesz /\ ph.memsz # 0
  /\ ph.vaddr < PHYS_BASE /\ end < PHYS_BASE /\ end >= ph.vaddr
  /\ ph.vaddr >= PgBytes

ROUND_UP(n) == ((n + PgBytes - 1) \div PgBytes) * PgBytes

\* Mutant: the file is read from p_offset on, not from the start of its page.
Segment_unaligned(ph) ==
  LET page_offset == ph.vaddr % PgBytes
      read_bytes == IF ph.filesz > 0 THEN page_offset + ph.filesz ELSE 0
  IN  [ofs |-> ph.offset, upage |-> ph.vaddr \div PgBytes,
       read_bytes |-> read_bytes,
       zero_bytes |-> ROUND_UP(page_offset + ph.memsz) - read_bytes,
       writable |-> ph.writable]

\* The arguments of load_segment() for a program header.
Segment(ph) ==
  LET page_offset == ph.vaddr % PgBytes
      read_bytes == IF ph.filesz > 0 THEN page_offset + ph.filesz ELSE 0
  IN  [ofs |-> ph.offset - (ph.offset % PgBytes), upage |-> ph.vaddr \div PgBytes,
       read_bytes |-> read_bytes,
       zero_bytes |-> ROUND_UP(page_offset + ph.memsz) - read_bytes,
       writable |-> ph.writable]

\* The next program header: the loop ends, the header is ignored or refused, or
\* load_segment() begins.
load_phdr(j) ==
  LET l == loader[j]
      ph == l.elf.phdrs[l.i]
  IN
  /\ At(j, "phdr")
  /\ loader' = [loader EXCEPT ![j] =
       IF l.i > Len(l.elf.phdrs) THEN [l EXCEPT !.pc = "stack"]
       ELSE IF ph.type = "ignored" THEN [l EXCEPT !.i = @ + 1]
       ELSE IF ph.type = "load" /\ validate_segment(ph, l.elf.length)
       THEN [pc |-> "segment", elf |-> l.elf, i |-> l.i, seg |-> Segment(ph)]
       ELSE [l EXCEPT !.pc = "exit"]]
  /\ UNCHANGED <<kernel_used, user_used, pagedir, pdes, ptes, contents, cr3, current>>

\* What file_read() and memset() put in the next page of segment s.
PageOf(s) ==
  [k \in 0 .. PgBytes - 1 |-> IF k < s.read_bytes THEN s.ofs + k ELSE -1]
page_read_bytes(s) == IF s.read_bytes < PgBytes THEN s.read_bytes ELSE PgBytes

\* load_segment(): the next page is allocated and read.
load_page(j) ==
  LET l == loader[j]
      s == l.seg
      f == FirstFree(UserFrames, user_used)
  IN
  /\ At(j, "segment")
  /\ IF s.read_bytes = 0 /\ s.zero_bytes = 0
     THEN /\ loader' = [loader EXCEPT ![j] = [pc |-> "phdr", elf |-> l.elf, i |-> l.i + 1]]
          /\ UNCHANGED <<user_used, contents>>
     ELSE IF UserFrames \subseteq user_used \/ s.ofs + page_read_bytes(s) > l.elf.length
     THEN /\ To(j, "exit")      \* no page, or it is freed again after a short read
          /\ UNCHANGED <<user_used, contents>>
     ELSE /\ user_used' = user_used \union {f}
          /\ contents' = [contents EXCEPT ![f] = PageOf(s)]
          /\ loader' = [loader EXCEPT ![j] = [pc |-> "install", elf |-> l.elf, i |-> l.i,
                                              seg |-> s, kpage |-> f]]
  /\ UNCHANGED <<kernel_used, pagedir, pdes, ptes, cr3, current>>

\* setup_stack(): a zeroed page at the top.
setup_stack(j) ==
  LET l == loader[j]
      f == FirstFree(UserFrames, user_used)
      top == [ofs |-> 0, upage |-> PHYS_BASE \div PgBytes - 1, read_bytes |-> 0,
              zero_bytes |-> PgBytes, writable |-> TRUE]
  IN
  /\ At(j, "stack")
  /\ IF UserFrames \subseteq user_used THEN To(j, "exit") /\ UNCHANGED <<user_used, contents>>
     ELSE /\ user_used' = user_used \union {f}
          /\ contents' = [contents EXCEPT ![f] = PageOf(top)]
          /\ loader' = [loader EXCEPT ![j] = [pc |-> "install", elf |-> l.elf, i |-> 0,
                                              seg |-> top, kpage |-> f]]
  /\ UNCHANGED <<kernel_used, pagedir, pdes, ptes, cr3, current>>

\* The segment after one page.
Advanced(s) ==
  [s EXCEPT !.ofs = @ + page_read_bytes(s), !.upage = @ + 1,
            !.read_bytes = @ - page_read_bytes(s),
            !.zero_bytes = @ - (PgBytes - page_read_bytes(s))]

\* Mutant: the page is not freed when it cannot be installed.
NotInstalled_leak(j) == UNCHANGED user_used

\* palloc_free_page (kpage)
NotInstalled(j) == user_used' = user_used \ {loader[j].kpage}

\* install_page(): pagedir_get_page() finds nothing there, and pagedir_set_page() has
\* or can allocate the page table.
install_page(j) ==
  LET l == loader[j]
      u == l.seg.upage
      d == u \div PtEntries
      f == FirstFree(KernelFrames, kernel_used)
      full == KernelFrames \subseteq kernel_used
      mapped == ptes[j][u] # NoPte
  IN
  /\ At(j, "install")
  /\ IF mapped \/ (pdes[j][d] = NULL /\ full)
     THEN /\ NotInstalled(j)
          /\ To(j, "exit")
          /\ UNCHANGED <<kernel_used, pdes, ptes>>
     ELSE /\ IF pdes[j][d] # NULL THEN UNCHANGED <<kernel_used, pdes>>
             ELSE kernel_used' = kernel_used \union {f} /\ pdes' = [pdes EXCEPT ![j][d] = f]
          /\ ptes' = [ptes EXCEPT ![j][u] = [frame |-> l.kpage, writable |-> l.seg.writable]]
          /\ loader' = [loader EXCEPT ![j] =
               IF l.i = 0 THEN [pc |-> "run", elf |-> l.elf]
               ELSE [pc |-> "segment", elf |-> l.elf, i |-> l.i, seg |-> Advanced(l.seg)]]
          /\ UNCHANGED user_used
  /\ UNCHANGED <<pagedir, contents, cr3, current>>

-----------------------------------------------------------------------------
(* process_exit() *)

sys_exit(j) ==
  /\ At(j, "run") /\ To(j, "exit")
  /\ UNCHANGED <<kernel_used, user_used, pagedir, pdes, ptes, contents, cr3, current>>

\* Mutant: cur->pagedir stays until the page directory is activated.
Forget_late(j) == UNCHANGED pagedir

\* cur->pagedir = NULL
Forget(j) == pagedir' = [pagedir EXCEPT ![j] = NULL]

exit_forget(j) ==
  /\ At(j, "exit")
  /\ Forget(j)
  /\ loader' = [loader EXCEPT ![j] = [pc |-> IF pagedir[j] = NULL THEN "dead" ELSE "activate",
                                      pd |-> pagedir[j]]]
  /\ UNCHANGED <<kernel_used, user_used, pdes, ptes, contents, cr3, current>>

\* pagedir_activate (NULL)
exit_activate(j) ==
  /\ At(j, "activate") /\ To(j, "destroy")
  /\ cr3' = init_page_dir
  /\ UNCHANGED <<kernel_used, user_used, pagedir, pdes, ptes, contents, current>>

\* pagedir_destroy(): the pages under one page table and the table, then the directory.
pagedir_destroy(j) ==
  LET tables == {d \in Pde : pdes[j][d] # NULL}
      d == Min(tables)
      pages == {u \in UserPage : u \div PtEntries = d /\ ptes[j][u] # NoPte}
  IN
  /\ At(j, "destroy")
  /\ IF tables = {}
     THEN /\ kernel_used' = kernel_used \ {loader[j].pd}
          /\ loader' = [loader EXCEPT ![j] = [pc |-> "dead", pd |-> NULL]]
          /\ UNCHANGED <<user_used, pdes, ptes>>
     ELSE /\ user_used' = user_used \ {ptes[j][u].frame : u \in pages}
          /\ kernel_used' = kernel_used \ {pdes[j][d]}
          /\ pdes' = [pdes EXCEPT ![j][d] = NULL]
          /\ ptes' = [ptes EXCEPT ![j] = [u \in UserPage |-> IF u \in pages THEN NoPte ELSE @[u]]]
          /\ UNCHANGED loader
  /\ UNCHANGED <<pagedir, contents, cr3, current>>

-----------------------------------------------------------------------------
(* Properties *)

(***************************************************************************)
(* "Correct ordering here is crucial" (userprog/process.c:184): the page   *)
(* directory the CPU uses is never one that is being destroyed or has been *)
(* freed, wherever a timer interrupt switches away from process_exit() and *)
(* back; and a process that runs its program has its own active            *)
(* (process_exit(), process_activate(), load()).                           *)
(***************************************************************************)
ActiveIsAlive ==
  /\ cr3 # init_page_dir =>
       cr3 \in kernel_used /\ ~\E j \in Job : loader[j].pc = "destroy" /\ loader[j].pd = cr3
  /\ At(current, "run") => cr3 = pagedir[current]

(***************************************************************************)
(* Frames are neither shared nor lost, whichever allocation or read of a   *)
(* load fails: every frame given out is the page directory, a page table   *)
(* or a page of exactly one process, or the page that it is about to       *)
(* install; so a process that has ended has given everything back          *)
(* (load_segment(), setup_stack(), install_page(), pagedir_destroy()).     *)
(***************************************************************************)
FramesAccounted ==
  LET dirs(j) == {pagedir[j]} \union
                 (IF loader[j].pc \in {"activate", "destroy"} THEN {loader[j].pd} ELSE {})
      kernel(j) == (dirs(j) \union {pdes[j][d] : d \in Pde}) \ {NULL}
      mapped(j) == {u \in UserPage : ptes[j][u] # NoPte}
      held(j) == IF loader[j].pc = "install" THEN {loader[j].kpage} ELSE {}
      user(j) == {ptes[j][u].frame : u \in mapped(j)} \union held(j)
  IN
  /\ kernel_used = UNION {kernel(j) : j \in Job}
  /\ user_used = UNION {user(j) : j \in Job}
  /\ \A j, k \in Job : j # k => kernel(j) \intersect kernel(k) = {} /\ user(j) \intersect user(k) = {}
  /\ \A j \in Job : Cardinality(user(j)) = Cardinality(mapped(j)) + Cardinality(held(j))

(***************************************************************************)
(* A process that runs finds its executable in memory: every byte of a     *)
(* segment is the file's byte, or zero past the file's part, in a page     *)
(* writable only if the segment is; page 0 is not mapped, and segments lie *)
(* below PHYS_BASE (load(), validate_segment(), load_segment()).           *)
(***************************************************************************)
ImageAsElf ==
  \A j \in Job : loader[j].pc = "run" =>
    /\ ptes[j][0] = NoPte
    /\ \A i \in DOMAIN loader[j].elf.phdrs :
         LET ph == loader[j].elf.phdrs[i] IN
         ph.type = "load" => \A k \in 0 .. ph.memsz - 1 :
           LET a == ph.vaddr + k
               pte == ptes[j][a \div PgBytes]
           IN  /\ a < PHYS_BASE /\ pte # NoPte
               /\ pte.writable = ph.writable
               /\ contents[pte.frame][a % PgBytes] = IF k < ph.filesz THEN ph.offset + k ELSE -1
=============================================================================
