------------------------------ MODULE MCLibrary ------------------------------
(***************************************************************************)
(* Memory and the kernel's libraries.  They share no state in the model,   *)
(* so each behaviour exercises one of them, the one that part names, and   *)
(* the others keep one initial state.                                      *)
(***************************************************************************)
EXTENDS Memory, AddressSpace, Lists, HashTable, Bitmap, Algorithms, TLC

VARIABLE part

vars == <<mem_vars, space_vars, list_vars, hash_vars, bitmap_vars, algo_vars, part>>

ASSUME LibraryAssumption ==
  /\ MemoryAssumption /\ SpaceAssumption
  /\ ListsAssumption /\ HashAssumption /\ BitmapAssumption

-----------------------------------------------------------------------------
(* Values of the constants *)

\* Executables: with a bad header, without segments, with two segments that do not
\* start at a page, with segments that share a page, with one that the file does not
\* hold, one that is refused, one that wraps around, one past PHYS_BASE, and one without
\* bytes in the file.
SomeElf ==
  LET seg(offset, vaddr, filesz, memsz, writable) ==
        [type |-> "load", offset |-> offset, vaddr |-> vaddr, filesz |-> filesz,
         memsz |-> memsz, writable |-> writable]
      elf(ok, length, phdrs) == [ok |-> ok, length |-> length, phdrs |-> phdrs]
  IN  {elf(FALSE, 0, <<>>), elf(TRUE, 0, <<>>),
       elf(TRUE, 8, <<[type |-> "ignored"], seg(1, 5, 3, 4, FALSE), seg(4, 12, 2, 3, TRUE)>>),
       elf(TRUE, 8, <<seg(0, 4, 4, 4, FALSE), seg(5, 5, 1, 1, TRUE)>>),
       elf(TRUE, 5, <<seg(4, 8, 2, 5, FALSE)>>),
       elf(TRUE, 8, <<seg(2, 18, 0, 3, TRUE), [type |-> "refused"]>>),
       elf(TRUE, 8, <<seg(0, 20, 4, 48, FALSE)>>),
       elf(TRUE, 8, <<seg(0, 20, 4, 8, FALSE)>>),
       elf(TRUE, 8, <<seg(3, 19, 0, 4, TRUE)>>)}

Values == 1 :> 1 @@ 2 :> 2 @@ 3 :> 1 @@ 4 :> 2
Keys == <<1, 1, 2, 3, 4, 5>>
Hashes == <<0, 4, 1, 2, 6>>

Upto(S, n) == UNION {[1 .. k -> S] : k \in 0 .. n}
Strings(S, n) == {s \o <<NUL>> : s \in Upto(S, n)}
Block == <<1, 2, 3, 4, 5>>
SomeInputs ==
  [op : {"div"}, n : 0 .. 255, d : 1 .. 255]
    \union [op : {"sort"}, a : Upto(1 .. 3, 5)]
    \union {x \in [op : {"search"}, key : 0 .. 4, a : Upto(1 .. 3, 4)] :
              \A i, j \in DOMAIN x.a : i < j => x.a[i] <= x.a[j]}
    \union [op : {"tokens"}, s : Strings({Space, 2}, 6)]
    \union {x \in [op : {"copy"}, dst : {s \o <<3, 3>> : s \in Strings({1, 2}, 2)},
                   src : Strings({1, 2}, 3), size : 0 .. 5] : x.size <= Len(x.dst)}
    \union {x \in [op : {"move"}, m : {Block}, dst : 1 .. 5, src : 1 .. 5, size : 0 .. 5] :
              x.dst + x.size <= 6 /\ x.src + x.size <= 6}
    \union [op : {"compare"}, s : Strings({1, 2}, 3), t : Strings({1, 2}, 3)]
    \union [op : {"stack"}, lens : Upto(1 .. 4, 3)]
    \union [op : {"calibrate"}, loops : 5 .. 100]

-----------------------------------------------------------------------------

Init ==
  /\ part \in {"memory", "space", "lists", "hash", "bitmap", "algorithms"}
  /\ MemoryInit /\ SpaceInit /\ ListsInit /\ HashInit /\ BitmapInit
  /\ part # "space" => current = (CHOOSE j \in Job : TRUE)
  /\ part # "bitmap" => \A w \in Word : bits[w] = 0
  /\ IF part = "algorithms" THEN AlgorithmsInit
     ELSE input = [op |-> "none"] /\ result = <<>> /\ done = FALSE

Mem(A) == part = "memory" /\ A
          /\ UNCHANGED <<space_vars, list_vars, hash_vars, bitmap_vars, algo_vars, part>>
Spc(A) == part = "space" /\ A
          /\ UNCHANGED <<mem_vars, list_vars, hash_vars, bitmap_vars, algo_vars, part>>
Lst(A) == part = "lists" /\ A
          /\ UNCHANGED <<mem_vars, space_vars, hash_vars, bitmap_vars, algo_vars, part>>
Hsh(A) == part = "hash" /\ A
          /\ UNCHANGED <<mem_vars, space_vars, list_vars, bitmap_vars, algo_vars, part>>
Bmp(A) == part = "bitmap" /\ A
          /\ UNCHANGED <<mem_vars, space_vars, list_vars, hash_vars, algo_vars, part>>
Alg(A) == part = "algorithms" /\ A
          /\ UNCHANGED <<mem_vars, space_vars, list_vars, hash_vars, bitmap_vars, part>>

Place == 1 .. Cardinality(Items) + 1

Next ==
  \/ \E t \in Task, s \in Sizes : Mem(malloc(t, s))
  \/ \E t \in Task, s \in Sizes : \E x \in live : Mem(realloc(t, x, s))
  \/ \E t \in Task : Mem(malloc_desc(t))
  \/ \E t \in Task : Mem(palloc_scan(t))
  \/ \E t \in Task : Mem(palloc_flip(t))
  \/ \E t \in Task : \E x \in live : Mem(free(t, x))
  \/ \E t \in Task : Mem(free_small(t))
  \/ \E t \in Task : Mem(free_big(t))
  \/ \E t \in Task : Mem(palloc_clear(t))
  \/ \E j \in Job : Spc(thread_switch(j))
  \/ \E j \in Job, e \in Elf : Spc(load(j, e))
  \/ \E j \in Job : Spc(load_phdr(j))
  \/ \E j \in Job : Spc(load_page(j))
  \/ \E j \in Job : Spc(setup_stack(j))
  \/ \E j \in Job : Spc(install_page(j))
  \/ \E j \in Job : Spc(sys_exit(j))
  \/ \E j \in Job : Spc(exit_forget(j))
  \/ \E j \in Job : Spc(exit_activate(j))
  \/ \E j \in Job : Spc(pagedir_destroy(j))
  \/ \E l \in ListId, i \in Place, e \in Items : Lst(insert(l, i, e))
  \/ \E l \in ListId, i \in Place : Lst(remove(l, i))
  \/ \E l, m \in ListId, i, j \in Place : Lst(splice(l, m, i, j))
  \/ \E l \in ListId : Lst(reverse(l))
  \/ \E l \in ListId : Lst(sort(l))
  \/ \E l \in ListId, e \in Items : Lst(insert_ordered(l, e))
  \/ \E l, m \in ListId : Lst(unique(l, m))
  \/ \E l \in ListId, max \in BOOLEAN : Lst(min_max(l, max))
  \/ \E e \in Entry, memory \in BOOLEAN : Hsh(hash_insert(e, memory))
  \/ \E e \in Entry, memory \in BOOLEAN : Hsh(hash_replace(e, memory))
  \/ \E e \in Entry, memory \in BOOLEAN : Hsh(hash_delete(e, memory))
  \/ Hsh(hash_clear)
  \/ \E s, c \in 0 .. bit_cnt, v \in BOOLEAN : Bmp(set_multiple(s, c, v))
  \/ \E i \in Bit : Bmp(flip(i))
  \/ \E s, c \in 0 .. bit_cnt, v \in BOOLEAN : Bmp(scan_and_flip(s, c, v))
  \/ \E s, c \in 0 .. bit_cnt, v \in BOOLEAN : Bmp(count(s, c, v))
  \/ Bmp(bitmap_write)
  \/ Bmp(bitmap_read)
  \/ Alg(compute)

Spec == Init /\ [][Next]_vars

=============================================================================
