------------------------------ MODULE MCBuffer ------------------------------
(* Small instances of the buffer cache for model checking.                 *)
EXTENDS BufferStore

CONSTANTS s1, s2, s3, s4, p1, p2, k1, k2, c1, c2, c3

TwoSlots == <<c1, c2>>
AnyPart == SUBSET Part \ {{}}

\* Threads, sectors and parts are interchangeable.
Interchangeable == Permutations(Thread) \cup Permutations(Sector) \cup Permutations(Part)

=============================================================================
