------------------------------ MODULE MCSynch ------------------------------
(* A small instance of Synch for model checking.                           *)
EXTENDS SynchInv

CONSTANTS main, t1, t2, L, C, S

MCLockOf == [c \in Condition |-> L]

=============================================================================
