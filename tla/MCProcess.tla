----------------------------- MODULE MCProcess -----------------------------
(***************************************************************************)
(* Instances of ProcessWait: main and a few processes that execute each    *)
(* other, wait for each other and end in any order.                        *)
(***************************************************************************)
EXTENDS ProcessInv, TLC

CONSTANTS a, b, c

\* The processes that main and each other execute are interchangeable.
Interchangeable == Permutations(Proc \ {main})

\* Bound: at most MaxAbrupt programs end without calling exit().
MaxAbrupt == 1
FewAbrupt ==
  Cardinality({p \in Proc : ended[p].how \in {"killed", "no_thread", "child_gone"}})
    <= MaxAbrupt

=============================================================================
