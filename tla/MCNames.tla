------------------------------ MODULE MCNames ------------------------------
(* Processes that use a few short paths, absolute and relative. *)
EXTENDS DirTree, TLC

Abs(parts) == [abs |-> TRUE, parts |-> parts, slash |-> FALSE]
Rel(parts) == [abs |-> FALSE, parts |-> parts, slash |-> FALSE]

SomePaths == {Abs(<<>>), Abs(<<"a">>), Abs(<<"a", "b">>), Rel(<<"b">>), Rel(<<"..">>)}

Together(calls) == [calls |-> calls, overlap |-> TRUE]
InTurn(calls) == [calls |-> calls, overlap |-> FALSE]

\* Calls that change names in any order; current directories and the processes that
\* share them; open files; and the longer stories, without overlaps.
SomeScopes ==
  {Together({"exec", "create", "mkdir", "remove"}),
   Together({"exec", "mkdir", "chdir", "exit"}),
   Together({"exec", "mkdir", "open", "close", "kill"}),
   Together({"exec", "remove", "chdir", "open", "close", "exit", "kill"}),
   InTurn({"exec", "create", "mkdir", "remove", "chdir"}),
   InTurn({"exec", "mkdir", "remove", "chdir", "exit"})}

\* Processes are interchangeable.
Interchangeable == Permutations(Proc)

=============================================================================
