------------------------- MODULE MCStatementMachine -------------------------
(***************************************************************************)
(* A query with one parameter, an insert with two and an update with none. *)
(***************************************************************************)
EXTENDS StatementMachine, TLC

MCMarks == [t \in Text |-> CASE t = "insert" -> 2 [] t = "search" -> 1 [] OTHER -> 0]
Interchangeable == Permutations(Stmt)

\* A bound: while a statement waits for data the others hold no result.
OneSequence ==
  \A s, t \in Stmt : s # t /\ stmt[s].data_at_exec # None => stmt[t].statement = None
=============================================================================
