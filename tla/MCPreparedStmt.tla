--------------------------- MODULE MCPreparedStmt ---------------------------
(* Instances of PreparedStmt for TLC.                                      *)
EXTENDS PreparedStmt, TLC

CONSTANTS d1, d2, t1, t2, c1, q1, q2

Symmetry == Permutations(DbProcs) \cup Permutations(Queries)
(* What is left in a statement object nobody can reach does not matter.    *)
View == <<store, mux, conns, pc, query, ref,
          [i \in StmtIds |-> IF i \in Garbage THEN Unused ELSE stmts[i]]>>
=============================================================================
