--------------------------- MODULE MCTransitioner ---------------------------
(* Two tasks, the second waiting for the first.                            *)
EXTENDS Transitioner, Naturals, TLC
CONSTANTS t1, t2
Symmetry == Permutations(Actor) \cup Permutations(Proc)
OneTornTask == Cardinality(torn) <= 1
MCDeps == t1 :> {} @@ t2 :> {t1}
=============================================================================
