--------------------------- MODULE MCStateManager ---------------------------
(* Four tasks: t2 and t3 wait for t1, t4 for both of them.                 *)
EXTENDS StateManager, TLC
CONSTANTS t1, t2, t3, t4
MCDeps == t1 :> {} @@ t2 :> {t1} @@ t3 :> {t1} @@ t4 :> {t2, t3}
=============================================================================
