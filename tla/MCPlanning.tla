----------------------------- MODULE MCPlanning -----------------------------
(* Task a, its review task ra, and the review task of that one.  A first   *)
(* plan knows a alone, a second one makes ra wait for a; the opposite plan *)
(* is for the run that looks for cycles.  At most MaxCommands commands,    *)
(* two once they overlap.                                                  *)
EXTENDS Planning, TLC
CONSTANTS a, ra, rra, MaxCommands
MCManifests == {a :> {} @@ ra :> {a}, a :> {}}
ReversedManifests == {a :> {} @@ ra :> {a}, a :> {ra} @@ ra :> {}}
MCReviewOf == a :> ra @@ ra :> rra
FewCommands == started <= IF overlapped THEN 2 ELSE MaxCommands
Symmetry == Permutations(Proc)
=============================================================================
