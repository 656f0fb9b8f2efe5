---------------------------- MODULE MCStoreFiles ----------------------------
(* A repository and a worktree of it, each of which may have a legacy      *)
(* store with task a.  The imported store has b, a and c under other       *)
(* numbers, and c waits for its a.                                         *)
EXTENDS StoreFiles, TLC
CONSTANTS a, b, c, main, wt
MCSearch == main :> <<main>> @@ wt :> <<wt, main>>
MCOld == EnsureIssues(EmptyDb, a :> 1)
MCForeign == {AddDeps(EnsureIssues(EmptyDb, b :> 1 @@ a :> 2 @@ c :> 3), {<<3, 2>>})}
Symmetry == Permutations(Proc)
=============================================================================
