----------------------------- MODULE MCWorktree -----------------------------
(* Two tasks, two branches, either of which a task may be started on.      *)
(* Two commands that overlap are explored on one branch and one task; the  *)
(* second slot is for the command that comes later.                        *)
EXTENDS Worktree
CONSTANTS t1, b1, p1, p2
Overlaps ==
  /\ pc[p2] # "idle" => overlapped
  /\ overlapped => branches \subseteq {b1} /\ \A t \in Task \ {t1} : record[t] = None
=============================================================================
