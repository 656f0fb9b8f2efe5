---------------------------- MODULE MCDiscovery ----------------------------
(* Overlaps are explored with an approval in the first slot, which waits   *)
(* for the user's answer, and while there are no options yet (synthesize   *)
(* --force needs none).  A wireframe is only drawn early, since no command *)
(* but handoff looks at it; a second remark is only made when every option *)
(* has been explored, none is marked, and nothing has gone wrong.  Without *)
(* a task to comment on, there is less to go wrong: that comes untroubled. *)
EXTENDS Discovery
CONSTANTS p1, p2, f1, f2
Said == told \cup UNION {Items(out[p]) : p \in Proc}
Small ==
  /\ pc[p2] # "idle" => overlapped
  /\ overlapped => pc[p1] # "save" /\ syn.caps + syn.approaches + syn.total + trouble = 0
  /\ (\E l \in Label : wireframe[l] # 0) => syn.total = 1 /\ ~overlapped /\ trouble = 0
  /\ trouble > 0 /\ Loaded => syn.linked
  /\ f2 \in Said =>
       /\ f1 \in told
       /\ syn.total = MaxOptions /\ syn.approaches = MinApproaches /\ syn.linked
       /\ \A i \in Positions(syn.options) : syn.options[i].coverage = 0
       /\ ~overlapped /\ trouble = 0
=============================================================================
