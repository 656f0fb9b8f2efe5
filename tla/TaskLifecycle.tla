--------------------------- MODULE TaskLifecycle ---------------------------
(***************************************************************************)
(* What pt promises about a task: the transitions README.md lists under    *)
(* "Workflow & State Machine", together with release, and who owns the     *)
(* task while it is being worked on.  No store, no process, no label: one  *)
(* status and one owner per task, every transition a single step.          *)
(*                                                                         *)
(* StateManager (the in-memory machine), Transitioner (the commands that   *)
(* work through the store file) and Conductor (the same commands behind    *)
(* gates) are shown to implement it.                                       *)
(***************************************************************************)
CONSTANTS
  Task,     \* the tasks
  Actor,    \* the identities that claim tasks
  Nobody,   \* the empty assignee
  Deps      \* Deps[t]: the tasks that must be closed before t is claimed

VARIABLES
  status,   \* status[t]
  owner     \* owner[t]: the assignee, Nobody when there is none

lifecycle == <<status, owner>>

LifecycleStatus == {"open", "in_progress", "needs_review", "closed"}

DepsClosed(t) == Deps[t] \subseteq Task /\ \A d \in Deps[t] : status[d] = "closed"

Init ==
  /\ status = [t \in Task |-> "open"]
  /\ owner = [t \in Task |-> Nobody]

Become(t, s, o) ==
  /\ status' = [status EXCEPT ![t] = s]
  /\ owner' = [owner EXCEPT ![t] = o]

Claim(t, a) ==
  /\ status[t] = "open"
  /\ DepsClosed(t)
  /\ owner[t] = Nobody
  /\ Become(t, "in_progress", a)

Release(t) == status[t] = "in_progress" /\ Become(t, "open", Nobody)

Submit(t) == status[t] = "in_progress" /\ Become(t, "needs_review", owner[t])

Reject(t) == status[t] = "needs_review" /\ Become(t, "in_progress", owner[t])

Approve(t) == status[t] = "needs_review" /\ Become(t, "closed", owner[t])

Reopen(t, a) == status[t] = "closed" /\ Become(t, "in_progress", a)

\* pt update --assignee: any status, any new owner, Nobody included.
Reassign(t, a) == Become(t, status[t], a)

Next ==
  \E t \in Task :
    \/ Release(t) \/ Submit(t) \/ Reject(t) \/ Approve(t)
    \/ \E a \in Actor : Claim(t, a) \/ Reopen(t, a)
    \/ \E a \in Actor \cup {Nobody} : Reassign(t, a)

Spec == Init /\ [][Next]_lifecycle
=============================================================================
