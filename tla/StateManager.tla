---------------------------- MODULE StateManager ----------------------------
(***************************************************************************)
(* pkg/pt/state_manager.go: the in-memory state machine of a task graph.   *)
(* Every method holds the manager's mutex, so each is one step.  A method  *)
(* that returns an error changes nothing and is not a step.                *)
(***************************************************************************)
CONSTANTS
  Task,     \* the ids handed to NewStateManager
  Actor,    \* non-empty assignees
  Nobody,   \* the empty assignee
  Deps      \* Deps[t]: the ids t depends on; an id outside Task is unknown

ASSUME ManagerAssumption == Nobody \notin Actor

VARIABLES
  status,   \* taskState.Status
  assignee  \* taskState.Assignee

manager == <<status, assignee>>

Status == {"planned", "ready", "in_progress", "needs_review", "done"}

\* depsDone, on the statuses st: an unknown dependency is never done.
DepsDone(st, t) == Deps[t] \subseteq Task /\ \A d \in Deps[t] : st[d] = "done"

\* NewStateManager
Init ==
  /\ status = [t \in Task |-> IF Deps[t] = {} THEN "ready" ELSE "planned"]
  /\ assignee = [t \in Task |-> Nobody]

\* Ready(): the ids eligible to start.
Ready == {t \in Task : status[t] = "ready" /\ DepsDone(status, t)}

Claim(t, a) ==
  /\ t \in Ready
  /\ assignee[t] = Nobody
  /\ status' = [status EXCEPT ![t] = "in_progress"]
  /\ assignee' = [assignee EXCEPT ![t] = a]

\* A Release that uses the store's word for a task nobody works on.
ReleaseToOpen(t, a) ==
  /\ status[t] = "in_progress"
  /\ assignee[t] \in {Nobody, a}
  /\ status' = [status EXCEPT ![t] = "open"]
  /\ assignee' = [assignee EXCEPT ![t] = Nobody]

Release(t, a) ==
  /\ status[t] = "in_progress"
  /\ assignee[t] \in {Nobody, a}
  /\ status' = [status EXCEPT ![t] = "ready"]
  /\ assignee' = [assignee EXCEPT ![t] = Nobody]

MarkNeedsReview(t) ==
  /\ status[t] = "in_progress"
  /\ status' = [status EXCEPT ![t] = "needs_review"]
  /\ UNCHANGED assignee

Reject(t) ==
  /\ status[t] = "needs_review"
  /\ status' = [status EXCEPT ![t] = "in_progress"]
  /\ UNCHANGED assignee

\* The loop at the end of Complete: planned tasks whose dependencies are now
\* done become ready.
Unlocked(st) ==
  [t \in Task |-> IF st[t] = "planned" /\ DepsDone(st, t) THEN "ready" ELSE st[t]]

\* A Complete that forgets the loop.
CompleteWithoutUnlock(t) ==
  /\ status[t] = "needs_review"
  /\ status' = [status EXCEPT ![t] = "done"]
  /\ UNCHANGED assignee

Complete(t) ==
  /\ status[t] = "needs_review"
  /\ status' = Unlocked([status EXCEPT ![t] = "done"])
  /\ UNCHANGED assignee

\* A Reopen that accepts a task under review.
ReopenUnchecked(t, a) ==
  /\ status[t] \in {"needs_review", "done"}
  /\ status' = [status EXCEPT ![t] = "in_progress"]
  /\ assignee' = [assignee EXCEPT ![t] = IF a = Nobody THEN @ ELSE a]

Reopen(t, a) ==
  /\ status[t] = "done"
  /\ status' = [status EXCEPT ![t] = "in_progress"]
  /\ assignee' = [assignee EXCEPT ![t] = IF a = Nobody THEN @ ELSE a]

Next ==
  \E t \in Task :
    \/ \E a \in Actor : Claim(t, a) \/ Release(t, a)
    \/ MarkNeedsReview(t) \/ Reject(t) \/ Complete(t)
    \/ \E a \in Actor \cup {Nobody} : Reopen(t, a)

Spec == Init /\ [][Next]_manager
-----------------------------------------------------------------------------
(* Every field keeps the range its Go type and the constants give it.      *)
TypeOK ==
  /\ status \in [Task -> Status]
  /\ assignee \in [Task -> Actor \cup {Nobody}]

(* No task is stranded in "planned": Complete is the only method that      *)
(* turns planned into ready and Claim accepts ready only, so a planned     *)
(* task whose dependencies are all done could never be started again,      *)
(* whatever the order of completions and reopenings was.                   *)
PlannedWaitsForSomething ==
  \A t \in Task : status[t] = "planned" => ~ DepsDone(status, t)

(* Work in hand has somebody who answers for it: a task in progress, under *)
(* review or done has an assignee, through rejection and reopening.        *)
WorkHasOwner ==
  \A t \in Task : status[t] \in {"in_progress", "needs_review", "done"}
                    => assignee[t] \in Actor

(* The manager implements the promised lifecycle; planned and ready are    *)
(* both "open" to an outside observer.                                     *)
StoreStatus(s) ==
  CASE s \in {"planned", "ready"} -> "open" [] s = "done" -> "closed" [] OTHER -> s

Lifecycle == INSTANCE TaskLifecycle WITH
  status <- [t \in Task |-> StoreStatus(status[t])],
  owner <- assignee

ImplementsLifecycle == Lifecycle!Spec
=============================================================================
