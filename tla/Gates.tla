------------------------------- MODULE Gates -------------------------------
(***************************************************************************)
(* Workflow gates: EvaluateGate and CheckGate of pkg/pt/workflow.go, and   *)
(* the blocked flag of `pt workflow status` (buildWorkflowStatus in        *)
(* cmd/pt/workflow.go), as functions of a workflow file and of a view of   *)
(* the store.                                                              *)
(*                                                                         *)
(* Abstractions.  A phase is its position in the order ParseWorkflow sorts *)
(* by.  A gate condition is the set of the alternatives between its ORs;   *)
(* `all_closed` is `phase:X complete` and `has_comment:T` is `phase:X      *)
(* has_comment:T` with X the phase itself.  A comment is the tag it        *)
(* contains, an approval of a discovery is such a tag, and phase ids are   *)
(* taken to be no prefix of one another (the code compares substrings).    *)
(***************************************************************************)
EXTENDS Naturals

CONSTANTS
  Task,    \* the tasks, numbered in the order SortIssues gives them
  Phases,  \* how many phases the workflow has
  Tag      \* what a gate may look for in a comment

ASSUME GatesAssumption == Task \subseteq Nat /\ Phases \in Nat

Phase == 1 .. Phases
Unassigned == 0   \* the phase of a task the workflow knows no phase for

GateType == {"none", "soft", "hard"}

Complete(k) == [of |-> "complete", phase |-> k]
HasComment(k, g) == [of |-> "comment", phase |-> k, tag |-> g]
DiscoveryApproved(k, g) == [of |-> "approved", phase |-> k, tag |-> g]
PreflightDone(k) == [of |-> "preflight", phase |-> k]

Condition ==
  {Complete(k) : k \in Phase} \cup {PreflightDone(k) : k \in Phase}
    \cup {HasComment(k, g) : k \in Phase, g \in Tag}
    \cup {DiscoveryApproved(k, g) : k \in Phase, g \in Tag}

Workflow == [phaseOf : [Task -> Phase \cup {Unassigned}],  \* GetTaskPhase
             gate : [Phase -> SUBSET Condition],  \* {}: the phase has no gate
             type : [Phase -> GateType]]

\* What a gate looks at: statuses, comments, overrides, finished preflights.
View == [status : [Task -> {"open", "in_progress", "needs_review", "closed"}],
         said : SUBSET (Task \X Tag),
         overridden : SUBSET Phase,
         preflighted : SUBSET Task]

TasksOf(w, k) == {t \in Task : w.phaseOf[t] = k}

\* A comment gate that does not exempt a phase without tasks.
SatisfiedOnlyByComment(w, v, c) ==
  LET ts == TasksOf(w, c.phase) IN
  \/ c.of = "complete" /\ \A t \in ts : v.status[t] = "closed"
  \/ c.of = "preflight" /\ ts \subseteq v.preflighted
  \/ c.of \in {"comment", "approved"} /\ \E t \in ts : <<t, c.tag>> \in v.said

(* One alternative of a condition.  A phase without tasks satisfies them   *)
(* all, except the approval of a discovery.                                *)
Satisfied(w, v, c) ==
  LET ts == TasksOf(w, c.phase) IN
  \/ c.of = "complete" /\ \A t \in ts : v.status[t] = "closed"
  \/ c.of = "preflight" /\ ts \subseteq v.preflighted
  \/ c.of = "comment" /\ ts = {}
  \/ c.of \in {"comment", "approved"} /\ \E t \in ts : <<t, c.tag>> \in v.said

EvaluateGate(w, v, k) ==
  \/ w.gate[k] = {}
  \/ w.type[k] = "soft" /\ k \in v.overridden
  \/ \E c \in w.gate[k] : Satisfied(w, v, c)

\* The gates before a task of phase k: those of the earlier phases and,
\* except for the first phase, its own.
GatesBefore(k) == {j \in Phase : j < k \/ (j = k /\ k > 1)}

(* CheckGate: the first gate before t that is not satisfied blocks it,     *)
(* whatever the later ones say; without one, t can proceed.                *)
CanProceed(w, v, t) == \A k \in GatesBefore(w.phaseOf[t]) : EvaluateGate(w, v, k)

BlockedBy(w, v, t, k) ==
  /\ k \in GatesBefore(w.phaseOf[t])
  /\ ~EvaluateGate(w, v, k)
  /\ \A j \in GatesBefore(w.phaseOf[t]) : j < k => EvaluateGate(w, v, j)

Unfinished(w, v, k) == {t \in TasksOf(w, k) : v.status[t] # "closed"}

\* Phase k is marked blocked in `pt workflow status`.
PhaseBlocked(w, v, k) ==
  Unfinished(w, v, k) # {} /\ \E j \in GatesBefore(k) : ~EvaluateGate(w, v, j)

\* Phase k is the first with unfinished tasks.
CurrentPhase(w, v, k) ==
  /\ k \in Phase
  /\ Unfinished(w, v, k) # {}
  /\ \A j \in Phase : j < k => Unfinished(w, v, j) = {}
=============================================================================
