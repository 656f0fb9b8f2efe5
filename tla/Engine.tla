------------------------------- MODULE Engine -------------------------------
(***************************************************************************)
(* The second workflow engine (pkg/pt/engine), which PT_ENGINE=v2 puts in  *)
(* the place of EvaluateGate, CheckGate and buildWorkflowStatus in pt      *)
(* claim, ready, next, workflow status and workflow check.  It compiles    *)
(* the gates of a workflow file into expressions (Compile in compile.go)   *)
(* and evaluates those (eval.go, v2.go).                                   *)
(*                                                                         *)
(* An expression is compiled for the gate it stands in; the expressions    *)
(* that mention no phase speak of the gate's own.                          *)
(***************************************************************************)
EXTENDS Conductor

\* `discovery:approved:X` names no phase: it stands in the gate of the phase
\* whose comments it searches.
ASSUME EngineAssumption ==
  \A w \in Workflows, k \in Phase : \A c \in w.gate[k] : c.of = "approved" => c.phase = k

AllClosedExpr == [expr |-> "AllClosed"]
PhaseCompleteExpr(j) == [expr |-> "PhaseComplete", phase |-> j]
HasCommentExpr(g) == [expr |-> "HasComment", tag |-> g]
PhaseHasCommentExpr(j, g) == [expr |-> "PhaseHasComment", phase |-> j, tag |-> g]
DiscoveryApprovedExpr(g) == [expr |-> "DiscoveryApproved", tag |-> g]
UnknownExpr == [expr |-> "Unknown"]

(* compileGateExpr: the expression of alternative c in the gate of phase k. *)
(* It has no case for ux_preflight_done, in either form.                    *)
CompileGateExpr(k, c) ==
  CASE c.of = "complete" -> IF c.phase = k THEN AllClosedExpr ELSE PhaseCompleteExpr(c.phase)
    [] c.of = "comment" -> IF c.phase = k THEN HasCommentExpr(c.tag)
                                          ELSE PhaseHasCommentExpr(c.phase, c.tag)
    [] c.of = "approved" -> DiscoveryApprovedExpr(c.tag)
    [] OTHER -> UnknownExpr

AllClosed(w, v, k) == \A t \in TasksOf(w, k) : v.status[t] = "closed"
AnySaid(w, v, k, g) == \E t \in TasksOf(w, k) : <<t, g>> \in v.said

\* Comment gates without the exemption of phases that have no tasks.
EvalStrictly(w, v, k, e) ==
  \/ e.expr = "AllClosed" /\ AllClosed(w, v, k)
  \/ e.expr = "PhaseComplete" /\ AllClosed(w, v, e.phase)
  \/ e.expr \in {"HasComment", "DiscoveryApproved"} /\ AnySaid(w, v, k, e.tag)
  \/ e.expr = "PhaseHasComment" /\ AnySaid(w, v, e.phase, e.tag)

\* The Eval methods, in the context of phase k; Unknown is never satisfied.
Eval(w, v, k, e) ==
  \/ e.expr = "AllClosed" /\ AllClosed(w, v, k)
  \/ e.expr = "PhaseComplete" /\ AllClosed(w, v, e.phase)
  \/ e.expr = "HasComment" /\ (TasksOf(w, k) = {} \/ AnySaid(w, v, k, e.tag))
  \/ e.expr = "PhaseHasComment" /\ (TasksOf(w, e.phase) = {} \/ AnySaid(w, v, e.phase, e.tag))
  \/ e.expr = "DiscoveryApproved" /\ AnySaid(w, v, k, e.tag)

EvaluateGateV2(w, v, k) ==
  \/ w.gate[k] = {}
  \/ w.type[k] = "soft" /\ k \in v.overridden
  \/ \E c \in w.gate[k] : Eval(w, v, k, CompileGateExpr(k, c))

ShutBeforeV2(w, v, k) == {j \in GatesBefore(k) : ~EvaluateGateV2(w, v, j)}

\* CheckGate, as what it returns: the phase whose gate blocks t, if any.
CanProceedV2(w, v, t) == ShutBeforeV2(w, v, w.phaseOf[t]) = {}

BlockedByV2(w, v, t, k) ==
  LET shut == ShutBeforeV2(w, v, w.phaseOf[t])
  IN k \in shut /\ \A j \in shut : k <= j

\* BuildWorkflowStatus: IsBlocked of phase k.
PhaseBlockedV2(w, v, k) ==
  (\E t \in TasksOf(w, k) : v.status[t] # "closed") /\ ShutBeforeV2(w, v, k) # {}
-----------------------------------------------------------------------------
\* No alternative of the gates of the phases in S asks for a UX preflight.
NoPreflightIn(S) == \A j \in S : \A c \in wf.gate[j] : c.of # "preflight"

\* "V2 decisions match V1 for existing workflows/templates"
\* (docs/WORKFLOW_V2_PROOF.md): v2 opens no gate that v1 keeps shut, and but for
\* ux_preflight_done, which no shipped workflow asks for, it opens every gate v1
\* opens, stops the same tasks at the same gate and blocks the same phases.
EnginesAgree ==
  /\ \A k \in Phase :
       /\ EvaluateGateV2(wf, view, k) => EvaluateGate(wf, view, k)
       /\ NoPreflightIn({k}) /\ EvaluateGate(wf, view, k) => EvaluateGateV2(wf, view, k)
  /\ \A t \in Task :
       NoPreflightIn(GatesBefore(wf.phaseOf[t])) =>
         /\ CanProceedV2(wf, view, t) <=> CanProceed(wf, view, t)
         /\ \A k \in Phase : BlockedByV2(wf, view, t, k) <=> BlockedBy(wf, view, t, k)
  /\ \A k \in Phase :
       NoPreflightIn(GatesBefore(k)) => (PhaseBlockedV2(wf, view, k) <=> PhaseBlocked(wf, view, k))
=============================================================================
