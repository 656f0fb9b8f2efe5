------------------------------ MODULE Reports ------------------------------
(***************************************************************************)
(* The commands that tell people what can be worked on, besides pt next    *)
(* and pt workflow status: pt ready (cmdReady in cmd/pt/main.go), pt       *)
(* workflow next and pt workflow check (cmd/pt/workflow.go).  They change  *)
(* nothing; each has its own code for phases, gates, blocks and            *)
(* dependencies, with either workflow engine.                              *)
(*                                                                         *)
(* An engine is TRUE for v2.  pt workflow next uses v1 whatever PT_ENGINE   *)
(* says.  --role and --limit are left out.                                 *)
(***************************************************************************)
EXTENDS Engine

\* pt workflow check --task=ID; also the gate field of pt ready --json.
CheckPasses(t, v2) == IF v2 THEN CanProceedV2(wf, view, t) ELSE GateOpen(t)

\* The phases with unfinished tasks; pt ready focuses on the first, if any.
Underway == {k \in Phase : \E t \in TasksOf(wf, k) : status[t] # "closed"}

\* pt ready [--all-phases] [--include-blocked] lists t ...
Listed(t, allPhases, includeBlocked) ==
  /\ status[t] = "open"
  /\ includeBlocked \/ t \notin blocked
  /\ allPhases \/ Underway = {} \/ InFocus(t)

\* ... without a look at the gates ...
ShownUngated(t, v2) == DepsDone(t) /\ t \notin reserved

\* ... without a blocker, with an open gate and without an assignee.
ShownFree(t, v2) == DepsDone(t) /\ CheckPasses(t, v2) /\ t \notin reserved

\* The phases from which buildWorkflowStatus may take its suggestion.
Unblocked == {k \in Phase : ~PhaseBlocked(wf, view, k) /\ \E t \in TasksOf(wf, k) : status[t] = "open"}

\* pt workflow next names an open task of the first such phase; which one
\* depends on the order in which the store is listed.
Names(t) ==
  /\ status[t] = "open" /\ wf.phaseOf[t] \in Unblocked
  /\ \A k \in Unblocked : wf.phaseOf[t] <= k

SaysNoReadyTasks == \A t \in Task : ~Names(t)
-----------------------------------------------------------------------------
\* The reports tell the same story.  What pt next recommends as work, pt ready
\* with the same --all-phases lists as free, unless it has an assignee; what pt
\* ready shows as free, pt claim accepts unless it lacks its UX preflight or its
\* grounding pack, at which pt ready does not look.  pt workflow next names a
\* task that pt workflow check passes, and says NO READY TASKS only when claim
\* would stop every open task of the workflow at a gate.
ReportsAgree ==
  /\ \A t \in Task, strict, all \in BOOLEAN :
       SaysWork(t, strict, all) =>
         Listed(t, all, FALSE) /\ (t \in reserved \/ ShownFree(t, FALSE))
  /\ \A t \in Task, v2 \in BOOLEAN :
       Listed(t, TRUE, FALSE) /\ ShownFree(t, v2) /\ t \notin Wanting => Admitted(t, FALSE)
  /\ \A t \in Task : Names(t) => CheckPasses(t, FALSE)
  /\ SaysNoReadyTasks =>
       \A t \in OpenTasks : wf.phaseOf[t] \in Phase => ~CheckPasses(t, FALSE)
=============================================================================
