---------------------------- MODULE MCConductor ----------------------------
(* Four tasks in the shapes of the workflow files under workflows/.        *)
EXTENDS Reports

CONSTANT ok

MCDeps == [t \in Task |-> IF t = 3 THEN {1} ELSE {}]
MCCheckpoint == [t \in Task |-> IF t = 2 THEN "pre" ELSE "no"]

\* maintenance.toml: two phases with soft gates and a sign-off that a person answers.
Maintenance ==
  [phaseOf |-> [t \in Task |-> IF t = 4 THEN 3 ELSE IF t = 1 THEN 1 ELSE 2],
   gate |-> [k \in Phase |-> CASE k = 1 -> {Complete(1)}
                               [] k = 2 -> {Complete(1), DiscoveryApproved(2, ok)}
                               [] k = 3 -> {HasComment(2, ok)}],
   type |-> [k \in Phase |-> IF k = 3 THEN "hard" ELSE "soft"]]

\* risk-first.toml with no frontend task: the user has nothing to approve.
NoFrontend ==
  [phaseOf |-> [t \in Task |-> IF t = 1 THEN 1 ELSE IF t = 4 THEN Unassigned ELSE 3],
   gate |-> [k \in Phase |-> CASE k = 1 -> {PreflightDone(1)} [] k = 2 -> {Complete(1)}
                               [] k = 3 -> {HasComment(2, ok)}],
   type |-> [k \in Phase |-> CASE k = 1 -> "none" [] k = 2 -> "soft" [] k = 3 -> "hard"]]

MCWorkflows == {Maintenance, NoFrontend}
=============================================================================
