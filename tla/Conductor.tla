----------------------------- MODULE Conductor -----------------------------
(***************************************************************************)
(* How pt conducts a project through its workflow: `pt next` (cmdNext in   *)
(* cmd/pt/next.go) says what to do, `pt claim` (cmdClaim in main.go)       *)
(* enforces the workflow gates, the grounding pack and the UX preflight,   *)
(* and the other commands change what both look at.                        *)
(*                                                                         *)
(* Every command is one step here: Transitioner shows what lies between    *)
(* its file writes.  Of claim --override-soft it keeps the two writes, the *)
(* claim first and the gate-override comment second, which may be lost.    *)
(* Who works on a task is left out (TaskLifecycle); what matters here is   *)
(* whether an open task is reserved by an assignee.                        *)
(***************************************************************************)
EXTENDS Gates

CONSTANTS
  Workflows,    \* the workflow files considered
  Deps,         \* Deps[t]: the tasks t depends on
  Checkpoint,   \* Checkpoint[t] \in {"no", "pre", "post", "demo"}
  UxTask,       \* the tasks with a UX type that calls for a preflight
  HardUx,       \* of those, the discovery documents: no override
  RequiresGrounding,  \* the tasks of a template that requires a grounding pack
  Unmade,       \* tasks whose artifact is a file that does not exist yet
  MaxSetbacks   \* bound: releases, rejections, reopenings, blocks, edits, assignments

ASSUME ConductorAssumption ==
  /\ Workflows \subseteq Workflow
  /\ Deps \in [Task -> SUBSET Task]
  /\ Checkpoint \in [Task -> {"no", "pre", "post", "demo"}]
  /\ HardUx \subseteq UxTask /\ UxTask \subseteq Task /\ Unmade \subseteq Task
  /\ RequiresGrounding \subseteq Task
  /\ MaxSetbacks \in Nat

VARIABLES
  wf,           \* the selected workflow file
  status,       \* status[t]
  reserved,     \* the open tasks that have an assignee
  blocked,      \* the tasks marked with pt blocked
  said,         \* <<t, g>>: a comment on t contains g
  overridden,   \* the phases named in a gate-override comment
  ux,           \* the tasks whose metadata asks for a UX preflight
  preflighted,  \* the tasks whose metadata says the preflight is done
  ungrounded,   \* the tasks that must have a grounding pack and have none
  setbacks,     \* how many times something was undone or held up
  waved         \* auxiliary: tasks claimed through a gate that was shut

store == <<status, reserved, blocked, said, overridden, ux, preflighted, ungrounded>>
vars == <<wf, store, setbacks, waved>>

view == [status |-> status, said |-> said, overridden |-> overridden,
         preflighted |-> preflighted]

Init ==
  /\ wf \in Workflows
  /\ status = [t \in Task |-> "open"]
  /\ reserved = {} /\ blocked = {} /\ said = {} /\ overridden = {}
  /\ ux = UxTask /\ preflighted = {} /\ ungrounded \in SUBSET RequiresGrounding
  /\ setbacks = 0 /\ waved = {}

GateOpen(t) == CanProceed(wf, view, t)
GateShut(t, k) == BlockedBy(wf, view, t, k)
Hard(k) == wf.type[k] = "hard"
InFocus(t) == CurrentPhase(wf, view, wf.phaseOf[t])

\* readyBlockers: no dependency of t is still to be done.
DepsDone(t) == \A d \in Deps[t] : status[d] = "closed"

OpenTasks == {t \in Task : status[t] = "open"}
-----------------------------------------------------------------------------
(* pt next, as the conditions under which it gives each of its answers.    *)

\* t comes first in S, by priority.
First(t, S) == t \in S /\ \A u \in S : t <= u

Reviewing == \E t \in Task : status[t] = "needs_review"

(* The checkpoint tasks the rails recommend: the kickoff before any work   *)
(* in the phase is closed, then the closeout and the demo once all of it   *)
(* is.  Of several of a kind the last in the listing is kept.              *)
CheckpointsDue ==
  LET current == {t \in Task : InFocus(t)}
      work == {t \in current : Checkpoint[t] = "no"}
      closed == {t \in work : status[t] = "closed"}
      due(kind) == {t \in current : Checkpoint[t] = kind /\ status[t] = "open"}
  IN CASE work # {} /\ closed = {} -> due("pre")
       [] work # {} /\ closed = work -> IF due("post") # {} THEN due("post") ELSE due("demo")
       [] OTHER -> {}

\* A candidate chosen without a look at its dependencies.
EligibleIgnoringDeps(t, allPhases) ==
  status[t] = "open" /\ (allPhases \/ InFocus(t)) /\ t \notin blocked

\* The tasks the selection loop does not skip before it looks at the gates.
Eligible(t, allPhases) ==
  status[t] = "open" /\ (allPhases \/ InFocus(t)) /\ t \notin blocked /\ DepsDone(t)

\* A loop that stops at gates only when asked to.
StopsIfStrict(t, strict) == strict /\ \E k \in Phase : GateShut(t, k)

\* A gate ends the loop at t when it is hard or --strict is given ...
Stops(t, strict) == \E k \in Phase : GateShut(t, k) /\ (strict \/ Hard(k))

\* ... and t itself ends it when it can be worked on.
Fits(t) == GateOpen(t) /\ t \notin Unmade

\* The loop over the candidates, by priority, ends at t.
Ends(t, strict, allPhases) == Eligible(t, allPhases) /\ (Stops(t, strict) \/ Fits(t))

Selected(t, strict, allPhases) ==
  Ends(t, strict, allPhases) /\ \A u \in Task : u < t => ~Ends(u, strict, allPhases)

\* A loop that never falls back on a task whose file is missing.
NoFallback(t, strict, allPhases) == FALSE

\* A task whose file is missing is for when the loop runs to its end.
Fallback(t, strict, allPhases) ==
  /\ \A u \in Task : ~Ends(u, strict, allPhases)
  /\ Eligible(t, allPhases) /\ GateOpen(t)
  /\ \A u \in Task : u < t => ~(Eligible(u, allPhases) /\ GateOpen(u))

\* pt next [--strict] [--all-phases] without the rails, with no review pending.
SaysWork(t, strict, allPhases) ==
  /\ ~Reviewing
  /\ \/ Selected(t, strict, allPhases) /\ Fits(t)
     \/ Fallback(t, strict, allPhases)

SaysGate(t, k, strict, allPhases) ==
  ~Reviewing /\ GateShut(t, k) /\ Selected(t, strict, allPhases)

SaysHeldUp(strict, allPhases) ==
  /\ ~Reviewing /\ OpenTasks # {}
  /\ \A t \in Task : ~Selected(t, strict, allPhases) /\ ~Fallback(t, strict, allPhases)

SaysCheckpoint(t) == ~Reviewing /\ t \in CheckpointsDue

\* The task `pt workflow status` suggests (applyWorkflowTaskBlockers).
Suggests(t) ==
  LET ready(k) == {u \in Task : wf.phaseOf[u] = k /\ ~PhaseBlocked(wf, view, k) /\ u \notin blocked
                                  /\ status[u] = "open" /\ DepsDone(u)}
  IN /\ wf.phaseOf[t] \in Phase
     /\ First(t, ready(wf.phaseOf[t]))
     /\ \A j \in Phase : j < wf.phaseOf[t] => ready(j) = {}
-----------------------------------------------------------------------------
(* pt claim.                                                               *)

\* The guards of StateManager.Claim.
Claimable(t) == status[t] = "open" /\ t \notin reserved /\ DepsDone(t)

\* The check for the UX preflight; discovery documents cannot do without.
UxReady(t, override) == t \in ux \ preflighted => override /\ t \notin HardUx

\* A claim that does not ask for the gates.
AdmittedUngated(t, override) == Claimable(t) /\ UxReady(t, override) /\ t \notin ungrounded

\* All that claim asks for but the grounding pack.
AdmittedWithPack(t, override) ==
  /\ Claimable(t)
  /\ GateOpen(t) \/ (override /\ \E k \in Phase : GateShut(t, k) /\ ~Hard(k))
  /\ UxReady(t, override)

\* --override-soft does not make up for a missing pack.
Admitted(t, override) == AdmittedWithPack(t, override) /\ t \notin ungrounded

Claim(t) ==
  /\ Admitted(t, FALSE)
  /\ status' = [status EXCEPT ![t] = "in_progress"]
  /\ UNCHANGED <<wf, reserved, blocked, said, overridden, ux, preflighted, ungrounded, setbacks, waved>>

(* claim --override-soft=REASON: the claim is saved first; then the        *)
(* comment naming the phase whose gate was shut, unless the process dies   *)
(* or the write fails in between.                                          *)
ClaimOverriding(t) ==
  /\ Admitted(t, TRUE)
  /\ status' = [status EXCEPT ![t] = "in_progress"]
  /\ \/ GateOpen(t) /\ UNCHANGED <<overridden, waved>>
     \/ \E k \in Phase :
          /\ GateShut(t, k)
          /\ overridden' \in {overridden, overridden \cup {k}}
          /\ waved' = waved \cup {t}
  /\ UNCHANGED <<wf, reserved, blocked, said, ux, preflighted, ungrounded, setbacks>>
-----------------------------------------------------------------------------
(* The other commands.                                                     *)

Move(t, from, to) ==
  /\ status[t] = from
  /\ status' = [status EXCEPT ![t] = to]
  /\ UNCHANGED <<wf, reserved, blocked, said, overridden, ux, preflighted, ungrounded, waved>>

Setback == setbacks < MaxSetbacks /\ setbacks' = setbacks + 1

Validate(t) == Move(t, "in_progress", "needs_review") /\ UNCHANGED setbacks
Approve(t) == Move(t, "needs_review", "closed") /\ UNCHANGED setbacks
Reject(t) == Move(t, "needs_review", "in_progress") /\ Setback
Release(t) == Move(t, "in_progress", "open") /\ Setback
Reopen(t) == Move(t, "closed", "in_progress") /\ Setback

\* pt update --assignee=WHO, and --assignee=-, on an open task.
Assign(t) ==
  /\ status[t] = "open" /\ t \notin reserved
  /\ reserved' = reserved \cup {t}
  /\ Setback
  /\ UNCHANGED <<wf, status, blocked, said, overridden, ux, preflighted, ungrounded, waved>>

Unassign(t) ==
  /\ t \in reserved
  /\ reserved' = reserved \ {t}
  /\ UNCHANGED <<wf, status, blocked, said, overridden, ux, preflighted, ungrounded, setbacks, waved>>

\* An edit that drops the requirement and keeps the record of the preflight.
EditKeepingPreflight(t) ==
  /\ t \in ux
  /\ ux' = ux \ {t}
  /\ Setback
  /\ UNCHANGED <<wf, status, reserved, blocked, said, overridden, preflighted, ungrounded, waved>>

(* UpdateTask rebuilds changed metadata without its UX part: requirement   *)
(* and finished preflight are gone.                                        *)
Rebuilt(t) == ux' = ux \ {t} /\ preflighted' = preflighted \ {t}

\* pt update of a handoff field, on a task that has something to lose by it.
Edit(t) ==
  /\ t \in ux
  /\ Rebuilt(t)
  /\ Setback
  /\ UNCHANGED <<wf, status, reserved, blocked, said, overridden, ungrounded, waved>>

(* pt update --grounding-files and the like, as a refused claim tells one  *)
(* to; or the inputs, for which the pack was wanted, are cleared.          *)
Ground(t) ==
  /\ t \in ungrounded
  /\ ungrounded' = ungrounded \ {t}
  /\ Rebuilt(t)
  /\ UNCHANGED <<wf, status, reserved, blocked, said, overridden, setbacks, waved>>

(* The pack is cleared ("-"), or a task without one, whose artifact is no  *)
(* file, is given inputs.                                                  *)
Unground(t) ==
  /\ t \in RequiresGrounding \ ungrounded
  /\ ungrounded' = ungrounded \cup {t}
  /\ Rebuilt(t)
  /\ Setback
  /\ UNCHANGED <<wf, status, reserved, blocked, said, overridden, waved>>

\* pt blocked ID REASON, and pt unblock ID.
Block(t) ==
  /\ t \notin blocked
  /\ blocked' = blocked \cup {t}
  /\ Setback
  /\ UNCHANGED <<wf, status, reserved, said, overridden, ux, preflighted, ungrounded, waved>>

Unblock(t) ==
  /\ t \in blocked
  /\ blocked' = blocked \ {t}
  /\ UNCHANGED <<wf, status, reserved, said, overridden, ux, preflighted, ungrounded, setbacks, waved>>

\* The gate of phase k looks for g in the comments on t.
LooksFor(k, t, g) ==
  {HasComment(wf.phaseOf[t], g), DiscoveryApproved(wf.phaseOf[t], g)} \cap wf.gate[k] # {}

(* pt comment ID TEXT, with what a gate looks for in the text; a comment    *)
(* that no gate looks for changes nothing here.                            *)
Comment(t, g) ==
  /\ \E k \in Phase : LooksFor(k, t, g)
  /\ <<t, g>> \notin said
  /\ said' = said \cup {<<t, g>>}
  /\ UNCHANGED <<wf, status, reserved, blocked, overridden, ux, preflighted, ungrounded, setbacks, waved>>

\* pt ux preflight ID [--type=TYPE]
Preflight(t) ==
  /\ t \in UxTask
  /\ t \notin ux \cap preflighted
  /\ ux' = ux \cup {t}
  /\ preflighted' = preflighted \cup {t}
  /\ UNCHANGED <<wf, status, reserved, blocked, said, overridden, ungrounded, setbacks, waved>>

Next ==
  \E t \in Task :
    \/ Claim(t) \/ ClaimOverriding(t)
    \/ Validate(t) \/ Approve(t) \/ Reject(t) \/ Release(t) \/ Reopen(t)
    \/ Assign(t) \/ Unassign(t) \/ Edit(t) \/ Block(t) \/ Unblock(t) \/ Preflight(t)
    \/ Ground(t) \/ Unground(t)
    \/ \E g \in Tag : Comment(t, g)
-----------------------------------------------------------------------------
(* The people and agents who follow pt next.                               *)

\* pt next says to claim t, as a checkpoint or as work, here or with --all-phases.
Recommended(t) == SaysCheckpoint(t) \/ \E all \in BOOLEAN : SaysWork(t, FALSE, all)

\* pt next --strict prints an override for the soft gate it meets at t.
Overridable(t) == \E k \in Phase, all \in BOOLEAN : ~Hard(k) /\ SaysGate(t, k, TRUE, all)

\* A hard gate that pt next reports looks for g in the comments on t.
Missing(t, g) ==
  /\ <<t, g>> \notin said
  /\ \E k \in Phase : LooksFor(k, t, g) /\ \E u \in Task, all \in BOOLEAN : SaysGate(u, k, FALSE, all)

FollowNext ==
  \E t \in Task : (Claim(t) /\ Recommended(t)) \/ (ClaimOverriding(t) /\ Overridable(t))

AnswerGate == \E t \in Task, g \in Tag : Missing(t, g) /\ Comment(t, g)

Fairness ==
  /\ WF_vars(FollowNext)
  /\ WF_vars(AnswerGate)
  /\ WF_vars(\E t \in Task : Validate(t))
  /\ WF_vars(\E t \in Task : Approve(t))
  /\ WF_vars(\E t \in Task : Unassign(t))
  /\ WF_vars(\E t \in Task : Unblock(t))
  /\ WF_vars(\E t \in Task : Preflight(t))
  /\ WF_vars(\E t \in Task : Ground(t))

Spec == Init /\ [][Next]_vars

FairSpec == Spec /\ Fairness
-----------------------------------------------------------------------------
(* Properties.                                                             *)

\* Every variable stays in its range; only an open task is reserved.
TypeOK ==
  /\ wf \in Workflows
  /\ view \in View
  /\ reserved \subseteq OpenTasks
  /\ blocked \subseteq Task /\ ux \subseteq UxTask /\ preflighted \subseteq ux
  /\ ungrounded \subseteq RequiresGrounding
  /\ setbacks \in 0 .. MaxSetbacks /\ waved \subseteq Task

\* The hard gates whose answer cannot be taken back: conditions on comments.
AnsweredForGood(k) ==
  wf.type[k] = "hard" /\ \A c \in wf.gate[k] : c.of \in {"comment", "approved"}

HardGatesHold(t) ==
  \A k \in GatesBefore(wf.phaseOf[t]) : AnsweredForGood(k) => EvaluateGate(wf, view, k)

\* "Hard gates always block" (docs/workflow-architecture.md): work on a task
\* has not begun while the answer a hard gate before it asks for is missing.
HardGatesAlwaysBlock == \A t \in Task : status[t] # "open" => HardGatesHold(t)

\* The same of every task that nobody claimed through a shut soft gate:
\* neither releases, reopenings, edits nor assignments get around a hard gate.
HardGatesBlockPlainClaims ==
  \A t \in Task \ waved : status[t] # "open" => HardGatesHold(t)

\* What keeps pt claim from a task although its gates are open, and which
\* neither pt next nor the reports look at.
Wanting == (ux \ preflighted) \cup ungrounded

\* A task that pt next or pt workflow status puts forward as work can be worked
\* on: it is not blocked, its dependencies are done and its gates are open, and
\* pt claim accepts it, or refuses it for three reasons only: it is reserved, it
\* lacks its UX preflight, or it lacks its grounding pack.  The three commands
\* decide about blocks, dependencies and gates in three places.
GuidanceIsSound ==
  \A t \in Task :
    Suggests(t) \/ (\E strict, all \in BOOLEAN : SaysWork(t, strict, all)) =>
      /\ t \notin blocked /\ DepsDone(t) /\ GateOpen(t)
      /\ t \in reserved \cup Wanting \/ Admitted(t, FALSE)

\* When pt next --all-phases reports that everything is held up and names no
\* gate, pt claim would refuse every task that is not marked blocked.
GuidanceIsComplete ==
  (\E strict \in BOOLEAN : SaysHeldUp(strict, TRUE))
    => \A t \in Task \ blocked : ~Admitted(t, FALSE)

(* A gate that can open once the phases before it are finished and the     *)
(* preflights done: there is something to say, or nothing to wait for.     *)
Answerable(w, k) ==
  w.gate[k] # {} => \E c \in w.gate[k] :
    \/ c.of = "complete" /\ c.phase < k
    \/ c.of = "preflight" /\ TasksOf(w, c.phase) \subseteq UxTask
    \/ c.of = "comment"
    \/ c.of = "approved" /\ TasksOf(w, c.phase) # {}

(* Dependencies have no cycle and follow the order of the phases, and no   *)
(* hard gate asks for the impossible.  pt checks none of this.             *)
WellPlanned(w) ==
  /\ \A S \in SUBSET Task : S # {} => \E t \in S : Deps[t] \cap S = {}
  /\ \A t \in Task : w.phaseOf[t] \in Phase => \A d \in Deps[t] : w.phaseOf[d] \in 1 .. w.phaseOf[t]
  /\ \A k \in Phase : w.type[k] = "hard" => Answerable(w, k)

\* No work is in hand, nothing is held up, all preflights are done.
AllWaiting ==
  /\ \A t \in Task : status[t] \in {"open", "closed"}
  /\ reserved = {} /\ blocked = {} /\ UxTask \subseteq ux \cap preflighted

(* Nobody is ever stuck: as long as there is an open task, and everybody   *)
(* waits for pt next, it says what to claim or which soft gate to override *)
(* and pt claim accepts that, once the task has the grounding pack it may  *)
(* want, which Ground writes; or it names a hard gate that some comment    *)
(* still missing would open.                                               *)
NobodyIsStuck ==
  WellPlanned(wf) /\ AllWaiting /\ OpenTasks # {} =>
    \E t \in Task :
      \/ Recommended(t) /\ AdmittedWithPack(t, FALSE)
      \/ Overridable(t) /\ AdmittedWithPack(t, TRUE)
      \/ \E g \in Tag : Missing(t, g)

\* When setbacks end, following pt next gets every task of the project closed:
\* no workflow, checkpoint, missing file, block, preflight or grounding pack
\* leaves it stuck, given people who write what claim asks for.
EventuallyFinished == <>[](\A t \in Task : status[t] = "closed")
=============================================================================
