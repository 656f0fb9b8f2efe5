--------------------------- MODULE ConductorProofs ---------------------------
(***************************************************************************)
(* The conductor, for every set of tasks, every workflow file, dependency  *)
(* graph, choice of checkpoints and number of setbacks: the ranges of its  *)
(* variables, what hard gates keep from being started, and that whatever   *)
(* pt next or pt workflow status recommends as work can be claimed; that   *)
(* there is always a next step, that steps bring the end nearer, and that  *)
(* tasks go through the promised lifecycle.                                *)
(***************************************************************************)
EXTENDS Reports, FiniteSetTheorems, WellFoundedInduction, TLAPS

USE GatesAssumption, ConductorAssumption, EngineAssumption

Statuses == {"open", "in_progress", "needs_review", "closed"}

(* The type invariant with View spelled out.                               *)
Types ==
  /\ wf \in Workflows
  /\ status \in [Task -> Statuses]
  /\ said \subseteq Task \X Tag
  /\ overridden \subseteq Phase
  /\ reserved \subseteq {t \in Task : status[t] = "open"}
  /\ blocked \subseteq Task
  /\ ux \subseteq UxTask /\ preflighted \subseteq ux
  /\ ungrounded \subseteq RequiresGrounding
  /\ setbacks \in 0 .. MaxSetbacks
  /\ waved \subseteq Task

LEMMA TypesAreTypeOK == Types <=> TypeOK
BY DEF Types, TypeOK, Statuses, view, View, OpenTasks

(* A command that moves t from `open` reserves nothing that is not open:   *)
(* claims want an unreserved task, the others leave open tasks alone.      *)
LEMMA MoveTypes ==
  ASSUME Types, NEW t \in Task, NEW s \in Statuses,
         status' = [status EXCEPT ![t] = s],
         status[t] # "open" \/ t \notin reserved,
         UNCHANGED <<wf, reserved, blocked, said, ux, preflighted, ungrounded>>,
         overridden' \subseteq Phase, waved' \subseteq Task,
         setbacks' \in 0 .. MaxSetbacks
  PROVE  Types'
<1>1. status' \in [Task -> Statuses]
  BY DEF Types
<1>2. reserved' \subseteq {u \in Task : status'[u] = "open"}
  BY DEF Types
<1>3. QED BY <1>1, <1>2 DEF Types

LEMMA SetbackType == ASSUME Types, Setback PROVE setbacks' \in 0 .. MaxSetbacks
BY DEF Types, Setback

LEMMA ClaimTypes == ASSUME Types, NEW t \in Task, Claim(t) \/ ClaimOverriding(t) PROVE Types'
<1>1. t \notin reserved
  BY DEF Claim, ClaimOverriding, Admitted, AdmittedWithPack, Claimable
<1>2. /\ status' = [status EXCEPT ![t] = "in_progress"]
      /\ UNCHANGED <<wf, reserved, blocked, said, ux, preflighted, ungrounded>>
      /\ setbacks' \in 0 .. MaxSetbacks
  BY DEF Claim, ClaimOverriding, Types
<1>3. overridden' \subseteq Phase /\ waved' \subseteq Task
  BY DEF Claim, ClaimOverriding, Types
<1>4. QED BY <1>1, <1>2, <1>3, MoveTypes DEF Statuses

LEMMA LifecycleTypes ==
  ASSUME Types, NEW t \in Task,
         Validate(t) \/ Approve(t) \/ Reject(t) \/ Release(t) \/ Reopen(t)
  PROVE  Types'
<1>1. setbacks' \in 0 .. MaxSetbacks
  BY SetbackType DEF Validate, Approve, Reject, Release, Reopen, Types
<1>2. \E from, to \in Statuses : from # "open" /\ Move(t, from, to)
  BY DEF Validate, Approve, Reject, Release, Reopen, Statuses
<1>3. QED BY <1>1, <1>2, MoveTypes DEF Move, Types

LEMMA RecordTypes ==
  ASSUME Types, NEW t \in Task,
         \/ Assign(t) \/ Unassign(t) \/ Edit(t) \/ Block(t) \/ Unblock(t) \/ Preflight(t)
         \/ Ground(t) \/ Unground(t)
         \/ \E g \in Tag : Comment(t, g)
  PROVE  Types'
<1>1. setbacks' \in 0 .. MaxSetbacks /\ ungrounded' \subseteq RequiresGrounding
  BY SetbackType
     DEF Assign, Unassign, Edit, Ground, Unground, Rebuilt, Block, Unblock, Preflight, Comment, Types
<1>2. UNCHANGED <<wf, status, overridden, waved>>
  BY DEF Assign, Unassign, Edit, Ground, Unground, Rebuilt, Block, Unblock, Preflight, Comment
<1>3. reserved' \subseteq {u \in Task : status'[u] = "open"}
  BY <1>2 DEF Assign, Unassign, Edit, Ground, Unground, Rebuilt, Block, Unblock, Preflight, Comment, Types
<1>4. blocked' \subseteq Task /\ said' \subseteq Task \X Tag
  <2>1. blocked' \subseteq blocked \cup {t}
    BY DEF Assign, Unassign, Edit, Ground, Unground, Rebuilt, Block, Unblock, Preflight, Comment
  <2>2. said' = said \/ \E g \in Tag : said' = said \cup {<<t, g>>}
    BY DEF Assign, Unassign, Edit, Ground, Unground, Rebuilt, Block, Unblock, Preflight, Comment
  <2>3. blocked' \subseteq Task
    BY <2>1 DEF Types
  <2>4. said' \subseteq Task \X Tag
    BY <2>2 DEF Types
  <2>5. QED BY <2>3, <2>4
<1>5. ux' \subseteq UxTask /\ preflighted' \subseteq ux'
  BY DEF Assign, Unassign, Edit, Ground, Unground, Rebuilt, Block, Unblock, Preflight, Comment, Types
<1>6. QED BY <1>1, <1>2, <1>3, <1>4, <1>5 DEF Types

LEMMA TypesInvariant == Spec => []Types
<1>1. Init => Types
  BY DEF Init, Types, Statuses
<1>2. Types /\ [Next]_vars => Types'
  <2>1. ASSUME Types, UNCHANGED vars PROVE Types'
    BY <2>1 DEF Types, vars, store
  <2>2. QED BY <2>1, ClaimTypes, LifecycleTypes, RecordTypes DEF Next
<1>3. QED BY <1>1, <1>2, PTL DEF Spec

(* Whatever commands are run, statuses, labels of the workflow, answers    *)
(* and setbacks stay in their ranges; only an open task is reserved, and   *)
(* no task keeps a finished preflight that its metadata does not ask for.  *)
THEOREM TypeCorrect == Spec => []TypeOK
BY TypesInvariant, TypesAreTypeOK, PTL
-----------------------------------------------------------------------------
(* Comments are never taken back: a hard gate that waits for comments      *)
(* stays open whatever happens to the tasks.                               *)
LEMMA AnswersStay ==
  ASSUME Types, NEW k \in Phase, AnsweredForGood(k), EvaluateGate(wf, view, k),
         wf' = wf, said \subseteq said'
  PROVE  AnsweredForGood(k)' /\ EvaluateGate(wf, view, k)'
<1>1. AnsweredForGood(k)'
  BY DEF AnsweredForGood
<1>2. CASE wf.gate[k] = {}
  BY <1>1, <1>2 DEF EvaluateGate
<1>3. CASE wf.gate[k] # {}
  <2>1. PICK c \in wf.gate[k] : Satisfied(wf, view, c)
    BY <1>3 DEF EvaluateGate, AnsweredForGood
  <2>2. c.of \in {"comment", "approved"}
    BY DEF AnsweredForGood
  <2>3. Satisfied(wf, view, c)'
    BY <2>1, <2>2 DEF Satisfied, view, TasksOf
  <2>4. QED BY <1>1, <2>1, <2>3 DEF EvaluateGate
<1>4. QED BY <1>2, <1>3

LEMMA HeldGatesStay ==
  ASSUME Types, NEW t \in Task, HardGatesHold(t), wf' = wf, said \subseteq said'
  PROVE  HardGatesHold(t)'
<1> SUFFICES ASSUME NEW k \in GatesBefore(wf'.phaseOf[t]), AnsweredForGood(k)'
             PROVE  EvaluateGate(wf, view, k)'
  BY DEF HardGatesHold
<1>1. k \in Phase /\ AnsweredForGood(k) /\ k \in GatesBefore(wf.phaseOf[t])
  BY DEF GatesBefore, AnsweredForGood
<1>2. EvaluateGate(wf, view, k)
  BY <1>1 DEF HardGatesHold
<1>3. QED BY <1>1, <1>2, AnswersStay

(* What every step leaves as it is, or adds to.                            *)
LEMMA Monotone ==
  ASSUME [Next]_vars PROVE wf' = wf /\ said \subseteq said' /\ waved \subseteq waved'
<1>1. ASSUME NEW t \in Task, Claim(t) \/ ClaimOverriding(t)
      PROVE  wf' = wf /\ said \subseteq said' /\ waved \subseteq waved'
  BY <1>1 DEF Claim, ClaimOverriding
<1>2. ASSUME NEW t \in Task, Validate(t) \/ Approve(t) \/ Reject(t) \/ Release(t) \/ Reopen(t)
      PROVE  wf' = wf /\ said \subseteq said' /\ waved \subseteq waved'
  BY <1>2 DEF Validate, Approve, Reject, Release, Reopen, Move
<1>3. ASSUME NEW t \in Task,
             \/ Assign(t) \/ Unassign(t) \/ Edit(t) \/ Block(t) \/ Unblock(t) \/ Preflight(t)
             \/ Ground(t) \/ Unground(t)
             \/ \E g \in Tag : Comment(t, g)
      PROVE  wf' = wf /\ said \subseteq said' /\ waved \subseteq waved'
  BY <1>3 DEF Assign, Unassign, Edit, Ground, Unground, Rebuilt, Block, Unblock, Preflight, Comment
<1>4. QED BY <1>1, <1>2, <1>3 DEF Next, vars, store

(* A task leaves `open` by a claim only, and an unwaved one with its gates *)
(* open.                                                                   *)
LEMMA StartsBehindOpenGates ==
  ASSUME Types, [Next]_vars, NEW t \in Task \ waved',
         status[t] = "open", status'[t] # "open"
  PROVE  GateOpen(t)
<1>1. PICK u \in Task : Next!(u)
  BY DEF vars, store, Next
<1>2. t = u /\ (Claim(u) \/ ClaimOverriding(u))
  BY <1>1 DEF Types, Validate, Approve, Reject, Release, Reopen, Move,
         Assign, Unassign, Edit, Ground, Unground, Rebuilt, Block, Unblock, Preflight, Comment, Claim, ClaimOverriding
<1>3. CASE Claim(u)
  BY <1>2, <1>3 DEF Claim, Admitted, AdmittedWithPack
<1>4. CASE ClaimOverriding(u)
  BY <1>2, <1>4 DEF ClaimOverriding
<1>5. QED BY <1>2, <1>3, <1>4

(* cmdClaim without --override-soft: for every workflow, no sequence of    *)
(* claims, releases, reopenings, edits, assignments and other tasks'       *)
(* overrides starts a task while a hard gate before it lacks its answer.   *)
THEOREM HardGatesKept == Spec => []HardGatesBlockPlainClaims
<1>1. Init => HardGatesBlockPlainClaims
  BY DEF Init, HardGatesBlockPlainClaims
<1>2. Types /\ HardGatesBlockPlainClaims /\ [Next]_vars => HardGatesBlockPlainClaims'
  <2> SUFFICES ASSUME Types, HardGatesBlockPlainClaims, [Next]_vars,
                      NEW t \in Task \ waved', status'[t] # "open"
               PROVE  HardGatesHold(t)'
    BY DEF HardGatesBlockPlainClaims
  <2>1. HardGatesHold(t)
    <3>1. CASE status[t] = "open"
      BY <3>1, StartsBehindOpenGates DEF GateOpen, CanProceed, HardGatesHold
    <3>2. CASE status[t] # "open"
      BY <3>2, Monotone DEF HardGatesBlockPlainClaims
    <3>3. QED BY <3>1, <3>2
  <2>2. QED BY <2>1, Monotone, HeldGatesStay
<1>3. QED BY <1>1, <1>2, TypesInvariant, PTL DEF Spec
-----------------------------------------------------------------------------
(* PhaseBlocked, the flag of pt workflow status, and CheckGate, the guard  *)
(* of claim, agree on every open task the workflow knows a phase for.      *)
LEMMA StatusAgreesWithClaim ==
  ASSUME Types, NEW t \in Task, status[t] = "open", wf.phaseOf[t] \in Phase
  PROVE  PhaseBlocked(wf, view, wf.phaseOf[t]) <=> ~GateOpen(t)
<1>1. t \in Unfinished(wf, view, wf.phaseOf[t])
  BY DEF Unfinished, TasksOf, view
<1>2. QED BY <1>1 DEF PhaseBlocked, GateOpen, CanProceed

(* Recommended work can be worked on: in every state, with any combination *)
(* of --strict and --all-phases, and for every workflow, it is not blocked *)
(* and has its dependencies done and its gates open; claim refuses it only *)
(* for want of its grounding pack or preflight, or to another's assignee.  *)
THEOREM GuidanceCanBeFollowed == Spec => []GuidanceIsSound
<1>1. ASSUME Types, NEW t \in Task,
             status[t] = "open", t \notin blocked, DepsDone(t), GateOpen(t)
      PROVE  t \in reserved \cup Wanting \/ Admitted(t, FALSE)
  BY <1>1 DEF Admitted, AdmittedWithPack, Claimable, UxReady, Wanting
<1>2. ASSUME Types, NEW t \in Task, Suggests(t)
      PROVE  status[t] = "open" /\ t \notin blocked /\ DepsDone(t) /\ GateOpen(t)
  <2>1. /\ wf.phaseOf[t] \in Phase
        /\ ~PhaseBlocked(wf, view, wf.phaseOf[t])
        /\ status[t] = "open" /\ t \notin blocked /\ DepsDone(t)
    BY <1>2 DEF Suggests, First
  <2>2. QED BY <1>2, <2>1, StatusAgreesWithClaim
<1>3. ASSUME NEW t \in Task, NEW strict \in BOOLEAN, NEW all \in BOOLEAN,
             SaysWork(t, strict, all)
      PROVE  status[t] = "open" /\ t \notin blocked /\ DepsDone(t) /\ GateOpen(t)
  BY <1>3 DEF SaysWork, Selected, Ends, Fits, Fallback, Eligible
<1>4. Types => GuidanceIsSound
  BY <1>1, <1>2, <1>3 DEF GuidanceIsSound
<1>5. QED BY <1>4, TypesInvariant, PTL
-----------------------------------------------------------------------------
(* A set of natural numbers has a least element: < is well-founded.        *)
LEMMA LeastElement ==
  ASSUME NEW T, T \subseteq Nat, T # {}
  PROVE  \E x \in T : \A y \in T : x <= y
<1> DEFINE R == {ss \in Nat \X Nat : ss[1] < ss[2]}
<1>1. IsWellFoundedOn(R, Nat)
  BY NatLessThanWellFounded DEF OpToRel
<1>2. PICK x \in T : \A y \in T : <<y, x>> \notin R
  <2> HIDE DEF R
  <2> QED BY <1>1, WFMin
<1>3. ASSUME NEW y \in T PROVE x <= y
  <2>1. x \in Nat /\ y \in Nat /\ <<y, x>> \in Nat \X Nat
    OBVIOUS
  <2>2. ~ y < x
    BY <1>2, <2>1
  <2> QED BY <2>1, <2>2
<1> QED BY <1>3

(* The loop over the candidates comes to an end: a candidate that can be   *)
(* worked on, or at whose gate the loop stops, is not overlooked.          *)
LEMMA LoopFinds ==
  ASSUME NEW strict \in BOOLEAN, NEW all \in BOOLEAN, NEW t \in Task,
         Eligible(t, all), GateOpen(t) \/ Stops(t, strict)
  PROVE  \E u \in Task : Selected(u, strict, all) \/ Fallback(u, strict, all)
<1> DEFINE E == {u \in Task : Ends(u, strict, all)}
           F == {u \in Task : Eligible(u, all) /\ GateOpen(u)}
<1>1. CASE E # {}
  <2>1. PICK u \in E : \A x \in E : u <= x
    BY <1>1, LeastElement
  <2>2. ASSUME NEW x \in Task, x < u PROVE ~Ends(x, strict, all)
    <3>1. ~(u <= x)
      BY <2>1, <2>2
    <3> QED BY <2>1, <3>1
  <2> QED BY <2>1, <2>2 DEF Selected
<1>2. CASE E = {}
  <2>1. t \in F
    BY <1>2 DEF Ends
  <2>2. PICK u \in F : \A x \in F : u <= x
    BY <2>1, LeastElement
  <2>3. ASSUME NEW x \in Task, x < u PROVE ~(Eligible(x, all) /\ GateOpen(x))
    <3>1. ~(u <= x)
      BY <2>2, <2>3
    <3> QED BY <2>2, <3>1
  <2> QED BY <1>2, <2>2, <2>3 DEF Fallback
<1> QED BY <1>1, <1>2

(* When pt next --all-phases reports that everything is held up, pt claim  *)
(* would refuse every task not marked blocked: its loop over the           *)
(* candidates overlooks none, for every plan and every workflow.           *)
THEOREM GuidanceMissesNothing == Spec => []GuidanceIsComplete
<1>1. ASSUME NEW strict \in BOOLEAN, SaysHeldUp(strict, TRUE),
             NEW t \in Task \ blocked, Admitted(t, FALSE)
      PROVE  FALSE
  <2>1. Eligible(t, TRUE) /\ GateOpen(t)
    BY <1>1 DEF Admitted, AdmittedWithPack, Claimable, Eligible
  <2> QED BY <1>1, <2>1, LoopFinds DEF SaysHeldUp
<1>2. GuidanceIsComplete
  BY <1>1 DEF GuidanceIsComplete
<1>3. QED BY <1>2, PTL
-----------------------------------------------------------------------------
(* Nobody is stuck.  Some task of the current phase has its dependencies   *)
(* done; either the gates before that phase are open, and the loop ends at *)
(* a task to work on, or there is a first shut gate, at which it stops.    *)
LEMMA FirstShutGate ==
  ASSUME Types, NEW t \in Task, ~GateOpen(t)
  PROVE  \E k \in Phase : GateShut(t, k)
<1> DEFINE S == {k \in GatesBefore(wf.phaseOf[t]) : ~EvaluateGate(wf, view, k)}
<1>1. S # {} /\ S \subseteq Phase /\ Phase \subseteq Nat
  BY DEF GateOpen, CanProceed, GatesBefore, Phase
<1>2. PICK k \in S : \A j \in S : k <= j
  BY <1>1, LeastElement
<1>3. ASSUME NEW j \in GatesBefore(wf.phaseOf[t]), j < k PROVE EvaluateGate(wf, view, j)
  <2>1. j \in Nat /\ k \in Nat
    BY <1>1, <1>2, <1>3 DEF GatesBefore
  <2>2. ~(k <= j)
    BY <1>3, <2>1
  <2> QED BY <1>2, <2>2
<1> QED BY <1>1, <1>2, <1>3 DEF GateShut, BlockedBy

LEMMA OnePhaseAtATime ==
  ASSUME NEW j \in Phase, NEW k \in Phase, CurrentPhase(wf, view, j), CurrentPhase(wf, view, k)
  PROVE  j = k
<1>1. ~(j < k) /\ ~(k < j)
  BY DEF CurrentPhase
<1> QED BY <1>1 DEF Phase

LEMMA SameGates ==
  ASSUME NEW t \in Task, NEW u \in Task, wf.phaseOf[t] = wf.phaseOf[u]
  PROVE  /\ GateOpen(t) <=> GateOpen(u)
         /\ \A k \in Phase : GateShut(t, k) <=> GateShut(u, k)
BY DEF GateOpen, GateShut, CanProceed, BlockedBy

\* All dependencies of the first task that is left are done.
LEMMA SomeTaskEligible ==
  ASSUME Types, WellPlanned(wf), AllWaiting, NEW k \in Phase, CurrentPhase(wf, view, k)
  PROVE  \E t \in Task : wf.phaseOf[t] = k /\ Eligible(t, FALSE)
<1> DEFINE S == Unfinished(wf, view, k)
<1>1. S # {} /\ S \in SUBSET Task
  BY DEF CurrentPhase, Unfinished, TasksOf
<1>2. PICK t \in S : Deps[t] \cap S = {}
  BY <1>1 DEF WellPlanned
<1>3. t \in Task /\ wf.phaseOf[t] = k /\ status[t] = "open"
  BY <1>1, <1>2 DEF Unfinished, TasksOf, view, AllWaiting
<1>4. ASSUME NEW d \in Deps[t] PROVE status[d] = "closed"
  <2>1. d \in Task /\ wf.phaseOf[d] \in 1 .. k
    BY <1>3 DEF WellPlanned
  <2>2. wf.phaseOf[d] \in Phase /\ (wf.phaseOf[d] = k \/ wf.phaseOf[d] < k)
    BY <2>1 DEF Phase
  <2>3. d \notin Unfinished(wf, view, wf.phaseOf[d])
    BY <1>2, <2>2 DEF CurrentPhase
  <2> QED BY <2>1, <2>3 DEF Unfinished, TasksOf, view
<1> QED BY <1>3, <1>4 DEF Eligible, InFocus, DepsDone, AllWaiting

\* What a shut hard gate still asks for has not been said.
LEMMA HardGateCanBeAnswered ==
  ASSUME Types, WellPlanned(wf), AllWaiting,
         NEW now \in Phase, CurrentPhase(wf, view, now),
         NEW k \in Phase, k <= now, Hard(k), ~EvaluateGate(wf, view, k)
  PROVE  \E t \in Task, g \in Tag : LooksFor(k, t, g) /\ <<t, g>> \notin said
<1>1. wf.gate[k] # {}
  BY DEF EvaluateGate
<1>2. PICK c \in wf.gate[k] :
        \/ c.of = "complete" /\ c.phase < k
        \/ c.of = "preflight" /\ TasksOf(wf, c.phase) \subseteq UxTask
        \/ c.of = "comment"
        \/ c.of = "approved" /\ TasksOf(wf, c.phase) # {}
  BY <1>1 DEF WellPlanned, Answerable, Hard
<1>3. c \in Condition /\ ~Satisfied(wf, view, c)
  BY DEF Types, Workflow, EvaluateGate
<1>4. c.phase \in Phase
  BY <1>3 DEF Condition, Complete, HasComment, DiscoveryApproved, PreflightDone
<1>5. c.of # "complete"
  <2> SUFFICES ASSUME c.of = "complete", c.phase < k PROVE FALSE
    BY <1>2
  <2>1. c.phase < now
    BY <1>4 DEF Phase
  <2>2. Unfinished(wf, view, c.phase) = {}
    BY <1>4, <2>1 DEF CurrentPhase
  <2> QED BY <1>3, <2>2 DEF Unfinished, Satisfied
<1>6. c.of # "preflight"
  BY <1>2, <1>3 DEF Satisfied, AllWaiting, view
<1>7. PICK t \in TasksOf(wf, c.phase) : TRUE
  BY <1>2, <1>3, <1>5, <1>6 DEF Satisfied
<1>8. t \in Task /\ wf.phaseOf[t] = c.phase /\ <<t, c.tag>> \notin said
  BY <1>2, <1>3, <1>5, <1>6 DEF TasksOf, Satisfied, view
<1>9. /\ c.tag \in Tag
      /\ c \in {HasComment(c.phase, c.tag), DiscoveryApproved(c.phase, c.tag)}
  BY <1>2, <1>3, <1>5, <1>6 DEF Condition, Complete, HasComment, DiscoveryApproved, PreflightDone
<1> QED BY <1>8, <1>9 DEF LooksFor

\* In the current phase there is something to claim, to override or to say.
LEMMA CurrentPhaseGoesOn ==
  ASSUME Types, WellPlanned(wf), AllWaiting, NEW now \in Phase, CurrentPhase(wf, view, now)
  PROVE  \E t \in Task :
           \/ Recommended(t) /\ AdmittedWithPack(t, FALSE)
           \/ Overridable(t) /\ AdmittedWithPack(t, TRUE)
           \/ \E g \in Tag : Missing(t, g)
<1>1. PICK t \in Task : wf.phaseOf[t] = now /\ Eligible(t, FALSE)
  BY SomeTaskEligible
<1>2. ~Reviewing
  BY DEF Reviewing, AllWaiting
<1>3. ASSUME NEW u \in Task, Eligible(u, FALSE)
      PROVE  /\ wf.phaseOf[u] = now /\ Claimable(u) /\ u \notin ux \ preflighted
             /\ GateOpen(u) <=> GateOpen(t)
             /\ \A k \in Phase : GateShut(u, k) <=> GateShut(t, k)
  <2>1. wf.phaseOf[u] = now
    BY <1>3, OnePhaseAtATime DEF Eligible, InFocus, CurrentPhase
  <2>2. Claimable(u) /\ u \notin ux \ preflighted
    BY <1>3 DEF Eligible, Claimable, AllWaiting, Types
  <2> QED BY <1>1, <2>1, <2>2, SameGates
<1>4. ASSUME NEW u \in Task, NEW strict \in BOOLEAN,
             Selected(u, strict, FALSE) \/ Fallback(u, strict, FALSE)
      PROVE  Eligible(u, FALSE)
  BY <1>4 DEF Selected, Ends, Fallback
<1>5. CASE GateOpen(t)
  <2>1. PICK u \in Task : Selected(u, FALSE, FALSE) \/ Fallback(u, FALSE, FALSE)
    BY <1>1, <1>5, LoopFinds
  <2>2. Eligible(u, FALSE) /\ GateOpen(u)
    BY <1>3, <1>4, <1>5, <2>1
  <2>3. ~Stops(u, FALSE)
    BY <2>2 DEF Stops, GateOpen, GateShut, CanProceed, BlockedBy
  <2>4. SaysWork(u, FALSE, FALSE)
    BY <1>2, <2>1, <2>3 DEF SaysWork, Selected, Ends
  <2>5. Recommended(u) /\ AdmittedWithPack(u, FALSE)
    BY <1>3, <2>2, <2>4 DEF Recommended, AdmittedWithPack, UxReady
  <2> QED BY <2>5
<1>6. CASE ~GateOpen(t)
  <2>1. PICK k \in Phase : GateShut(t, k)
    BY <1>6, FirstShutGate
  <2>2. ASSUME NEW strict \in BOOLEAN, strict \/ Hard(k)
        PROVE  \E u \in Task : Eligible(u, FALSE) /\ SaysGate(u, k, strict, FALSE)
    <3>1. Stops(t, strict)
      BY <2>1, <2>2 DEF Stops
    <3>2. PICK u \in Task : Selected(u, strict, FALSE) \/ Fallback(u, strict, FALSE)
      BY <1>1, <3>1, LoopFinds
    <3>3. Eligible(u, FALSE) /\ GateShut(u, k) /\ ~GateOpen(u)
      BY <1>3, <1>4, <1>6, <2>1, <3>2
    <3>4. Selected(u, strict, FALSE)
      BY <3>2, <3>3 DEF Fallback
    <3> QED BY <1>2, <3>3, <3>4 DEF SaysGate
  <2>3. CASE ~Hard(k)
    <3>1. PICK u \in Task : Eligible(u, FALSE) /\ SaysGate(u, k, TRUE, FALSE)
      BY <2>2
    <3>2. Overridable(u)
      BY <2>3, <3>1 DEF Overridable
    <3>3. AdmittedWithPack(u, TRUE)
      BY <1>3, <2>1, <2>3, <3>1 DEF AdmittedWithPack, UxReady
    <3> QED BY <3>2, <3>3
  <2>4. CASE Hard(k)
    <3>1. PICK u \in Task : SaysGate(u, k, FALSE, FALSE)
      BY <2>2, <2>4
    <3>2. k <= now /\ ~EvaluateGate(wf, view, k)
      BY <1>1, <2>1 DEF GateShut, BlockedBy, GatesBefore, Phase
    <3>3. PICK v \in Task, g \in Tag : LooksFor(k, v, g) /\ <<v, g>> \notin said
      BY <2>4, <3>2, HardGateCanBeAnswered
    <3>4. Missing(v, g)
      BY <3>1, <3>3 DEF Missing
    <3> QED BY <3>4
  <2> QED BY <2>3, <2>4
<1> QED BY <1>5, <1>6

(* Tasks that the workflow knows no phase for, once the others are closed. *)
LEMMA RestGoesOn ==
  ASSUME Types, WellPlanned(wf), AllWaiting, OpenTasks # {},
         \A k \in Phase : ~CurrentPhase(wf, view, k)
  PROVE  \E t \in Task : Recommended(t) /\ AdmittedWithPack(t, FALSE)
<1> DEFINE L == {k \in Phase : Unfinished(wf, view, k) # {}}
<1>1. L = {}
  <2> SUFFICES ASSUME L # {} PROVE FALSE
    OBVIOUS
  <2>1. L \subseteq Nat
    BY DEF Phase
  <2>2. PICK k \in L : \A j \in L : k <= j
    BY <2>1, LeastElement
  <2>3. ASSUME NEW j \in Phase, j < k PROVE Unfinished(wf, view, j) = {}
    <3>1. ~(k <= j)
      BY <2>1, <2>2, <2>3 DEF Phase
    <3> QED BY <2>2, <3>1
  <2> QED BY <2>2, <2>3 DEF CurrentPhase
<1>2. ASSUME NEW t \in OpenTasks PROVE t \in Task /\ wf.phaseOf[t] = Unassigned /\ GateOpen(t)
  <2>1. t \in Task /\ wf.phaseOf[t] \notin Phase
    BY <1>1, <1>2 DEF OpenTasks, Unfinished, TasksOf, view
  <2>2. wf.phaseOf[t] = 0
    BY <2>1 DEF Types, Workflow, Unassigned
  <2>3. GatesBefore(0) = {}
    BY DEF GatesBefore, Phase
  <2> QED BY <2>1, <2>2, <2>3 DEF GateOpen, CanProceed, Unassigned
<1>3. PICK t \in OpenTasks : Deps[t] \cap OpenTasks = {}
  BY DEF WellPlanned, OpenTasks
<1>4. DepsDone(t)
  BY <1>2, <1>3 DEF DepsDone, OpenTasks, AllWaiting
<1>5. Eligible(t, TRUE)
  BY <1>3, <1>4 DEF Eligible, OpenTasks, AllWaiting
<1>6. PICK u \in Task : Selected(u, FALSE, TRUE) \/ Fallback(u, FALSE, TRUE)
  BY <1>2, <1>3, <1>5, LoopFinds
<1>7. Eligible(u, TRUE)
  BY <1>6 DEF Selected, Ends, Fallback
<1>8. GateOpen(u)
  BY <1>2, <1>7 DEF Eligible, OpenTasks
<1>9. ~Stops(u, FALSE)
  BY <1>8 DEF Stops, GateOpen, GateShut, CanProceed, BlockedBy
<1>10. SaysWork(u, FALSE, TRUE)
  BY <1>6, <1>9 DEF SaysWork, Selected, Ends, Reviewing, AllWaiting
<1>11. Recommended(u)
  BY <1>10 DEF Recommended
<1>12. AdmittedWithPack(u, FALSE)
  BY <1>7, <1>8 DEF AdmittedWithPack, UxReady, Claimable, Eligible, AllWaiting, Types, TypeOK
<1> QED BY <1>11, <1>12

(* Following pt next never comes to a halt before the project is done, for *)
(* every plan whose dependencies make sense and whose hard gates can be    *)
(* answered: the part of EventuallyFinished that needs no fairness.        *)
THEOREM ThereIsAlwaysANextStep == Spec => []NobodyIsStuck
<1>1. ASSUME Types PROVE NobodyIsStuck
  BY <1>1, CurrentPhaseGoesOn, RestGoesOn DEF NobodyIsStuck
<1> QED BY <1>1, TypesInvariant, PTL
-----------------------------------------------------------------------------
(* An expression means what the alternative it was compiled from means.    *)
LEMMA CompiledMeansTheSame ==
  ASSUME Types, NEW k \in Phase, NEW c \in wf.gate[k]
  PROVE  /\ Eval(wf, view, k, CompileGateExpr(k, c)) => Satisfied(wf, view, c)
         /\ c.of # "preflight" =>
              (Satisfied(wf, view, c) => Eval(wf, view, k, CompileGateExpr(k, c)))
<1>1. c \in Condition
  BY DEF Types, Workflow
<1>2. CASE c.of = "complete"
  BY <1>2 DEF CompileGateExpr, AllClosedExpr, PhaseCompleteExpr, Eval, AllClosed, Satisfied
<1>3. CASE c.of = "comment"
  BY <1>3 DEF CompileGateExpr, HasCommentExpr, PhaseHasCommentExpr, Eval, AnySaid, Satisfied
<1>4. CASE c.of = "approved"
  <2>1. c.phase = k
    BY <1>4 DEF Types
  <2>2. QED BY <1>4, <2>1 DEF CompileGateExpr, DiscoveryApprovedExpr, Eval, AnySaid, Satisfied
<1>5. CASE c.of = "preflight"
  BY <1>5 DEF CompileGateExpr, UnknownExpr, Eval
<1>6. QED
  BY <1>1, <1>2, <1>3, <1>4, <1>5
     DEF Condition, Complete, PreflightDone, HasComment, DiscoveryApproved

LEMMA GatesMeanTheSame ==
  ASSUME Types, NEW k \in Phase
  PROVE  /\ EvaluateGateV2(wf, view, k) => EvaluateGate(wf, view, k)
         /\ NoPreflightIn({k}) /\ EvaluateGate(wf, view, k) => EvaluateGateV2(wf, view, k)
BY CompiledMeansTheSame DEF EvaluateGateV2, EvaluateGate, NoPreflightIn

LEMMA GatesBeforeMeanTheSame ==
  ASSUME Types, NEW k, NoPreflightIn(GatesBefore(k))
  PROVE  \A j \in Phase : j \in ShutBeforeV2(wf, view, k)
                            <=> j \in GatesBefore(k) /\ ~EvaluateGate(wf, view, j)
<1> SUFFICES ASSUME NEW j \in GatesBefore(k)
             PROVE  EvaluateGateV2(wf, view, j) <=> EvaluateGate(wf, view, j)
  BY DEF ShutBeforeV2
<1>1. j \in Phase /\ NoPreflightIn({j})
  BY DEF GatesBefore, NoPreflightIn
<1>2. QED BY <1>1, GatesMeanTheSame

(* PT_ENGINE=v2 decides what the default engine decides, for every         *)
(* workflow file: it stops the same tasks at the same gates.               *)
THEOREM EnginesDecideAlike == Spec => []EnginesAgree
<1>1. ASSUME Types, NEW t \in Task, NoPreflightIn(GatesBefore(wf.phaseOf[t]))
      PROVE  /\ CanProceedV2(wf, view, t) <=> CanProceed(wf, view, t)
             /\ \A k \in Phase : BlockedByV2(wf, view, t, k) <=> BlockedBy(wf, view, t, k)
  <2> DEFINE before == GatesBefore(wf.phaseOf[t])
             shut == ShutBeforeV2(wf, view, wf.phaseOf[t])
  <2>1. shut \subseteq Phase /\ before \subseteq Phase /\ Phase \subseteq Nat
    BY DEF ShutBeforeV2, GatesBefore, Phase
  <2>2. \A j \in Phase : j \in shut <=> j \in before /\ ~EvaluateGate(wf, view, j)
    BY <1>1, GatesBeforeMeanTheSame
  <2>3. CanProceedV2(wf, view, t) <=> CanProceed(wf, view, t)
    BY <2>1, <2>2 DEF CanProceedV2, CanProceed
  <2>4. ASSUME NEW k \in Phase PROVE BlockedByV2(wf, view, t, k) <=> BlockedBy(wf, view, t, k)
    <3>1. (\A j \in shut : k <= j) <=> (\A j \in before : j < k => EvaluateGate(wf, view, j))
      <4>1. \A j \in Phase : k <= j <=> ~(j < k)
        BY <2>1
      <4>2. QED BY <2>1, <2>2, <4>1
    <3>2. QED BY <2>2, <3>1 DEF BlockedByV2, BlockedBy
  <2>5. QED BY <2>3, <2>4
<1>2. ASSUME Types, NEW k \in Phase, NoPreflightIn(GatesBefore(k))
      PROVE  PhaseBlockedV2(wf, view, k) <=> PhaseBlocked(wf, view, k)
  <2>1. ShutBeforeV2(wf, view, k) # {} <=> \E j \in GatesBefore(k) : ~EvaluateGate(wf, view, j)
    <3>1. ShutBeforeV2(wf, view, k) \subseteq Phase /\ GatesBefore(k) \subseteq Phase
      BY DEF ShutBeforeV2, GatesBefore
    <3>2. QED BY <1>2, <3>1, GatesBeforeMeanTheSame
  <2>2. (\E t \in TasksOf(wf, k) : view.status[t] # "closed") <=> Unfinished(wf, view, k) # {}
    BY DEF Unfinished
  <2>3. QED BY <2>1, <2>2 DEF PhaseBlockedV2, PhaseBlocked
<1>3. Types => EnginesAgree
  BY <1>1, <1>2, GatesMeanTheSame DEF EnginesAgree
<1>4. QED BY <1>3, TypesInvariant, PTL

(* pt ready, pt next, pt workflow next, pt workflow check and pt claim     *)
(* agree about dependencies, blocks, assignees and gates, whichever engine *)
(* the reports use; claim alone looks at grounding packs and preflights.   *)
THEOREM ReportsStayInAgreement == Spec => []ReportsAgree
<1>1. ASSUME Types, NEW t \in Task, CheckPasses(t, TRUE) PROVE GateOpen(t)
  <2> SUFFICES ASSUME NEW k \in GatesBefore(wf.phaseOf[t]) PROVE EvaluateGate(wf, view, k)
    BY DEF GateOpen, CanProceed
  <2>1. k \in Phase /\ EvaluateGateV2(wf, view, k)
    BY <1>1 DEF CheckPasses, CanProceedV2, ShutBeforeV2, GatesBefore
  <2>2. QED BY <2>1, GatesMeanTheSame, <1>1
<1>2. ASSUME Types, NEW t \in Task, NEW strict \in BOOLEAN, NEW all \in BOOLEAN,
             SaysWork(t, strict, all)
      PROVE  Listed(t, all, FALSE) /\ (t \in reserved \/ ShownFree(t, FALSE))
  <2>1. Eligible(t, all) /\ GateOpen(t)
    BY <1>2 DEF SaysWork, Selected, Ends, Fits, Fallback
  <2>2. QED BY <2>1 DEF Eligible, Listed, ShownFree, CheckPasses
<1>3. ASSUME Types, NEW t \in Task, NEW v2 \in BOOLEAN,
             Listed(t, TRUE, FALSE), ShownFree(t, v2), t \notin Wanting
      PROVE  Admitted(t, FALSE)
  <2>1. GateOpen(t)
    BY <1>1, <1>3 DEF ShownFree, CheckPasses
  <2>2. QED BY <1>3, <2>1
           DEF Listed, ShownFree, Admitted, AdmittedWithPack, Claimable, UxReady, Wanting
<1>4. ASSUME Types, NEW t \in Task, Names(t) PROVE CheckPasses(t, FALSE)
  <2>1. status[t] = "open" /\ wf.phaseOf[t] \in Phase /\ ~PhaseBlocked(wf, view, wf.phaseOf[t])
    BY <1>4 DEF Names, Unblocked
  <2>2. QED BY <1>4, <2>1, StatusAgreesWithClaim DEF CheckPasses
<1>5. ASSUME Types, SaysNoReadyTasks, NEW t \in OpenTasks, wf.phaseOf[t] \in Phase
      PROVE  ~CheckPasses(t, FALSE)
  <2> SUFFICES ASSUME CheckPasses(t, FALSE) PROVE FALSE
    OBVIOUS
  <2>1. t \in Task /\ status[t] = "open" /\ GateOpen(t)
    BY <1>5 DEF OpenTasks, CheckPasses
  <2>2. wf.phaseOf[t] \in Unblocked
    BY <1>5, <2>1, StatusAgreesWithClaim DEF Unblocked, TasksOf
  <2>3. Unblocked \subseteq Nat
    BY DEF Unblocked, Phase
  <2>4. PICK k \in Unblocked : \A j \in Unblocked : k <= j
    BY <2>2, <2>3, LeastElement
  <2>5. PICK u \in Task : status[u] = "open" /\ wf.phaseOf[u] = k
    BY DEF Unblocked, TasksOf
  <2>6. Names(u)
    BY <2>4, <2>5 DEF Names
  <2>7. QED BY <1>5, <2>6 DEF SaysNoReadyTasks
<1>6. Types => ReportsAgree
  <2> SUFFICES ASSUME Types PROVE ReportsAgree
    OBVIOUS
  <2>1. QED BY <1>2, <1>3, <1>4, <1>5 DEF ReportsAgree
<1>7. QED BY <1>6, TypesInvariant, PTL
-----------------------------------------------------------------------------
(* And it gets somewhere.  What is still to be done, if nothing is undone: *)
(* the chores of the tasks, and the remarks not yet made.                  *)
(* Writing the grounding pack drops the UX metadata: a preflight made      *)
(* before is made again, so such a task has two of them ahead of it.       *)
Chore == {"claim", "validate", "approve", "unassign", "unblock", "ground",
          "early preflight", "preflight"}

Preflighted(t) == t \in ux \cap preflighted

Pending(t) ==
  {c \in Chore : \/ c = "claim" /\ status[t] = "open"
                 \/ c = "validate" /\ status[t] \in {"open", "in_progress"}
                 \/ c = "approve" /\ status[t] # "closed"
                 \/ c = "unassign" /\ t \in reserved
                 \/ c = "unblock" /\ t \in blocked
                 \/ c = "ground" /\ t \in ungrounded
                 \/ c = "early preflight" /\ t \in UxTask \cap ungrounded /\ ~Preflighted(t)
                 \/ c = "preflight" /\ t \in UxTask /\ (t \in ungrounded \/ ~Preflighted(t))}

ToDo == {p \in Task \X Chore : p[2] \in Pending(p[1])}
Unsaid == (Task \X Tag) \ said
StepsLeft == Cardinality(ToDo) + Cardinality(Unsaid)

LessToDo ==
  /\ ToDo' \subseteq ToDo /\ Unsaid' \subseteq Unsaid
  /\ ToDo' # ToDo \/ Unsaid' # Unsaid

\* A chore of t is done, and no chore is added.
LEMMA ChoreDone ==
  ASSUME NEW t \in Task, NEW c \in Chore, c \in Pending(t), c \notin Pending(t)',
         \A u \in Task : Pending(u)' \subseteq Pending(u), said' = said
  PROVE  LessToDo
<1>1. <<t, c>> \in ToDo /\ <<t, c>> \notin ToDo'
  BY DEF ToDo
<1>2. ToDo' \subseteq ToDo
  BY DEF ToDo
<1> QED BY <1>1, <1>2 DEF LessToDo, Unsaid

\* A task moves on, and one chore the fewer is ahead of it.
LEMMA MoveOn ==
  ASSUME Types, NEW t \in Task, NEW from \in Statuses, NEW to \in Statuses, NEW c \in Chore,
         <<from, to, c>> \in {<<"open", "in_progress", "claim">>,
                              <<"in_progress", "needs_review", "validate">>,
                              <<"needs_review", "closed", "approve">>},
         status[t] = from, status' = [status EXCEPT ![t] = to],
         UNCHANGED <<reserved, blocked, said, ux, preflighted, ungrounded>>
  PROVE  LessToDo
<1>1. /\ status'[t] = to
      /\ \A u \in Task : u # t => status'[u] = status[u]
  BY DEF Types
<1>2. c \in Pending(t) /\ c \notin Pending(t)'
  BY <1>1 DEF Pending, Statuses
<1>3. ASSUME NEW u \in Task PROVE Pending(u)' \subseteq Pending(u)
  <2>1. CASE u = t
    BY <1>1, <2>1 DEF Pending, Preflighted, Statuses
  <2>2. CASE u # t
    BY <1>1, <2>2 DEF Pending, Preflighted
  <2> QED BY <2>1, <2>2
<1> QED BY <1>2, <1>3, ChoreDone

\* What is held up is let go of.
LEMMA LetGo ==
  ASSUME Types, NEW t \in Task, Unassign(t) \/ Unblock(t) \/ Preflight(t) \/ Ground(t)
  PROVE  LessToDo
<1>1. CASE Unassign(t)
  <2>1. "unassign" \in Pending(t) /\ "unassign" \notin Pending(t)'
    BY <1>1 DEF Unassign, Pending, Chore
  <2>2. \A u \in Task : Pending(u)' \subseteq Pending(u)
    BY <1>1 DEF Unassign, Pending, Preflighted
  <2> QED BY <1>1, <2>1, <2>2, ChoreDone DEF Unassign, Chore
<1>2. CASE Unblock(t)
  <2>1. "unblock" \in Pending(t) /\ "unblock" \notin Pending(t)'
    BY <1>2 DEF Unblock, Pending, Chore
  <2>2. \A u \in Task : Pending(u)' \subseteq Pending(u)
    BY <1>2 DEF Unblock, Pending, Preflighted
  <2> QED BY <1>2, <2>1, <2>2, ChoreDone DEF Unblock, Chore
<1>3. CASE Preflight(t)
  <2> DEFINE c == IF t \in ungrounded THEN "early preflight" ELSE "preflight"
  <2>1. c \in Chore /\ c \in Pending(t) /\ c \notin Pending(t)'
    BY <1>3 DEF Preflight, Preflighted, Pending, Chore
  <2>2. \A u \in Task : Pending(u)' \subseteq Pending(u)
    BY <1>3 DEF Preflight, Preflighted, Pending
  <2>3. said' = said
    BY <1>3 DEF Preflight
  <2> HIDE DEF c
  <2> QED BY <2>1, <2>2, <2>3, ChoreDone
<1>4. CASE Ground(t)
  <2>1. "ground" \in Pending(t) /\ "ground" \notin Pending(t)'
    BY <1>4 DEF Ground, Pending, Chore
  <2>2. \A u \in Task : Pending(u)' \subseteq Pending(u)
    BY <1>4 DEF Ground, Rebuilt, Preflighted, Pending
  <2> QED BY <1>4, <2>1, <2>2, ChoreDone DEF Ground, Chore
<1> QED BY <1>1, <1>2, <1>3, <1>4

LEMMA RemarkMade ==
  ASSUME Types, NEW t \in Task, NEW g \in Tag, Comment(t, g) PROVE LessToDo
<1>1. ToDo' = ToDo
  BY DEF Comment, ToDo, Pending, Preflighted
<1>2. <<t, g>> \in Unsaid /\ <<t, g>> \notin Unsaid' /\ Unsaid' \subseteq Unsaid
  BY DEF Comment, Unsaid
<1> QED BY <1>1, <1>2 DEF LessToDo

LEMMA StepMakesProgress ==
  ASSUME Types, NEW t \in Task,
         \/ Claim(t) \/ ClaimOverriding(t)
         \/ Validate(t) \/ Approve(t) \/ Reject(t) \/ Release(t) \/ Reopen(t)
         \/ Assign(t) \/ Unassign(t) \/ Edit(t) \/ Block(t) \/ Unblock(t) \/ Preflight(t)
         \/ Ground(t) \/ Unground(t)
         \/ \E g \in Tag : Comment(t, g)
  PROVE  setbacks' = setbacks + 1 \/ (setbacks' = setbacks /\ LessToDo)
<1>1. CASE Reject(t) \/ Release(t) \/ Reopen(t) \/ Assign(t) \/ Edit(t) \/ Block(t) \/ Unground(t)
  BY <1>1 DEF Reject, Release, Reopen, Assign, Edit, Block, Unground, Setback
<1>2. CASE Claim(t) \/ ClaimOverriding(t)
  <2>1. /\ status[t] = "open" /\ status' = [status EXCEPT ![t] = "in_progress"]
        /\ UNCHANGED <<reserved, blocked, said, ux, preflighted, ungrounded, setbacks>>
    BY <1>2 DEF Claim, ClaimOverriding, Admitted, AdmittedWithPack, Claimable
  <2> QED BY <2>1, MoveOn DEF Statuses, Chore
<1>3. CASE Validate(t)
  BY <1>3, MoveOn DEF Validate, Move, Statuses, Chore
<1>4. CASE Approve(t)
  BY <1>4, MoveOn DEF Approve, Move, Statuses, Chore
<1>5. CASE Unassign(t) \/ Unblock(t) \/ Preflight(t) \/ Ground(t)
  BY <1>5, LetGo DEF Unassign, Unblock, Preflight, Ground
<1>6. CASE \E g \in Tag : Comment(t, g)
  BY <1>6, RemarkMade DEF Comment
<1> QED BY <1>1, <1>2, <1>3, <1>4, <1>5, <1>6

(* No command but the setbacks, which a person has to want, adds to what   *)
(* is left to do, and every other one takes something away: so nobody goes *)
(* round in circles, whatever the commands and their order.                *)
THEOREM EveryStepGetsSomewhere ==
  Spec => [][setbacks' = setbacks + 1 \/ (setbacks' = setbacks /\ LessToDo)]_vars
<1>1. ASSUME Types, Next PROVE setbacks' = setbacks + 1 \/ (setbacks' = setbacks /\ LessToDo)
  BY <1>1, StepMakesProgress DEF Next
<1> QED BY <1>1, TypesInvariant, PTL DEF Spec

(* With finitely many tasks and remarks, the number of steps left counts   *)
(* down: the other half of EventuallyFinished that needs no fairness.      *)
THEOREM StepsLeftCountDown ==
  ASSUME IsFiniteSet(Task), IsFiniteSet(Tag)
  PROVE  Spec => [][/\ StepsLeft \in Nat
                    /\ setbacks' = setbacks + 1
                         \/ (setbacks' = setbacks /\ StepsLeft' < StepsLeft)]_vars
<1>1. IsFiniteSet(Task \X Chore) /\ IsFiniteSet(Task \X Tag)
  <2>1. ASSUME NEW a, NEW b PROVE IsFiniteSet({a} \cup {b})
    BY FS_Singleton, FS_Union
  <2>2. Chore = (({"claim"} \cup {"validate"}) \cup ({"approve"} \cup {"unassign"}))
                  \cup (({"unblock"} \cup {"ground"}) \cup ({"early preflight"} \cup {"preflight"}))
    BY DEF Chore
  <2>3. IsFiniteSet(Chore)
    BY <2>1, <2>2, FS_Union
  <2> QED BY <2>3, FS_Product
<1>2. /\ IsFiniteSet(ToDo) /\ IsFiniteSet(Unsaid)
      /\ Cardinality(ToDo) \in Nat /\ Cardinality(Unsaid) \in Nat
  <2>1. ToDo \subseteq Task \X Chore /\ Unsaid \subseteq Task \X Tag
    BY DEF ToDo, Unsaid
  <2> QED BY <1>1, <2>1, FS_Subset, FS_CardinalityType
<1>3. ASSUME LessToDo PROVE StepsLeft' < StepsLeft
  <2>1. /\ Cardinality(ToDo') <= Cardinality(ToDo)
        /\ Cardinality(Unsaid') <= Cardinality(Unsaid)
        /\ Cardinality(ToDo') \in Nat /\ Cardinality(Unsaid') \in Nat
    <3>1. IsFiniteSet(ToDo') /\ IsFiniteSet(Unsaid')
      BY <1>2, <1>3, FS_Subset DEF LessToDo
    <3> QED BY <1>2, <1>3, <3>1, FS_Subset, FS_CardinalityType DEF LessToDo
  <2>2. Cardinality(ToDo') < Cardinality(ToDo) \/ Cardinality(Unsaid') < Cardinality(Unsaid)
    BY <1>2, <1>3, <2>1, FS_Subset DEF LessToDo
  <2>3. StepsLeft' = Cardinality(ToDo') + Cardinality(Unsaid')
    BY DEF StepsLeft
  <2> QED BY <1>2, <2>1, <2>2, <2>3 DEF StepsLeft
<1>4. StepsLeft \in Nat
  BY <1>2 DEF StepsLeft
<1> QED BY <1>3, <1>4, EveryStepGetsSomewhere, PTL
-----------------------------------------------------------------------------
(* The one-step commands of Conductor are those that Transitioner takes    *)
(* apart: an owner is left out here, but whether there is one is not.      *)
Owner(s, r) == [t \in Task |-> IF s[t] # "open" \/ t \in r THEN "somebody" ELSE "nobody"]

Lifecycle ==
  INSTANCE TaskLifecycle
    WITH Actor <- {"somebody"}, Nobody <- "nobody", owner <- Owner(status, reserved)

\* TaskLifecycle's Become, for the owner that Owner says t has.
Becomes(t, s, o) ==
  /\ status' = [status EXCEPT ![t] = s]
  /\ Owner(status', reserved') = [Owner(status, reserved) EXCEPT ![t] = o]

(* A task has an owner afterwards when it is in hand or reserved.          *)
LEMMA OwnerFollows ==
  ASSUME Types, NEW t \in Task, NEW s \in Statuses,
         status' = [status EXCEPT ![t] = s],
         \A u \in Task \ {t} : u \in reserved' <=> u \in reserved
  PROVE  /\ s # "open" \/ t \in reserved' => Becomes(t, s, "somebody")
         /\ ~(s # "open" \/ t \in reserved') => Becomes(t, s, "nobody")
BY DEF Types, Owner, Becomes

LEMMA MovesFollowLifecycle ==
  ASSUME Types, NEW t \in Task,
         \/ Claim(t) \/ ClaimOverriding(t)
         \/ Validate(t) \/ Approve(t) \/ Reject(t) \/ Release(t) \/ Reopen(t)
  PROVE  Lifecycle!Next
<1> DEFINE own == Owner(status, reserved)[t]
<1>1. ASSUME NEW s \in Statuses, status' = [status EXCEPT ![t] = s], reserved' = reserved
      PROVE  /\ s # "open" => Becomes(t, s, "somebody")
             /\ s = "open" /\ t \notin reserved => Becomes(t, s, "nobody")
  BY <1>1, OwnerFollows
<1>2. status[t] # "open" => t \notin reserved /\ own = "somebody"
  BY DEF Types, Owner
<1> HIDE DEF own
<1>3. CASE Claim(t) \/ ClaimOverriding(t)
  <2>1. /\ status[t] = "open" /\ t \notin reserved /\ DepsDone(t)
        /\ status' = [status EXCEPT ![t] = "in_progress"] /\ reserved' = reserved
    BY <1>3 DEF Claim, ClaimOverriding, Admitted, AdmittedWithPack, Claimable
  <2>2. Becomes(t, "in_progress", "somebody")
    BY <1>1, <2>1 DEF Statuses
  <2>3. Lifecycle!DepsClosed(t)
    BY <2>1 DEF DepsDone, Lifecycle!DepsClosed
  <2>4. Lifecycle!Claim(t, "somebody")
    BY <2>1, <2>2, <2>3 DEF Owner, Lifecycle!Claim, Becomes, Lifecycle!Become
  <2> QED BY <2>4 DEF Lifecycle!Next
<1>4. CASE Validate(t)
  <2>1. status[t] = "in_progress" /\ Becomes(t, "needs_review", own)
    BY <1>1, <1>2, <1>4 DEF Validate, Move, Statuses
  <2>2. Lifecycle!Submit(t)
    BY <2>1 DEF Lifecycle!Submit, Becomes, own, Lifecycle!Become
  <2> QED BY <2>2 DEF Lifecycle!Next
<1>5. CASE Approve(t)
  <2>1. status[t] = "needs_review" /\ Becomes(t, "closed", own)
    BY <1>1, <1>2, <1>5 DEF Approve, Move, Statuses
  <2>2. Lifecycle!Approve(t)
    BY <2>1 DEF Lifecycle!Approve, Becomes, own, Lifecycle!Become
  <2> QED BY <2>2 DEF Lifecycle!Next
<1>6. CASE Reject(t)
  <2>1. status[t] = "needs_review" /\ Becomes(t, "in_progress", own)
    BY <1>1, <1>2, <1>6 DEF Reject, Move, Statuses
  <2>2. Lifecycle!Reject(t)
    BY <2>1 DEF Lifecycle!Reject, Becomes, own, Lifecycle!Become
  <2> QED BY <2>2 DEF Lifecycle!Next
<1>7. CASE Release(t)
  <2>1. status[t] = "in_progress" /\ Becomes(t, "open", "nobody")
    BY <1>1, <1>2, <1>7 DEF Release, Move, Statuses
  <2>2. Lifecycle!Release(t)
    BY <2>1 DEF Lifecycle!Release, Becomes, own, Lifecycle!Become
  <2> QED BY <2>2 DEF Lifecycle!Next
<1>8. CASE Reopen(t)
  <2>1. status[t] = "closed" /\ Becomes(t, "in_progress", "somebody")
    BY <1>1, <1>2, <1>8 DEF Reopen, Move, Statuses
  <2>2. Lifecycle!Reopen(t, "somebody")
    BY <2>1 DEF Lifecycle!Reopen, Becomes, own, Lifecycle!Become
  <2> QED BY <2>2 DEF Lifecycle!Next
<1> QED BY <1>3, <1>4, <1>5, <1>6, <1>7, <1>8

LEMMA ReservationsFollowLifecycle ==
  ASSUME Types, NEW t \in Task, Assign(t) \/ Unassign(t)
  PROVE  Lifecycle!Next
<1>1. PICK o \in {"somebody", "nobody"} : Becomes(t, status[t], o)
  <2>1. /\ status[t] \in Statuses /\ status' = [status EXCEPT ![t] = status[t]]
        /\ \A u \in Task \ {t} : u \in reserved' <=> u \in reserved
    BY DEF Types, Assign, Unassign
  <2> QED BY <2>1, OwnerFollows
<1>2. Lifecycle!Reassign(t, o)
  BY <1>1 DEF Lifecycle!Reassign, Lifecycle!Become, Becomes
<1> QED BY <1>2 DEF Lifecycle!Next

(* Seen task by task the conducted project goes through the promised       *)
(* lifecycle, by whatever way a claim got past the gates: overrides,       *)
(* preflights, blocks and edits add conditions and take none away.         *)
THEOREM ConductorImplementsLifecycle == Spec => Lifecycle!Spec
<1>1. Init => Lifecycle!Init
  BY DEF Init, Lifecycle!Init, Owner
<1>2. Types /\ [Next]_vars => [Lifecycle!Next]_(Lifecycle!lifecycle)
  <2> SUFFICES ASSUME Types, [Next]_vars PROVE [Lifecycle!Next]_(Lifecycle!lifecycle)
    OBVIOUS
  <2>1. ASSUME UNCHANGED <<status, reserved>> PROVE UNCHANGED Lifecycle!lifecycle
    BY <2>1 DEF Lifecycle!lifecycle
  <2>2. CASE UNCHANGED vars
    BY <2>1, <2>2 DEF vars, store
  <2>3. ASSUME NEW t \in Task,
               \/ Edit(t) \/ Ground(t) \/ Unground(t) \/ Block(t) \/ Unblock(t) \/ Preflight(t)
               \/ \E g \in Tag : Comment(t, g)
        PROVE  UNCHANGED <<status, reserved>>
    BY <2>3 DEF Edit, Ground, Unground, Rebuilt, Block, Unblock, Preflight, Comment
  <2> QED BY <2>1, <2>2, <2>3, MovesFollowLifecycle, ReservationsFollowLifecycle DEF Next
<1> QED BY <1>1, <1>2, TypesInvariant, PTL DEF Spec, Lifecycle!Spec
=============================================================================
