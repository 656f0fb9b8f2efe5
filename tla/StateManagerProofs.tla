------------------------- MODULE StateManagerProofs -------------------------
(***************************************************************************)
(* The in-memory task machine, for every task graph and every set of       *)
(* actors: its invariants, and that it implements TaskLifecycle.           *)
(***************************************************************************)
EXTENDS StateManager, TLAPS

USE ManagerAssumption

(* A dependency is never "more done" after a step than before it, unless   *)
(* the step is Complete: the only writer of "done".                        *)
LEMMA DepsDoneMonotone ==
  ASSUME NEW u \in Task, DepsDone(status', u),
         \A d \in Task : status'[d] = "done" => status[d] = "done"
  PROVE  DepsDone(status, u)
BY DEF DepsDone

(* The statuses and assignees stay in their ranges whatever sequence of    *)
(* methods the callers of state_manager.go invoke.                         *)
THEOREM TypeCorrect == Spec => []TypeOK
<1>1. Init => TypeOK
  BY DEF Init, TypeOK, Status
<1>2. TypeOK /\ [Next]_manager => TypeOK'
  <2> SUFFICES ASSUME TypeOK, [Next]_manager PROVE TypeOK'
    OBVIOUS
  <2>0. CASE UNCHANGED manager
    BY <2>0 DEF TypeOK, manager
  <2> USE DEF TypeOK, Status
  <2>1. ASSUME NEW t \in Task, NEW a \in Actor, Claim(t, a) PROVE TypeOK'
    BY <2>1 DEF Claim
  <2>2. ASSUME NEW t \in Task, NEW a \in Actor, Release(t, a) PROVE TypeOK'
    BY <2>2 DEF Release
  <2>3. ASSUME NEW t \in Task, MarkNeedsReview(t) PROVE TypeOK'
    BY <2>3 DEF MarkNeedsReview
  <2>4. ASSUME NEW t \in Task, Reject(t) PROVE TypeOK'
    BY <2>4 DEF Reject
  <2>5. ASSUME NEW t \in Task, Complete(t) PROVE TypeOK'
    BY <2>5 DEF Complete, Unlocked
  <2>6. ASSUME NEW t \in Task, NEW a \in Actor \cup {Nobody}, Reopen(t, a)
        PROVE  TypeOK'
    BY <2>6 DEF Reopen
  <2>7. QED BY <2>0, <2>1, <2>2, <2>3, <2>4, <2>5, <2>6 DEF Next
<1>3. QED BY <1>1, <1>2, PTL DEF Spec

(* No order of completions and reopenings strands a task in "planned":     *)
(* whenever the last of its dependencies is done, Complete's loop has made *)
(* it ready.                                                               *)
THEOREM NoStrandedTask == Spec => []PlannedWaitsForSomething
<1>1. Init => PlannedWaitsForSomething
  BY DEF Init, PlannedWaitsForSomething, DepsDone
<1>2. TypeOK /\ PlannedWaitsForSomething /\ [Next]_manager => PlannedWaitsForSomething'
  <2> SUFFICES ASSUME TypeOK, PlannedWaitsForSomething, [Next]_manager,
                      NEW u \in Task, status'[u] = "planned"
               PROVE  ~ DepsDone(status', u)
    BY DEF PlannedWaitsForSomething
  <2>0. CASE UNCHANGED manager
    BY <2>0 DEF PlannedWaitsForSomething, manager
  <2>1. SUFFICES ASSUME NEW t \in Task, ~ Complete(t),
                        \/ \E a \in Actor : Claim(t, a) \/ Release(t, a)
                        \/ MarkNeedsReview(t) \/ Reject(t)
                        \/ \E a \in Actor \cup {Nobody} : Reopen(t, a)
                 PROVE  ~ DepsDone(status', u)
    <3>1. ASSUME NEW t \in Task, Complete(t) PROVE ~ DepsDone(status', u)
      <4> DEFINE st == [status EXCEPT ![t] = "done"]
      <4>1. status' = Unlocked(st)
        BY <3>1 DEF Complete
      <4>2. st[u] = "planned" /\ ~ DepsDone(st, u)
        BY <4>1 DEF Unlocked
      <4>3. \A d \in Task : status'[d] = "done" => st[d] = "done"
        BY <4>1 DEF Unlocked
      <4>4. QED BY <4>2, <4>3 DEF DepsDone
    <3>2. QED BY <2>0, <2>1, <3>1 DEF Next
  <2>2. status[u] = "planned"
    BY <2>1 DEF TypeOK, Claim, Release, MarkNeedsReview, Reject, Reopen
  <2>3. \A d \in Task : status'[d] = "done" => status[d] = "done"
    BY <2>1 DEF TypeOK, Claim, Release, MarkNeedsReview, Reject, Reopen
  <2>4. QED BY <2>2, <2>3, DepsDoneMonotone DEF PlannedWaitsForSomething
<1>3. QED BY <1>1, <1>2, TypeCorrect, PTL DEF Spec

(* Between claim and release somebody answers for the task, through        *)
(* rejections, approvals and reopenings.                                   *)
THEOREM OwnedWork == Spec => []WorkHasOwner
<1>1. Init => WorkHasOwner
  BY DEF Init, WorkHasOwner
<1>2. TypeOK /\ WorkHasOwner /\ [Next]_manager => WorkHasOwner'
  <2> SUFFICES ASSUME TypeOK, WorkHasOwner, [Next]_manager PROVE WorkHasOwner'
    OBVIOUS
  <2>0. CASE UNCHANGED manager
    BY <2>0 DEF WorkHasOwner, manager
  <2> USE DEF TypeOK, WorkHasOwner
  <2>1. ASSUME NEW t \in Task, NEW a \in Actor, Claim(t, a) PROVE WorkHasOwner'
    BY <2>1 DEF Claim
  <2>2. ASSUME NEW t \in Task, NEW a \in Actor, Release(t, a) PROVE WorkHasOwner'
    BY <2>2 DEF Release
  <2>3. ASSUME NEW t \in Task, MarkNeedsReview(t) PROVE WorkHasOwner'
    BY <2>3 DEF MarkNeedsReview
  <2>4. ASSUME NEW t \in Task, Reject(t) PROVE WorkHasOwner'
    BY <2>4 DEF Reject
  <2>5. ASSUME NEW t \in Task, Complete(t) PROVE WorkHasOwner'
    BY <2>5 DEF Complete, Unlocked
  <2>6. ASSUME NEW t \in Task, NEW a \in Actor \cup {Nobody}, Reopen(t, a)
        PROVE  WorkHasOwner'
    BY <2>6 DEF Reopen
  <2>7. QED BY <2>0, <2>1, <2>2, <2>3, <2>4, <2>5, <2>6 DEF Next
<1>3. QED BY <1>1, <1>2, TypeCorrect, PTL DEF Spec
-----------------------------------------------------------------------------
(* Unlocking dependents is invisible through the refinement mapping: both  *)
(* planned and ready are "open".                                           *)
LEMMA UnlockedIsInvisible ==
  ASSUME NEW st, NEW t \in Task
  PROVE  StoreStatus(Unlocked(st)[t]) = StoreStatus(st[t])
BY DEF StoreStatus, Unlocked

(* The in-memory machine goes through the promised lifecycle only; reading *)
(* WorkHasOwner, a reopened task always has an owner.                      *)
THEOREM ManagerImplementsLifecycle == Spec => ImplementsLifecycle
<1> DEFINE bar == [t \in Task |-> StoreStatus(status[t])]
<1>1. Init => Lifecycle!Init
  BY DEF Init, Lifecycle!Init, StoreStatus
<1>2. TypeOK /\ WorkHasOwner /\ [Next]_manager => [Lifecycle!Next]_(Lifecycle!lifecycle)
  <2> SUFFICES ASSUME TypeOK, WorkHasOwner, [Next]_manager
               PROVE  [Lifecycle!Next]_(Lifecycle!lifecycle)
    OBVIOUS
  <2>0. CASE UNCHANGED manager
    BY <2>0 DEF manager, Lifecycle!lifecycle
  <2> USE DEF TypeOK, Lifecycle!Become, Lifecycle!Next
  <2>1. ASSUME NEW t \in Task, NEW a \in Actor, Claim(t, a) PROVE Lifecycle!Next
    <3>1. bar[t] = "open" /\ bar' = [bar EXCEPT ![t] = "in_progress"]
      BY <2>1 DEF Claim, Ready, StoreStatus
    <3>2. Lifecycle!DepsClosed(t)
      BY <2>1 DEF Claim, Ready, DepsDone, StoreStatus, Lifecycle!DepsClosed
    <3>3. QED BY <2>1, <3>1, <3>2 DEF Claim, Lifecycle!Claim
  <2>2. ASSUME NEW t \in Task, NEW a \in Actor, Release(t, a) PROVE Lifecycle!Next
    <3>1. bar[t] = "in_progress" /\ bar' = [bar EXCEPT ![t] = "open"]
      BY <2>2 DEF Release, StoreStatus
    <3>2. QED BY <2>2, <3>1 DEF Release, Lifecycle!Release
  <2>3. ASSUME NEW t \in Task, MarkNeedsReview(t) PROVE Lifecycle!Next
    <3>1. bar[t] = "in_progress" /\ bar' = [bar EXCEPT ![t] = "needs_review"]
      BY <2>3 DEF MarkNeedsReview, StoreStatus
    <3>2. QED BY <2>3, <3>1 DEF MarkNeedsReview, Lifecycle!Submit
  <2>4. ASSUME NEW t \in Task, Reject(t) PROVE Lifecycle!Next
    <3>1. bar[t] = "needs_review" /\ bar' = [bar EXCEPT ![t] = "in_progress"]
      BY <2>4 DEF Reject, StoreStatus
    <3>2. QED BY <2>4, <3>1 DEF Reject, Lifecycle!Reject
  <2>5. ASSUME NEW t \in Task, Complete(t) PROVE Lifecycle!Next
    <3> DEFINE st == [status EXCEPT ![t] = "done"]
    <3>1. status' = Unlocked(st) /\ status[t] = "needs_review"
      BY <2>5 DEF Complete
    <3>2. \A u \in Task : StoreStatus(status'[u]) = StoreStatus(st[u])
      BY <3>1, UnlockedIsInvisible
    <3>3. bar' = [u \in Task |-> StoreStatus(st[u])]
      BY <3>2
    <3>4. bar[t] = "needs_review" /\ bar' = [bar EXCEPT ![t] = "closed"]
      BY <3>1, <3>3 DEF StoreStatus
    <3>5. QED BY <2>5, <3>4 DEF Complete, Lifecycle!Approve
  <2>6. ASSUME NEW t \in Task, NEW a \in Actor \cup {Nobody}, Reopen(t, a)
        PROVE  Lifecycle!Next
    <3>1. bar[t] = "closed" /\ bar' = [bar EXCEPT ![t] = "in_progress"]
      BY <2>6 DEF Reopen, StoreStatus
    <3>2. PICK o \in Actor : assignee' = [assignee EXCEPT ![t] = o]
      BY <2>6 DEF Reopen, WorkHasOwner
    <3>3. QED BY <3>1, <3>2 DEF Lifecycle!Reopen
  <2>7. QED BY <2>0, <2>1, <2>2, <2>3, <2>4, <2>5, <2>6 DEF Next
<1>3. QED
  BY <1>1, <1>2, TypeCorrect, OwnedWork, PTL DEF Spec, ImplementsLifecycle, Lifecycle!Spec
=============================================================================
