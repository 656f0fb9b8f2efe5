------------------------- MODULE TransitionerProofs -------------------------
(***************************************************************************)
(* The lifecycle commands on the store file, for every number of tasks,    *)
(* actors and processes.  TypeOK holds in both regimes.  In the single-    *)
(* writer regime (Exclusive) no transition is lost, whoever was told that  *)
(* a task is theirs owns it in the file, and the file goes through the     *)
(* promised lifecycle with the evidence it asks for, in spite of crashes   *)
(* and of failing writes at every point.  Without that regime the file     *)
(* still never shows what the lifecycle could not have reached.            *)
(***************************************************************************)
EXTENDS Transitioner, TLAPS

USE TransitionerAssumption
-----------------------------------------------------------------------------
(* The store calls.                                                        *)

LEMMA WithStatusType ==
  ASSUME NEW c \in Command, NEW db \in Db
  PROVE  WithStatus(c, db) \in Db
<1>1. TargetStatus(c, db) \in StoreStatus
  BY DEF TargetStatus, StoreStatus, Command, Kind, Db
<1>2. TargetAssignee(c, db) \in Actor \cup {Nobody}
  BY DEF TargetAssignee, Command, Kind, Db
<1>3. QED BY <1>1, <1>2 DEF WithStatus, UpdateIssue, Db, Command

(* UpdateIssue writes the row of its task and no other.                    *)
LEMMA WithStatusRows ==
  ASSUME NEW c \in Command, NEW db \in Db
  PROVE  /\ WithStatus(c, db).status = [db.status EXCEPT ![c.task] = TargetStatus(c, db)]
         /\ WithStatus(c, db).assignee = [db.assignee EXCEPT ![c.task] = TargetAssignee(c, db)]
BY DEF WithStatus, UpdateIssue, Db, Command

(* Label and comment writes leave every status and assignee alone.         *)
LEMMA TrailKeepsRows ==
  ASSUME NEW c \in Command, NEW db \in Db, NEW at \in {"labels", "note", "remark", "draft"}
  PROVE  /\ Written(c, at, db) \in Db
         /\ Written(c, at, db).status = db.status
         /\ Written(c, at, db).assignee = db.assignee
<1>1. ASSUME NEW ls \in SUBSET StateLabel
      PROVE  /\ AddLabels(db, c.task, ls) \in Db /\ RemoveLabels(db, c.task, ls) \in Db
             /\ AddLabels(db, c.task, ls).status = db.status
             /\ AddLabels(db, c.task, ls).assignee = db.assignee
             /\ RemoveLabels(db, c.task, ls).status = db.status
             /\ RemoveLabels(db, c.task, ls).assignee = db.assignee
  BY DEF AddLabels, RemoveLabels, Db, Command
<1>2. ASSUME NEW n \in Note
      PROVE  /\ AddComment(db, c.task, n) \in Db
             /\ AddComment(db, c.task, n).status = db.status
             /\ AddComment(db, c.task, n).assignee = db.assignee
  BY DEF AddComment, Db, Command
<1>3. CASE at = "labels"
  <2>1. {"claimed"} \in SUBSET StateLabel /\ {"needs_review"} \in SUBSET StateLabel
        /\ {"claimed", "needs_review"} \in SUBSET StateLabel
    BY DEF StateLabel
  <2>2. Written(c, at, db) = WithLabels(c, db)
    BY <1>3 DEF Written
  <2>3. \E ls \in SUBSET StateLabel :
           WithLabels(c, db) \in {AddLabels(db, c.task, ls), RemoveLabels(db, c.task, ls)}
    BY <2>1 DEF WithLabels
  <2>4. QED BY <1>1, <2>2, <2>3
<1>4. CASE at = "note"
  <2>1. \E n \in Note : Written(c, at, db) = AddComment(db, c.task, n)
    BY <1>4 DEF Written, WithNote, Note
  <2>2. QED BY <1>2, <2>1
<1>5. CASE at = "remark"
  BY <1>5 DEF Written
<1>6. CASE at = "draft"
  BY <1>1, <1>6 DEF Written, StateLabel
<1>7. QED BY <1>3, <1>4, <1>5, <1>6

LEMMA UndraftKeepsRows ==
  ASSUME NEW t \in Task, NEW db \in Db
  PROVE  /\ RemoveLabels(db, t, {"draft"}) \in Db
         /\ RemoveLabels(db, t, {"draft"}).status = db.status
         /\ RemoveLabels(db, t, {"draft"}).assignee = db.assignee
BY DEF RemoveLabels, Db

LEMMA AfterType ==
  ASSUME NEW c \in Command, NEW at \in {"status", "labels", "note", "remark", "draft"}
  PROVE  After(c, at) \in {"idle", "labels", "note", "remark", "draft"}
BY DEF After
-----------------------------------------------------------------------------
(* What every command has checked when it reaches its UpdateIssue call.    *)
Guard(c, db) ==
  /\ c.kind = "claim" => CanClaim(db, c.task)
  /\ c.kind = "release" => CanRelease(db, c.task, c.actor)
  /\ c.kind = "validate" => db.status[c.task] = "in_progress"
  /\ c.kind \in {"approve", "reject"} => db.status[c.task] = "needs_review"
  /\ c.kind = "reopen" => db.status[c.task] = "closed"

LEMMA StartIsBegin ==
  ASSUME NEW p \in Proc, Start(p)
  PROVE  \E c \in Command, first \in {"status", "undraft", "tests"} :
            /\ Begin(p, c, first)
            /\ first = "status" => Guard(c, disk)
            /\ first # "status" => c.kind = "validate"
<1> USE DEF Guard, CommandLine, Command, Kind, Option
<1>1. PICK t \in Task :
        \/ \E a \in Actor, o \in SUBSET Option : BeginClaim(p, t, a, o)
        \/ \E a \in Actor : BeginRelease(p, t, a)
        \/ BeginValidate(p, t)
        \/ \E o \in SUBSET {"remark"} : BeginApprove(p, t, o)
        \/ BeginReject(p, t)
        \/ \E a \in Actor : BeginReopen(p, t, a)
        \/ \E a \in Actor \cup {Nobody} : BeginAssign(p, t, a)
  BY DEF Start
<1>2. ASSUME NEW a \in Actor, NEW o \in SUBSET Option, BeginClaim(p, t, a, o)
      PROVE  Begin(p, CommandLine("claim", t, a, o), "status")
             /\ CommandLine("claim", t, a, o) \in Command
             /\ Guard(CommandLine("claim", t, a, o), disk)
  BY <1>2 DEF BeginClaim
<1>3. ASSUME NEW a \in Actor, BeginRelease(p, t, a)
      PROVE  Begin(p, CommandLine("release", t, a, {}), "status")
             /\ CommandLine("release", t, a, {}) \in Command
             /\ Guard(CommandLine("release", t, a, {}), disk)
  BY <1>3 DEF BeginRelease
<1>4. ASSUME BeginValidate(p, t)
      PROVE  \E first \in {"undraft", "tests"} :
                Begin(p, CommandLine("validate", t, Nobody, {}), first)
                /\ CommandLine("validate", t, Nobody, {}) \in Command
  BY <1>4 DEF BeginValidate
<1>5. ASSUME NEW o \in SUBSET {"remark"}, BeginApprove(p, t, o)
      PROVE  Begin(p, CommandLine("approve", t, Nobody, o), "status")
             /\ CommandLine("approve", t, Nobody, o) \in Command
             /\ Guard(CommandLine("approve", t, Nobody, o), disk)
  BY <1>5 DEF BeginApprove
<1>6. ASSUME BeginReject(p, t)
      PROVE  Begin(p, CommandLine("reject", t, Nobody, {}), "status")
             /\ CommandLine("reject", t, Nobody, {}) \in Command
             /\ Guard(CommandLine("reject", t, Nobody, {}), disk)
  BY <1>6 DEF BeginReject
<1>7. ASSUME NEW a \in Actor, BeginReopen(p, t, a)
      PROVE  Begin(p, CommandLine("reopen", t, a, {}), "status")
             /\ CommandLine("reopen", t, a, {}) \in Command
             /\ Guard(CommandLine("reopen", t, a, {}), disk)
  BY <1>7 DEF BeginReopen
<1>8. ASSUME NEW a \in Actor \cup {Nobody}, BeginAssign(p, t, a)
      PROVE  Begin(p, CommandLine("assign", t, a, {}), "status")
             /\ CommandLine("assign", t, a, {}) \in Command
             /\ Guard(CommandLine("assign", t, a, {}), disk)
  BY <1>8 DEF BeginAssign
<1>9. (CommandLine("validate", t, Nobody, {})).kind = "validate"
  OBVIOUS
<1> HIDE DEF Guard, CommandLine, Command
<1>10. QED BY <1>1, <1>2, <1>3, <1>4, <1>5, <1>6, <1>7, <1>8, <1>9
-----------------------------------------------------------------------------
(* Both regimes: every variable keeps its range, whatever processes race.  *)

LEMMA ExitTypes ==
  ASSUME TypeOK, NEW p \in Proc, Exit(p)
  PROVE  /\ pc' \in [Proc -> Step]
         /\ \A q \in Proc : pc'[q] # "idle" => cmd'[q] \in Command /\ mem'[q] \in Db
         /\ DOMAIN cmd' = Proc /\ DOMAIN mem' = Proc
BY DEF TypeOK, Exit, Step

LEMMA SucceedTypes ==
  ASSUME TypeOK, NEW p \in Proc, NEW c \in Command, NEW db, NEW db2, Succeed(p, c, db, db2)
  PROVE  /\ pc' \in [Proc -> Step]
         /\ \A q \in Proc : pc'[q] # "idle" => cmd'[q] \in Command /\ mem'[q] \in Db
         /\ DOMAIN cmd' = Proc /\ DOMAIN mem' = Proc
         /\ held' \in [Task -> SUBSET Actor] /\ torn' \subseteq Task
<1>1. Exit(p)
  BY DEF Succeed
<1>2. c.task \in Task /\ (c.kind \in {"claim", "reopen"} => c.actor \in Actor)
  BY DEF Command
<1>3. held' \in [Task -> SUBSET Actor]
  BY <1>2 DEF Succeed, TypeOK
<1>4. torn' \subseteq Task
  BY <1>2 DEF Succeed, TypeOK
<1>5. QED BY <1>1, <1>3, <1>4, ExitTypes

LEMMA ProceedTypes ==
  ASSUME TypeOK, NEW p \in Proc, NEW db \in Db, NEW db2, Proceed(p, db, db2),
         pc[p] \in {"labels", "note", "remark", "draft"}
  PROVE  /\ pc' \in [Proc -> Step]
         /\ \A q \in Proc : pc'[q] # "idle" => cmd'[q] \in Command /\ mem'[q] \in Db
         /\ DOMAIN cmd' = Proc /\ DOMAIN mem' = Proc
         /\ held' \in [Task -> SUBSET Actor] /\ torn' \subseteq Task
<1>1. cmd[p] \in Command
  BY DEF TypeOK
<1>2. CASE After(cmd[p], pc[p]) = "idle"
  BY <1>1, <1>2, SucceedTypes DEF Proceed
<1>3. CASE After(cmd[p], pc[p]) # "idle"
  <2>1. After(cmd[p], pc[p]) \in Step
    BY <1>1, AfterType DEF Step
  <2>2. QED BY <1>1, <1>3, <2>1 DEF Proceed, TypeOK
<1>4. QED BY <1>2, <1>3

(* The ranges hold for racing processes too: they are about shapes only.   *)
THEOREM TypeCorrect == Spec => []TypeOK
<1>1. Init => TypeOK
  BY DEF Init, TypeOK, Db, Row, StoreStatus, StateLabel, Note, Step
<1>2. TypeOK /\ [Next]_vars => TypeOK'
  <2> SUFFICES ASSUME TypeOK, [Next]_vars PROVE TypeOK'
    OBVIOUS
  <2>0. CASE UNCHANGED vars
    BY <2>0 DEF TypeOK, vars, aux
  <2>1. ASSUME NEW p \in Proc, Start(p) PROVE TypeOK'
    <3>1. PICK c \in Command, first \in {"status", "undraft", "tests"} : Begin(p, c, first)
      BY <2>1, StartIsBegin
    <3>2. QED BY <3>1 DEF Begin, TypeOK, Step, aux
  <2>2. ASSUME NEW p \in Proc, Undraft(p) PROVE TypeOK'
    <3>1. cmd[p] \in Command /\ mem[p] \in Db /\ cmd[p].task \in Task
      BY <2>2 DEF Undraft, TypeOK, Command
    <3>2. RemoveLabels(mem[p], cmd[p].task, {"draft"}) \in Db
      BY <3>1, UndraftKeepsRows
    <3>3. QED BY <2>2, <3>1, <3>2 DEF Undraft, TypeOK, Step, aux
  <2>3. ASSUME NEW p \in Proc, TestsPass(p) PROVE TypeOK'
    BY <2>3 DEF TestsPass, TypeOK, Step, aux
  <2>4. ASSUME NEW p \in Proc, TestsFail(p) PROVE TypeOK'
    BY <2>4, ExitTypes DEF TestsFail, TypeOK, aux
  <2>5. ASSUME NEW p \in Proc, SaveStatus(p) PROVE TypeOK'
    <3> DEFINE c == cmd[p]
               db == WithStatus(c, mem[p])
    <3>1. c \in Command /\ mem[p] \in Db /\ c.task \in Task
      BY <2>5 DEF SaveStatus, TypeOK, Command
    <3>2. db \in Db
      BY <3>1, WithStatusType
    <3>3. RowOf(db, c.task) \in Row
      BY <3>1, <3>2 DEF Db, RowOf, Row
    <3>4. disk' \in Db /\ last' \in [Task -> Row]
      BY <2>5, <3>1, <3>2, <3>3 DEF SaveStatus, TypeOK
    <3>5. held' \in [Task -> SUBSET Actor] /\ torn' \subseteq Task
      BY <2>5, <3>1 DEF SaveStatus, TypeOK
    <3>6. CASE c.kind = "assign"
      BY <2>5, <3>4, <3>5, <3>6, ExitTypes DEF SaveStatus, TypeOK
    <3>7. CASE c.kind # "assign"
      BY <2>5, <3>2, <3>4, <3>5, <3>7 DEF SaveStatus, TypeOK, Step
    <3>8. QED BY <3>6, <3>7
  <2>6. ASSUME NEW p \in Proc, SaveTrail(p) PROVE TypeOK'
    <3>1. cmd[p] \in Command /\ mem[p] \in Db
      BY <2>6 DEF SaveTrail, TypeOK
    <3>2. disk' \in Db
      BY <2>6, <3>1, TrailKeepsRows DEF SaveTrail
    <3>3. Proceed(p, disk', disk') /\ last' = last
          /\ pc[p] \in {"labels", "note", "remark", "draft"}
      BY <2>6 DEF SaveTrail
    <3>4. QED BY <3>2, <3>3, ProceedTypes DEF TypeOK
  <2>7. ASSUME NEW p \in Proc, SaveFails(p) PROVE TypeOK'
    <3>1. cmd[p] \in Command /\ mem[p] \in Db /\ cmd[p].task \in Task
      BY <2>7 DEF SaveFails, TypeOK, Command
    <3>2. CASE Fatal(cmd[p], pc[p])
      BY <2>7, <3>1, <3>2, ExitTypes DEF SaveFails, TypeOK
    <3>3. CASE ~ Fatal(cmd[p], pc[p])
      <4>1. pc[p] \in {"labels", "note", "remark", "draft"}
            /\ Proceed(p, Written(cmd[p], pc[p], mem[p]), disk)
            /\ UNCHANGED <<disk, last>>
        BY <2>7, <3>3 DEF SaveFails, Fatal
      <4>2. Written(cmd[p], pc[p], mem[p]) \in Db
        BY <3>1, <4>1, TrailKeepsRows
      <4>3. QED BY <4>1, <4>2, ProceedTypes DEF TypeOK
    <3>4. QED BY <3>2, <3>3
  <2>8. ASSUME NEW p \in Proc, Crash(p) PROVE TypeOK'
    <3>1. cmd[p].task \in Task
      BY <2>8 DEF Crash, TypeOK, Command
    <3>2. QED BY <2>8, <3>1, ExitTypes DEF Crash, TypeOK
  <2>9. QED
    BY <2>0, <2>1, <2>2, <2>3, <2>4, <2>5, <2>6, <2>7, <2>8 DEF Next, Continue
<1>3. QED BY <1>1, <1>2, PTL DEF Spec
-----------------------------------------------------------------------------
(* The single-writer regime.  SingleWriter is the inductive invariant that *)
(* carries the results below: one process at a time, whose snapshot agrees *)
(* with the file on every status and assignee, whose guard still holds     *)
(* when it saves the status, and whose claim is in the file when it goes   *)
(* on to the labels.                                                       *)

Trail == {"labels", "note", "remark", "draft"}

OneAtATime == \A p, q \in Proc : pc[p] # "idle" /\ pc[q] # "idle" => p = q

SnapshotIsFresh ==
  \A p \in Proc : pc[p] # "idle" =>
    mem[p].status = disk.status /\ mem[p].assignee = disk.assignee

GuardStillHolds ==
  \A p \in Proc :
    /\ pc[p] = "status" => Guard(cmd[p], disk)
    /\ pc[p] \in {"undraft", "tests"} => cmd[p].kind = "validate"

ClaimIsSaved ==
  \A p \in Proc :
    pc[p] \in Trail /\ cmd[p].kind \in {"claim", "reopen"} =>
      /\ disk.status[cmd[p].task] = "in_progress"
      /\ disk.assignee[cmd[p].task] = cmd[p].actor

SingleWriter ==
  /\ OneAtATime /\ SnapshotIsFresh /\ GuardStillHolds /\ ClaimIsSaved
  /\ NoLostUpdate /\ HolderOwnsTask

LEMMA GuardReadsRows ==
  ASSUME NEW c \in Command, NEW db1, NEW db2, Guard(c, db1),
         db1.status = db2.status, db1.assignee = db2.assignee
  PROVE  Guard(c, db2)
BY DEF Guard, CanClaim, CanRelease, DepsClosed

LEMMA CommandTask == ASSUME NEW c \in Command PROVE c.task \in Task
BY DEF Command

(* Every step of p but SaveStatus leaves all rows of the file alone.       *)
LEMMA RowsKept ==
  ASSUME TypeOK, SingleWriter, NEW p \in Proc, pc[p] # "idle",
         disk'.status = disk.status, disk'.assignee = disk.assignee, last' = last,
         \A q \in Proc \ {p} : pc'[q] = pc[q],
         \/ pc'[p] = "idle"
         \/ /\ cmd'[p] = cmd[p]
            /\ mem'[p].status = disk.status /\ mem'[p].assignee = disk.assignee
            /\ \/ pc[p] = "undraft" /\ pc'[p] = "tests"
               \/ pc[p] = "tests" /\ pc'[p] = "status" /\ Guard(cmd[p], disk)
               \/ pc[p] \in Trail /\ pc'[p] \in Trail,
         \/ held' = held
         \/ /\ pc[p] \in Trail /\ cmd[p].kind \in {"claim", "reopen"}
            /\ held' = [held EXCEPT ![cmd[p].task] = @ \cup {cmd[p].actor}]
  PROVE  SingleWriter'
<1>1. \A q \in Proc : q # p => pc[q] = "idle" /\ pc'[q] = "idle"
  BY DEF SingleWriter, OneAtATime
<1>2. cmd[p] \in Command /\ cmd[p].task \in Task
  BY CommandTask DEF TypeOK
<1>3. OneAtATime' /\ SnapshotIsFresh'
  BY <1>1 DEF OneAtATime, SnapshotIsFresh
<1>4. Guard(cmd[p], disk) => Guard(cmd[p], disk')
  BY <1>2, GuardReadsRows
<1>5. GuardStillHolds'
  BY <1>1, <1>4 DEF GuardStillHolds, SingleWriter, Trail
<1>6. ClaimIsSaved'
  BY <1>1 DEF ClaimIsSaved, SingleWriter, Trail
<1>7. \A t : RowOf(disk', t) = RowOf(disk, t)
  BY DEF RowOf
<1>8. NoLostUpdate'
  BY <1>7 DEF NoLostUpdate, SingleWriter
<1>9. HolderOwnsTask'
  <2>1. CASE held' = held
    BY <1>7, <2>1 DEF HolderOwnsTask, SingleWriter
  <2>2. CASE held' # held
    <3>1. RowOf(disk', cmd[p].task) = [status |-> "in_progress", assignee |-> cmd[p].actor]
      BY <1>7, <2>2 DEF RowOf, ClaimIsSaved, SingleWriter
    <3>2. QED BY <1>2, <1>7, <2>2, <3>1 DEF HolderOwnsTask, SingleWriter, TypeOK
  <2>3. QED BY <2>1, <2>2
<1>10. QED BY <1>3, <1>5, <1>6, <1>8, <1>9 DEF SingleWriter

(* SaveStatus of a process with a fresh snapshot changes its row only, and *)
(* as its command says.                                                    *)
LEMMA SaveStatusRows ==
  ASSUME TypeOK, SnapshotIsFresh, NEW p \in Proc, SaveStatus(p)
  PROVE  LET c == cmd[p] IN
         /\ c \in Command /\ c.task \in Task
         /\ disk'.status = [disk.status EXCEPT ![c.task] = TargetStatus(c, disk)]
         /\ disk'.assignee = [disk.assignee EXCEPT ![c.task] = TargetAssignee(c, disk)]
         /\ last' = [last EXCEPT ![c.task] = RowOf(disk', c.task)]
<1>1. cmd[p] \in Command /\ cmd[p].task \in Task /\ mem[p] \in Db
      /\ mem[p].status = disk.status /\ mem[p].assignee = disk.assignee
  BY CommandTask DEF SaveStatus, TypeOK, SnapshotIsFresh
<1>2. TargetStatus(cmd[p], mem[p]) = TargetStatus(cmd[p], disk)
      /\ TargetAssignee(cmd[p], mem[p]) = TargetAssignee(cmd[p], disk)
  BY <1>1 DEF TargetStatus, TargetAssignee
<1>3. QED BY <1>1, <1>2, WithStatusRows DEF SaveStatus

LEMMA SaveStatusKeepsSingleWriter ==
  ASSUME TypeOK, SingleWriter, NEW p \in Proc, SaveStatus(p)
  PROVE  SingleWriter'
<1> DEFINE c == cmd[p]
           s == TargetStatus(c, disk)
           o == TargetAssignee(c, disk)
<1>1. /\ c \in Command /\ c.task \in Task
      /\ disk'.status = [disk.status EXCEPT ![c.task] = s]
      /\ disk'.assignee = [disk.assignee EXCEPT ![c.task] = o]
      /\ last' = [last EXCEPT ![c.task] = RowOf(disk', c.task)]
  BY SaveStatusRows DEF SingleWriter
<1>2. disk.status \in [Task -> StoreStatus] /\ disk.assignee \in [Task -> Actor \cup {Nobody}]
  BY DEF TypeOK, Db
<1>3. pc[p] = "status" /\ \A q \in Proc : q # p => pc[q] = "idle"
  BY DEF SaveStatus, SingleWriter, OneAtATime
<1>4. \/ pc' = [pc EXCEPT ![p] = "idle"]
      \/ pc' = [pc EXCEPT ![p] = "labels"] /\ cmd' = cmd /\ mem' = [mem EXCEPT ![p] = disk']
  BY DEF SaveStatus, Exit
<1>5. Guard(c, disk)
  BY <1>3 DEF SingleWriter, GuardStillHolds
<1>6. OneAtATime' /\ SnapshotIsFresh' /\ GuardStillHolds'
  BY <1>3, <1>4 DEF TypeOK, OneAtATime, SnapshotIsFresh, GuardStillHolds
<1>7. ClaimIsSaved'
  <2>1. c.kind \in {"claim", "reopen"} => s = "in_progress" /\ o = c.actor
    BY DEF TargetStatus, TargetAssignee
  <2>2. QED BY <1>1, <1>2, <1>3, <1>4, <2>1 DEF TypeOK, ClaimIsSaved, Trail
<1>8. \A t \in Task : t # c.task => RowOf(disk', t) = RowOf(disk, t)
  BY <1>1, <1>2 DEF RowOf
<1>9. NoLostUpdate'
  BY <1>1, <1>8 DEF TypeOK, NoLostUpdate, SingleWriter
<1>10. HolderOwnsTask'
  <2>1. \A t \in Task : t # c.task => held'[t] = held[t]
    BY <1>1 DEF SaveStatus, TypeOK
  <2>2. ASSUME NEW a \in held'[c.task]
        PROVE  RowOf(disk', c.task) \in [status : {"in_progress", "needs_review"}, assignee : {a}]
    <3>1. c.kind \notin {"release", "approve", "assign"} /\ a \in held[c.task]
      BY <1>1, <2>2 DEF SaveStatus, TypeOK
    <3>2. disk.status[c.task] \in {"in_progress", "needs_review"} /\ disk.assignee[c.task] = a
      BY <1>1, <3>1 DEF SingleWriter, HolderOwnsTask, RowOf
    <3>3. c.kind \in {"validate", "reject"}
      BY <1>1, <1>5, <3>1, <3>2 DEF Guard, CanClaim, Command, Kind
    <3>4. s \in {"in_progress", "needs_review"} /\ o = a
      BY <3>2, <3>3 DEF TargetStatus, TargetAssignee
    <3>5. QED BY <1>1, <1>2, <3>4 DEF RowOf
  <2>3. QED BY <1>1, <1>8, <2>1, <2>2 DEF HolderOwnsTask, SingleWriter
<1>11. QED BY <1>6, <1>7, <1>9, <1>10 DEF SingleWriter

LEMMA TrailStepKeepsSingleWriter ==
  ASSUME TypeOK, SingleWriter, NEW p \in Proc, SaveTrail(p) \/ SaveFails(p)
  PROVE  SingleWriter' /\ disk'.status = disk.status /\ disk'.assignee = disk.assignee
<1> DEFINE c == cmd[p]
           db == Written(c, pc[p], mem[p])
<1>1. pc[p] # "idle" /\ c \in Command /\ mem[p] \in Db
      /\ mem[p].status = disk.status /\ mem[p].assignee = disk.assignee
  BY DEF SaveTrail, SaveFails, TypeOK, SingleWriter, SnapshotIsFresh
<1>2. ASSUME pc[p] \in Trail PROVE db.status = disk.status /\ db.assignee = disk.assignee
  BY <1>1, <1>2, TrailKeepsRows DEF Trail
<1>3. disk'.status = disk.status /\ disk'.assignee = disk.assignee /\ last' = last
  BY <1>2 DEF SaveTrail, SaveFails, Trail
<1>4. \/ Exit(p) /\ held' = held
      \/ pc[p] \in Trail /\ \E db2 : Proceed(p, db, db2)
  BY DEF SaveTrail, SaveFails, Fatal, Trail
<1>5. \A q \in Proc \ {p} : pc'[q] = pc[q]
  BY <1>4 DEF TypeOK, Exit, Proceed, Succeed
<1>6. CASE Exit(p) /\ held' = held
  BY <1>1, <1>3, <1>5, <1>6, RowsKept DEF TypeOK, Exit
<1>7. CASE pc[p] \in Trail /\ \E db2 : Proceed(p, db, db2)
  <2>1. After(c, pc[p]) \in {"idle"} \cup Trail
    BY <1>1, <1>7, AfterType DEF Trail
  <2>2. CASE After(c, pc[p]) = "idle"
    <3>1. pc'[p] = "idle" /\ held' = IF c.kind \in {"claim", "reopen"}
                                    THEN [held EXCEPT ![c.task] = @ \cup {c.actor}] ELSE held
      BY <1>7, <2>2 DEF Proceed, Succeed, Exit, TypeOK
    <3>2. QED BY <1>1, <1>3, <1>5, <1>7, <3>1, RowsKept
  <2>3. CASE After(c, pc[p]) \in Trail
    <3>1. pc'[p] \in Trail /\ cmd'[p] = cmd[p] /\ mem'[p] = db /\ held' = held
      BY <1>7, <2>3 DEF Proceed, TypeOK, Trail
    <3>2. QED BY <1>1, <1>2, <1>3, <1>5, <1>7, <3>1, RowsKept
  <2>4. QED BY <2>1, <2>2, <2>3
<1>8. QED BY <1>3, <1>4, <1>6, <1>7

LEMMA StartKeepsSingleWriter ==
  ASSUME Exclusive, TypeOK, SingleWriter, NEW p \in Proc, Start(p)
  PROVE  SingleWriter' /\ disk' = disk
<1>1. PICK c \in Command, first \in {"status", "undraft", "tests"} :
        /\ Begin(p, c, first)
        /\ first = "status" => Guard(c, disk)
        /\ first # "status" => c.kind = "validate"
  BY StartIsBegin
<1>2. /\ \A q \in Proc : pc[q] = "idle"
      /\ pc' = [pc EXCEPT ![p] = first] /\ cmd' = [cmd EXCEPT ![p] = c]
      /\ mem' = [mem EXCEPT ![p] = disk] /\ disk' = disk /\ last' = last /\ held' = held
  BY <1>1 DEF Begin, aux
<1>3. /\ \A q \in Proc : q # p => pc'[q] = "idle"
      /\ pc'[p] = first /\ cmd'[p] = c /\ mem'[p] = disk
  BY <1>2 DEF TypeOK
<1>4. OneAtATime' /\ SnapshotIsFresh' /\ GuardStillHolds' /\ ClaimIsSaved'
  BY <1>1, <1>2, <1>3 DEF OneAtATime, SnapshotIsFresh, GuardStillHolds, ClaimIsSaved, Trail
<1>5. NoLostUpdate' /\ HolderOwnsTask'
  BY <1>2 DEF SingleWriter, NoLostUpdate, HolderOwnsTask
<1>6. QED BY <1>2, <1>4, <1>5 DEF SingleWriter

LEMMA QuietStepKeepsSingleWriter ==
  ASSUME TypeOK, SingleWriter, NEW p \in Proc,
         Undraft(p) \/ TestsPass(p) \/ TestsFail(p) \/ Crash(p)
  PROVE  SingleWriter' /\ disk'.status = disk.status /\ disk'.assignee = disk.assignee
<1>1. pc[p] # "idle" /\ cmd[p] \in Command /\ cmd[p].task \in Task /\ mem[p] \in Db
      /\ mem[p].status = disk.status /\ mem[p].assignee = disk.assignee
  BY CommandTask DEF Undraft, TestsPass, TestsFail, Crash, TypeOK, SingleWriter, SnapshotIsFresh
<1>2. CASE Undraft(p)
  <2> DEFINE db == RemoveLabels(mem[p], cmd[p].task, {"draft"})
  <2>1. db.status = disk.status /\ db.assignee = disk.assignee
    BY <1>1, UndraftKeepsRows
  <2>2. disk'.status = disk.status /\ disk'.assignee = disk.assignee
    BY <1>2, <2>1 DEF Undraft
  <2>3. pc[p] = "undraft" /\ pc' = [pc EXCEPT ![p] = "tests"] /\ mem'[p] = db
        /\ cmd' = cmd /\ held' = held /\ last' = last
    BY <1>2 DEF Undraft, aux, TypeOK
  <2>4. QED BY <1>1, <2>1, <2>2, <2>3, RowsKept DEF TypeOK
<1>3. CASE TestsPass(p)
  <2>1. cmd[p].kind = "validate"
    BY <1>3 DEF TestsPass, SingleWriter, GuardStillHolds
  <2>2. Guard(cmd[p], disk)
    BY <1>1, <1>3, <2>1 DEF TestsPass, Guard
  <2>3. QED BY <1>1, <1>3, <2>2, RowsKept DEF TestsPass, aux, TypeOK
<1>4. CASE TestsFail(p) \/ Crash(p)
  BY <1>1, <1>4, RowsKept DEF TestsFail, Crash, Exit, aux, TypeOK
<1>5. QED BY <1>2, <1>3, <1>4

THEOREM SingleWriterInvariant ==
  ASSUME Exclusive
  PROVE  Spec => []SingleWriter
<1>1. Init => SingleWriter
  BY DEF Init, SingleWriter, OneAtATime, SnapshotIsFresh, GuardStillHolds, ClaimIsSaved,
         Trail, NoLostUpdate, RowOf, HolderOwnsTask
<1>2. TypeOK /\ SingleWriter /\ [Next]_vars => SingleWriter'
  <2>1. ASSUME SingleWriter, UNCHANGED vars PROVE SingleWriter'
    BY <2>1 DEF vars, aux, SingleWriter, OneAtATime, SnapshotIsFresh, GuardStillHolds,
         ClaimIsSaved, NoLostUpdate, HolderOwnsTask
  <2>2. QED
    BY <2>1, StartKeepsSingleWriter, QuietStepKeepsSingleWriter, TrailStepKeepsSingleWriter,
       SaveStatusKeepsSingleWriter DEF Next, Continue
<1>3. QED BY <1>1, <1>2, TypeCorrect, PTL DEF Spec
-----------------------------------------------------------------------------
(* With one orchestrator no crash and no failed write, at whatever point,  *)
(* undoes a transition that was written.                                   *)
THEOREM TransitionsAreDurable ==
  ASSUME Exclusive
  PROVE  Spec => []NoLostUpdate
BY SingleWriterInvariant, PTL DEF SingleWriter

(* With one orchestrator, who was told "claimed" owns the task in the file *)
(* until it is released, approved or reassigned.                           *)
THEOREM HoldersOwn ==
  ASSUME Exclusive
  PROVE  Spec => []HolderOwnsTask
BY SingleWriterInvariant, PTL DEF SingleWriter

(* ... and therefore nobody else was told so.                              *)
THEOREM ClaimsAreExclusive ==
  ASSUME Exclusive
  PROVE  Spec => []NoDoubleClaim
<1>1. HolderOwnsTask => NoDoubleClaim
  BY DEF HolderOwnsTask, NoDoubleClaim
<1>2. QED BY <1>1, HoldersOwn, PTL

(* With one orchestrator every write of the file is a transition of the    *)
(* promised lifecycle, or changes no status and no assignee.               *)
THEOREM StoreImplementsLifecycle ==
  ASSUME Exclusive
  PROVE  Spec => ImplementsLifecycle
<1>1. Init => Lifecycle!Init
  BY DEF Init, Lifecycle!Init
<1>2. TypeOK /\ SingleWriter /\ [Next]_vars
        => [Lifecycle!Next]_(Lifecycle!lifecycle)
  <2> SUFFICES ASSUME TypeOK, SingleWriter, [Next]_vars
               PROVE  [Lifecycle!Next]_(Lifecycle!lifecycle)
    OBVIOUS
  <2>1. CASE UNCHANGED vars
    BY <2>1 DEF vars, Lifecycle!lifecycle
  <2>2. ASSUME NEW p \in Proc, ~ SaveStatus(p), Start(p) \/ Continue(p)
        PROVE  UNCHANGED Lifecycle!lifecycle
    BY <2>2, StartKeepsSingleWriter, QuietStepKeepsSingleWriter, TrailStepKeepsSingleWriter
       DEF Continue, Lifecycle!lifecycle
  <2>3. ASSUME NEW p \in Proc, SaveStatus(p) PROVE Lifecycle!Next
    <3> DEFINE c == cmd[p]
               s == TargetStatus(c, disk)
               o == TargetAssignee(c, disk)
    <3>1. c \in Command /\ c.task \in Task /\ Lifecycle!Become(c.task, s, o)
      BY <2>3, SaveStatusRows DEF SingleWriter, Lifecycle!Become
    <3>2. Guard(c, disk)
      BY <2>3 DEF SaveStatus, SingleWriter, GuardStillHolds
    <3> USE <3>1, <3>2 DEF Guard, TargetStatus, TargetAssignee, Lifecycle!Next, Command
    <3>3. CASE c.kind = "claim"
      <4>1. Lifecycle!DepsClosed(c.task)
        BY <3>3 DEF CanClaim, DepsClosed, Lifecycle!DepsClosed
      <4>2. QED BY <3>3, <4>1 DEF CanClaim, Lifecycle!Claim
    <3>4. CASE c.kind = "release"
      BY <3>4 DEF CanRelease, Lifecycle!Release
    <3>5. CASE c.kind = "validate"
      BY <3>5 DEF Lifecycle!Submit
    <3>6. CASE c.kind = "approve"
      BY <3>6 DEF Lifecycle!Approve
    <3>7. CASE c.kind = "reject"
      BY <3>7 DEF Lifecycle!Reject
    <3>8. CASE c.kind = "reopen"
      BY <3>8 DEF Lifecycle!Reopen
    <3>9. CASE c.kind = "assign"
      BY <3>9 DEF Lifecycle!Reassign
    <3>10. QED BY <3>3, <3>4, <3>5, <3>6, <3>7, <3>8, <3>9 DEF Kind
  <2>4. QED BY <2>1, <2>2, <2>3 DEF Next
<1>3. QED
  BY <1>1, <1>2, TypeCorrect, SingleWriterInvariant, PTL
     DEF Spec, ImplementsLifecycle, Lifecycle!Spec
-----------------------------------------------------------------------------
(* The evidence.  What a command must still write is known from its step;  *)
(* only it is between its status and the end of its trail, and of another  *)
(* task its snapshot shows exactly what the file does.                     *)

LabelsMatch(db, t) ==
  /\ "claimed" \in db.labels[t] <=> db.status[t] \in {"in_progress", "needs_review"}
  /\ "needs_review" \in db.labels[t] <=> db.status[t] = "needs_review"

NoteMatches(db, t) ==
  /\ db.status[t] = "closed" => db.note[t] = "approved"
  /\ db.status[t] = "needs_review" => db.note[t] = "validated"

Evidence(db, t) == LabelsMatch(db, t) /\ NoteMatches(db, t)

(* What command c finds in its snapshot at its step.                       *)
Ready(c, at, db) ==
  /\ at \in Trail => c.kind # "assign" /\ db.status[c.task] = TargetStatus(c, db)
  /\ at = "labels" =>
       /\ c.kind \in {"validate", "reject"} => "claimed" \in db.labels[c.task]
       /\ c.kind \in {"claim", "reopen"} => "needs_review" \notin db.labels[c.task]
  /\ at = "note" => LabelsMatch(db, c.task)
  /\ at \notin {"labels", "note"} => Evidence(db, c.task)

Unfinished(t) == \E p \in Proc : pc[p] \in Trail /\ cmd[p].task = t

(* Approvals and releases put a task right that was cut short before.      *)
Repairs(c) == c.kind \in {"approve", "release"}

SnapshotShows(db, c) ==
  \A u \in Task \ {c.task} : db.labels[u] = disk.labels[u] /\ db.note[u] = disk.note[u]

TrailInv ==
  /\ \A p \in Proc : pc[p] # "idle" => SnapshotShows(mem[p], cmd[p])
  /\ \A p \in Proc : pc[p] # "idle" /\ cmd[p].task \notin torn => Ready(cmd[p], pc[p], mem[p])
  /\ \A p \in Proc : pc[p] \in Trail /\ Repairs(cmd[p]) => Ready(cmd[p], pc[p], mem[p])
  /\ \A t \in Task \ torn : ~ Unfinished(t) => Evidence(disk, t)

LEMMA TrailInvImplies == TrailInv => EvidenceMatchesStatus
BY DEF TrailInv, EvidenceMatchesStatus, Evidence, LabelsMatch, NoteMatches, Unfinished, Busy, Trail

(* The label and comment writes touch the labels and the note of their     *)
(* task only.                                                              *)
LEMMA WrittenEntries ==
  ASSUME NEW c \in Command, NEW db \in Db, NEW at \in Trail
  PROVE  /\ \A u \in Task \ {c.task} : /\ Written(c, at, db).labels[u] = db.labels[u]
                                       /\ Written(c, at, db).note[u] = db.note[u]
         /\ at = "labels" =>
              /\ c.kind \in {"claim", "reopen"} =>
                   Written(c, at, db).labels[c.task] = db.labels[c.task] \cup {"claimed"}
              /\ c.kind = "validate" =>
                   Written(c, at, db).labels[c.task] = db.labels[c.task] \cup {"needs_review"}
              /\ c.kind = "reject" =>
                   Written(c, at, db).labels[c.task] = db.labels[c.task] \ {"needs_review"}
              /\ c.kind \in {"release", "approve", "assign"} =>
                   Written(c, at, db).labels[c.task] = db.labels[c.task] \ {"claimed", "needs_review"}
         /\ at \in {"note", "remark"} => Written(c, at, db).labels[c.task] = db.labels[c.task]
         /\ at = "draft" => Written(c, at, db).labels[c.task] = db.labels[c.task] \cup {"draft"}
         /\ at # "note" => Written(c, at, db).note[c.task] = db.note[c.task]
         /\ at = "note" =>
              /\ c.kind = "validate" => Written(c, at, db).note[c.task] = "validated"
              /\ c.kind = "approve" => Written(c, at, db).note[c.task] = "approved"
<1> DEFINE t == c.task  w == Written(c, at, db)
<1>1. t \in Task /\ c.kind \in Kind
  BY DEF Command
<1>2. ASSUME NEW ls
      PROVE  /\ AddLabels(db, t, ls).note = db.note /\ RemoveLabels(db, t, ls).note = db.note
             /\ AddLabels(db, t, ls).labels = [db.labels EXCEPT ![t] = @ \cup ls]
             /\ RemoveLabels(db, t, ls).labels = [db.labels EXCEPT ![t] = @ \ ls]
  BY DEF AddLabels, RemoveLabels, Db
<1>3. ASSUME NEW n
      PROVE  /\ AddComment(db, t, n).labels = db.labels
             /\ AddComment(db, t, n).note = [db.note EXCEPT ![t] = n]
  BY DEF AddComment, Db
<1>4. db.labels \in [Task -> SUBSET StateLabel] /\ db.note \in [Task -> Note]
  BY DEF Db
<1>5. CASE at = "labels"
  <2>1. w = WithLabels(c, db)
    BY <1>5 DEF Written
  <2>2. CASE c.kind \in {"claim", "reopen"}
    <3>1. w = AddLabels(db, t, {"claimed"})
      BY <2>1, <2>2 DEF WithLabels
    <3>2. w.note = db.note /\ w.labels = [db.labels EXCEPT ![t] = @ \cup {"claimed"}]
      BY <1>2, <3>1
    <3>3. QED BY <1>1, <1>4, <1>5, <2>2, <3>2
  <2>3. CASE c.kind = "validate"
    <3>1. w = AddLabels(db, t, {"needs_review"})
      BY <2>1, <2>3 DEF WithLabels
    <3>2. w.note = db.note /\ w.labels = [db.labels EXCEPT ![t] = @ \cup {"needs_review"}]
      BY <1>2, <3>1
    <3>3. QED BY <1>1, <1>4, <1>5, <2>3, <3>2
  <2>4. CASE c.kind = "reject"
    <3>1. w = RemoveLabels(db, t, {"needs_review"})
      BY <2>1, <2>4 DEF WithLabels
    <3>2. w.note = db.note /\ w.labels = [db.labels EXCEPT ![t] = @ \ {"needs_review"}]
      BY <1>2, <3>1
    <3>3. QED BY <1>1, <1>4, <1>5, <2>4, <3>2
  <2>5. CASE c.kind \in {"release", "approve", "assign"}
    <3>1. w = RemoveLabels(db, t, {"claimed", "needs_review"})
      BY <2>1, <2>5 DEF WithLabels
    <3>2. w.note = db.note /\ w.labels = [db.labels EXCEPT ![t] = @ \ {"claimed", "needs_review"}]
      BY <1>2, <3>1
    <3>3. QED BY <1>1, <1>4, <1>5, <2>5, <3>2
  <2>6. QED BY <1>1, <2>2, <2>3, <2>4, <2>5 DEF Kind
<1>6. CASE at = "note"
  <2> DEFINE n == CASE c.kind = "validate" -> "validated"
                    [] c.kind = "approve" -> "approved"
                    [] OTHER -> "returned"
  <2>1. w = AddComment(db, t, n)
    BY <1>6 DEF Written, WithNote
  <2> HIDE DEF n
  <2>2. w.labels = db.labels /\ w.note = [db.note EXCEPT ![t] = n]
    BY <1>3, <2>1
  <2>3. QED BY <1>1, <1>4, <1>6, <2>2 DEF n
<1>7. CASE at = "remark"
  BY <1>7 DEF Written
<1>8. CASE at = "draft"
  <2>1. w = AddLabels(db, t, {"draft"})
    BY <1>8 DEF Written
  <2>2. w.note = db.note /\ w.labels = [db.labels EXCEPT ![t] = @ \cup {"draft"}]
    BY <1>2, <2>1
  <2>3. QED BY <1>1, <1>4, <1>8, <2>2
<1>9. QED BY <1>5, <1>6, <1>7, <1>8 DEF Trail

(* After a write of the trail the next one finds what it needs, and after  *)
(* the last one the evidence is complete.                                  *)
LEMMA TrailGoesOn ==
  ASSUME NEW c \in Command, NEW db \in Db, NEW at \in Trail, Ready(c, at, db)
  PROVE  Ready(c, After(c, at), Written(c, at, db))
<1> DEFINE t == c.task  w == Written(c, at, db)  next == After(c, at)
<1>1. w.status = db.status
  BY TrailKeepsRows DEF Trail
<1>2. c.kind \in Kind \ {"assign"} /\ db.status[t] = TargetStatus(c, db)
  BY DEF Ready, Command
<1>3. next \in Trail => w.status[t] = TargetStatus(c, w)
  BY <1>1, <1>2 DEF TargetStatus, Kind
<1>4. CASE at = "labels"
  <2>1. next # "labels" /\ (next # "note" => c.kind \in {"claim", "release"})
    <3>1. CASE c.kind \in {"validate", "approve", "reject", "reopen"}
      BY <1>4, <3>1 DEF After
    <3>2. CASE c.kind \notin {"validate", "approve", "reject", "reopen"}
      <4>1. next # "labels"
        BY <1>4, <3>2, Zenon DEF After
      <4>2. QED BY <1>2, <3>2, <4>1 DEF Kind
    <3>3. QED BY <3>1, <3>2
  <2>2. w.note[t] = db.note[t]
    BY <1>4, WrittenEntries
  <2>3. LabelsMatch(w, t)
    <3>1. CASE c.kind \in {"claim", "reopen"}
      <4>1. db.status[t] = "in_progress" /\ "needs_review" \notin db.labels[t]
        BY <1>2, <1>4, <3>1 DEF Ready, TargetStatus
      <4>2. w.labels[t] = db.labels[t] \cup {"claimed"}
        BY <1>4, <3>1, WrittenEntries
      <4>3. QED BY <1>1, <4>1, <4>2 DEF LabelsMatch
    <3>2. CASE c.kind = "validate"
      <4>1. db.status[t] = "needs_review" /\ "claimed" \in db.labels[t]
        BY <1>2, <1>4, <3>2 DEF Ready, TargetStatus
      <4>2. w.labels[t] = db.labels[t] \cup {"needs_review"}
        BY <1>4, <3>2, WrittenEntries
      <4>3. QED BY <1>1, <4>1, <4>2 DEF LabelsMatch
    <3>3. CASE c.kind = "reject"
      <4>1. db.status[t] = "in_progress" /\ "claimed" \in db.labels[t]
        BY <1>2, <1>4, <3>3 DEF Ready, TargetStatus
      <4>2. w.labels[t] = db.labels[t] \ {"needs_review"}
        BY <1>4, <3>3, WrittenEntries
      <4>3. QED BY <1>1, <4>1, <4>2 DEF LabelsMatch
    <3>4. CASE c.kind \in {"release", "approve"}
      <4>1. db.status[t] \in {"open", "closed"}
        BY <1>2, <3>4 DEF TargetStatus
      <4>2. w.labels[t] = db.labels[t] \ {"claimed", "needs_review"}
        BY <1>4, <3>4, WrittenEntries
      <4>3. QED BY <1>1, <4>1, <4>2 DEF LabelsMatch
    <3>5. QED BY <1>2, <3>1, <3>2, <3>3, <3>4 DEF Kind
  <2>4. next # "note" => NoteMatches(w, t)
    BY <1>1, <1>2, <2>1 DEF TargetStatus, NoteMatches
  <2>5. QED BY <1>2, <1>3, <2>1, <2>3, <2>4 DEF Ready, Evidence
<1>5. CASE at = "note"
  <2>1. next \notin {"labels", "note"}
    BY <1>5 DEF After
  <2>2. w.labels[t] = db.labels[t]
    BY <1>5, WrittenEntries
  <2>3. LabelsMatch(w, t)
    BY <1>1, <1>5, <2>2 DEF Ready, LabelsMatch
  <2>4. /\ c.kind = "validate" => w.note[t] = "validated"
        /\ c.kind = "approve" => w.note[t] = "approved"
    BY <1>5, WrittenEntries
  <2>5. NoteMatches(w, t)
    BY <1>1, <1>2, <2>4 DEF TargetStatus, NoteMatches, Kind
  <2>6. QED BY <1>2, <1>3, <2>1, <2>3, <2>5 DEF Ready, Evidence
<1>6. CASE at \in {"remark", "draft"}
  <2>1. next \notin {"labels", "note"}
    BY <1>6 DEF After
  <2>2. /\ w.labels[t] \in {db.labels[t], db.labels[t] \cup {"draft"}}
        /\ w.note[t] = db.note[t]
    <3>1. /\ at = "remark" => w.labels[t] = db.labels[t]
          /\ at = "draft" => w.labels[t] = db.labels[t] \cup {"draft"}
      BY <1>6, WrittenEntries
    <3>2. w.note[t] = db.note[t]
      BY <1>6, WrittenEntries
    <3>3. QED BY <1>6, <3>1, <3>2
  <2>3. Evidence(db, t)
    BY <1>6 DEF Ready
  <2>4. Evidence(w, t)
    BY <1>1, <2>2, <2>3 DEF Evidence, LabelsMatch, NoteMatches
  <2>5. QED BY <1>2, <1>3, <2>1, <2>4 DEF Ready
<1>7. QED BY <1>4, <1>5, <1>6 DEF Trail

(* The status write leaves evidence of a state one step behind, which is   *)
(* what the label write expects.                                           *)
LEMMA StatusGoesOn ==
  ASSUME NEW c \in Command, NEW db \in Db, Guard(c, db), Repairs(c) \/ Ready(c, "status", db)
  PROVE  LET w == WithStatus(c, db) IN
         IF c.kind = "assign" THEN Evidence(w, c.task) ELSE Ready(c, "labels", w)
<1> DEFINE t == c.task  w == WithStatus(c, db)
<1>1. /\ w.labels = db.labels /\ w.note = db.note
      /\ w.status = [db.status EXCEPT ![t] = TargetStatus(c, db)]
  BY DEF WithStatus, UpdateIssue, Db
<1>2. t \in Task /\ c.kind \in Kind /\ db.status \in [Task -> StoreStatus]
  BY DEF Command, Db
<1>3. w.status[t] = TargetStatus(c, db)
  BY <1>1, <1>2
<1>4. Repairs(c) \/ Evidence(db, t)
  BY DEF Ready, Trail
<1>5. CASE c.kind = "assign"
  BY <1>1, <1>3, <1>4, <1>5 DEF Repairs, TargetStatus, Evidence, LabelsMatch, NoteMatches
<1>6. CASE c.kind # "assign"
  <2>1. w.status[t] = TargetStatus(c, w)
    BY <1>2, <1>3, <1>6 DEF TargetStatus, Kind
  <2>2. c.kind \in {"validate", "reject"} => "claimed" \in w.labels[t]
    BY <1>1, <1>4 DEF Repairs, Guard, Evidence, LabelsMatch
  <2>3. c.kind \in {"claim", "reopen"} => "needs_review" \notin w.labels[t]
    BY <1>1, <1>4 DEF Repairs, Guard, CanClaim, Evidence, LabelsMatch
  <2>4. QED BY <1>6, <2>1, <2>2, <2>3 DEF Ready, Trail
<1>7. QED BY <1>5, <1>6

LEMMA TrailInit == Init => TrailInv
<1> SUFFICES ASSUME Init PROVE TrailInv
  OBVIOUS
<1>1. \A p \in Proc : pc[p] = "idle"
  BY DEF Init
<1>2. \A t \in Task : Evidence(disk, t)
  BY DEF Init, Evidence, LabelsMatch, NoteMatches
<1>3. QED BY <1>1, <1>2 DEF TrailInv, Trail

LEMMA StartTrail ==
  ASSUME Exclusive, TypeOK, TrailInv, NEW p \in Proc, Start(p)
  PROVE  TrailInv'
<1>1. PICK c \in Command, first \in {"status", "undraft", "tests"} : Begin(p, c, first)
  BY StartIsBegin
<1>2. /\ \A q \in Proc : pc[q] = "idle"
      /\ pc' = [pc EXCEPT ![p] = first] /\ cmd' = [cmd EXCEPT ![p] = c]
      /\ mem' = [mem EXCEPT ![p] = disk] /\ disk' = disk /\ torn' = torn
  BY <1>1 DEF Begin, aux
<1>3. /\ \A q \in Proc : q # p => pc'[q] = "idle"
      /\ pc'[p] = first /\ cmd'[p] = c /\ mem'[p] = disk
  BY <1>2 DEF TypeOK
<1>4. \A t \in Task \ torn : Evidence(disk, t)
  BY <1>2 DEF TrailInv, Unfinished, Trail
<1>5. c.task \in Task
  BY CommandTask
<1>6. c.task \notin torn => Ready(c, first, disk)
  BY <1>4, <1>5 DEF Ready, Trail
<1>7. QED BY <1>2, <1>3, <1>4, <1>6 DEF TrailInv, SnapshotShows, Trail, Evidence, LabelsMatch, NoteMatches

(* A step after which p, the one process that runs, has gone on to another *)
(* step with snapshot db, or has ended; tasks other than its own keep      *)
(* their entries.                                                          *)
LEMMA GoOnTrail ==
  ASSUME TypeOK, SingleWriter, TrailInv, NEW p \in Proc, pc[p] # "idle",
         \A q \in Proc \ {p} : pc'[q] = pc[q],
         \A u \in Task \ {cmd[p].task} :
           /\ disk'.labels[u] = disk.labels[u] /\ disk'.note[u] = disk.note[u]
           /\ disk'.status[u] = disk.status[u]
           /\ u \in torn <=> u \in torn',
         \/ /\ pc'[p] = "idle"
            /\ cmd[p].task \notin torn' => Evidence(disk', cmd[p].task)
         \/ /\ cmd'[p] = cmd[p] /\ torn' = torn
            /\ SnapshotShows(mem'[p], cmd[p])
            /\ cmd[p].task \notin torn \/ (pc'[p] \in Trail /\ Repairs(cmd[p]))
                 => Ready(cmd[p], pc'[p], mem'[p])
            /\ cmd[p].task \notin torn /\ pc'[p] \notin Trail => Evidence(disk', cmd[p].task)
  PROVE  TrailInv'
<1> DEFINE t == cmd[p].task
<1>1. t \in Task
  BY CommandTask DEF TypeOK
<1>2. \A q \in Proc : q # p => pc[q] = "idle" /\ pc'[q] = "idle"
  BY DEF SingleWriter, OneAtATime
<1>3. \A u \in Task \ {t} : u \notin torn' => Evidence(disk', u)
  <2> SUFFICES ASSUME NEW u \in Task \ {t}, u \notin torn' PROVE Evidence(disk', u)
    OBVIOUS
  <2>1. ~ Unfinished(u)
    BY <1>2 DEF Unfinished, Trail
  <2>2. Evidence(disk, u)
    BY <2>1 DEF TrailInv
  <2>3. QED BY <2>2 DEF Evidence, LabelsMatch, NoteMatches
<1>4. \A u \in Task \ torn' : ~ Unfinished(u)' => Evidence(disk', u)
  <2>1. ~ Unfinished(t)' /\ t \notin torn' => Evidence(disk', t)
    BY DEF Unfinished, Trail
  <2>2. QED BY <1>3, <2>1
<1>5. \A q \in Proc : pc'[q] # "idle" => SnapshotShows(mem[q], cmd[q])'
  <2>1. ASSUME pc'[p] # "idle" PROVE SnapshotShows(mem[p], cmd[p])'
    BY <2>1 DEF SnapshotShows
  <2>2. QED BY <1>2, <2>1
<1>6. /\ \A q \in Proc : pc'[q] # "idle" /\ cmd'[q].task \notin torn' => Ready(cmd'[q], pc'[q], mem'[q])
      /\ \A q \in Proc : pc'[q] \in Trail /\ Repairs(cmd'[q]) => Ready(cmd'[q], pc'[q], mem'[q])
  BY <1>2 DEF Trail
<1>7. QED BY <1>4, <1>5, <1>6 DEF TrailInv, SnapshotShows, Evidence, LabelsMatch, NoteMatches

LEMMA QuietTrail ==
  ASSUME TypeOK, SingleWriter, TrailInv, NEW p \in Proc,
         Undraft(p) \/ TestsPass(p) \/ TestsFail(p) \/ Crash(p)
  PROVE  TrailInv'
<1> DEFINE c == cmd[p]  t == c.task
<1>1. /\ pc[p] # "idle" /\ c \in Command /\ t \in Task /\ mem[p] \in Db /\ disk \in Db
  BY CommandTask DEF Undraft, TestsPass, TestsFail, Crash, TypeOK
<1>2. /\ SnapshotShows(mem[p], c)
      /\ t \notin torn => Ready(c, pc[p], mem[p])
      /\ t \notin torn /\ pc[p] \notin Trail => Evidence(disk, t)
  <2>1. pc[p] \notin Trail => ~ Unfinished(t)
    BY <1>1 DEF Unfinished, SingleWriter, OneAtATime, Trail
  <2>2. QED BY <1>1, <2>1 DEF TrailInv
<1>3. CASE Undraft(p)
  <2> DEFINE db == RemoveLabels(mem[p], t, {"draft"})
  <2>1. /\ pc[p] = "undraft" /\ disk' \in {db, disk} /\ torn' = torn /\ cmd' = cmd
        /\ mem'[p] = db /\ pc'[p] = "tests" /\ \A q \in Proc \ {p} : pc'[q] = pc[q]
    BY <1>3 DEF Undraft, aux, TypeOK
  <2>2. /\ db.status = mem[p].status /\ db.note = mem[p].note
        /\ db.labels = [mem[p].labels EXCEPT ![t] = @ \ {"draft"}]
    BY <1>1 DEF RemoveLabels, Db
  <2>3. mem[p].labels \in [Task -> SUBSET StateLabel] /\ mem[p].status = disk.status
    BY <1>1 DEF Db, SingleWriter, SnapshotIsFresh
  <2>4. SnapshotShows(db, c)
    BY <1>1, <1>2, <2>2, <2>3 DEF SnapshotShows
  <2>5. t \notin torn => Evidence(db, t)
    <3>1. ASSUME t \notin torn PROVE Evidence(mem[p], t)
      BY <1>2, <2>1, <3>1 DEF Ready
    <3>2. db.labels[t] = mem[p].labels[t] \ {"draft"}
      BY <1>1, <2>2, <2>3
    <3>3. QED BY <2>2, <3>1, <3>2 DEF Evidence, LabelsMatch, NoteMatches
  <2>6. t \notin torn => Ready(c, "tests", db) /\ Evidence(disk', t)
    BY <1>2, <2>1, <2>5 DEF Ready, Trail
  <2>7. \A u \in Task \ {t} : /\ disk'.labels[u] = disk.labels[u] /\ disk'.note[u] = disk.note[u]
                              /\ disk'.status[u] = disk.status[u]
    <3>1. CASE disk' = disk
      BY <3>1
    <3>2. CASE disk' = db
      BY <2>2, <2>3, <2>4, <3>2 DEF SnapshotShows
    <3>3. QED BY <2>1, <3>1, <3>2
  <2> HIDE DEF db
  <2>8. QED BY <1>1, <2>1, <2>4, <2>6, <2>7, GoOnTrail DEF Trail
<1>4. CASE TestsPass(p)
  <2>1. /\ pc[p] = "tests" /\ disk' = disk /\ torn' = torn /\ cmd' = cmd /\ mem' = mem
        /\ pc'[p] = "status" /\ \A q \in Proc \ {p} : pc'[q] = pc[q]
    BY <1>4 DEF TestsPass, aux, TypeOK
  <2>2. t \notin torn => Ready(c, "status", mem[p]) /\ Evidence(disk, t)
    BY <1>2, <2>1 DEF Ready, Trail
  <2>3. QED BY <1>1, <1>2, <2>1, <2>2, GoOnTrail DEF Trail
<1>5. CASE TestsFail(p) \/ Crash(p)
  <2>1. /\ disk' = disk /\ pc'[p] = "idle" /\ \A q \in Proc \ {p} : pc'[q] = pc[q]
        /\ torn' = torn \/ torn' = torn \cup {t}
        /\ pc[p] \in Trail => torn' = torn \cup {t}
    BY <1>5 DEF TestsFail, Crash, Exit, aux, TypeOK, Trail
  <2>2. t \notin torn' => Evidence(disk', t)
    BY <1>2, <2>1
  <2>3. QED BY <1>1, <2>1, <2>2, GoOnTrail
<1>6. QED BY <1>3, <1>4, <1>5

LEMMA SaveStatusTrail ==
  ASSUME TypeOK, SingleWriter, TrailInv, NEW p \in Proc, SaveStatus(p)
  PROVE  TrailInv'
<1> DEFINE c == cmd[p]  t == c.task  w == WithStatus(c, mem[p])
<1>1. /\ pc[p] = "status" /\ c \in Command /\ t \in Task /\ mem[p] \in Db
      /\ mem[p].status = disk.status /\ mem[p].assignee = disk.assignee
      /\ SnapshotShows(mem[p], c) /\ (t \notin torn => Ready(c, "status", mem[p]))
  BY CommandTask DEF SaveStatus, TypeOK, SingleWriter, SnapshotIsFresh, TrailInv
<1>2. Guard(c, mem[p])
  <2>1. Guard(c, disk)
    BY <1>1 DEF SingleWriter, GuardStillHolds
  <2>2. QED BY <1>1, <2>1, GuardReadsRows
<1>3. /\ disk' = w /\ torn' = torn /\ \A q \in Proc \ {p} : pc'[q] = pc[q]
      /\ IF c.kind = "assign" THEN pc'[p] = "idle"
         ELSE pc'[p] = "labels" /\ cmd'[p] = c /\ mem'[p] = w
  BY DEF SaveStatus, Exit, TypeOK
<1>4. /\ w.labels = mem[p].labels /\ w.note = mem[p].note
      /\ w.status = [mem[p].status EXCEPT ![t] = TargetStatus(c, mem[p])]
  BY <1>1 DEF WithStatus, UpdateIssue, Db
<1>5. \A u \in Task \ {t} : /\ w.labels[u] = disk.labels[u] /\ w.note[u] = disk.note[u]
                            /\ w.status[u] = disk.status[u]
  BY <1>1, <1>4 DEF SnapshotShows, Db
<1>6. ASSUME t \notin torn \/ Repairs(c)
      PROVE  IF c.kind = "assign" THEN Evidence(w, t) ELSE Ready(c, "labels", w)
  BY <1>1, <1>2, <1>6, StatusGoesOn
<1> HIDE DEF w
<1>7. CASE c.kind = "assign"
  BY <1>1, <1>3, <1>5, <1>6, <1>7, GoOnTrail
<1>8. CASE c.kind # "assign"
  <2>1. SnapshotShows(w, c)
    BY <1>5 DEF SnapshotShows
  <2>2. QED BY <1>1, <1>3, <1>5, <1>6, <1>8, <2>1, GoOnTrail DEF Trail
<1>9. QED BY <1>7, <1>8

LEMMA SaveTrailTrail ==
  ASSUME TypeOK, SingleWriter, TrailInv, NEW p \in Proc, SaveTrail(p) \/ SaveFails(p)
  PROVE  TrailInv'
<1> DEFINE c == cmd[p]  t == c.task  w == Written(c, pc[p], mem[p])
<1>1. /\ pc[p] \in Trail \cup {"status"} /\ pc[p] # "idle"
      /\ c \in Command /\ t \in Task /\ mem[p] \in Db
      /\ mem[p].status = disk.status /\ SnapshotShows(mem[p], c)
  BY CommandTask DEF SaveTrail, SaveFails, TypeOK, SingleWriter, SnapshotIsFresh, TrailInv, Trail
<1>2. CASE disk' = disk /\ Exit(p) /\ torn' = IF pc[p] = "status" THEN torn ELSE torn \cup {t}
  <2>1. pc'[p] = "idle" /\ \A q \in Proc \ {p} : pc'[q] = pc[q]
    BY <1>2 DEF Exit, TypeOK
  <2>2. pc[p] = "status" => ~ Unfinished(t)
    BY DEF Unfinished, SingleWriter, OneAtATime, Trail
  <2>3. t \notin torn' => Evidence(disk', t)
    BY <1>1, <1>2, <2>2 DEF TrailInv
  <2>4. QED BY <1>1, <1>2, <2>1, <2>3, GoOnTrail
<1>3. CASE pc[p] \in Trail /\ \E db2 \in {w, disk} : disk' = db2 /\ Proceed(p, w, db2)
  <2>1. PICK db2 \in {w, disk} : disk' = db2 /\ Proceed(p, w, db2)
    BY <1>3
  <2>2. t \notin torn \/ Repairs(c) => Ready(c, After(c, pc[p]), w)
    <3>1. t \notin torn \/ Repairs(c) => Ready(c, pc[p], mem[p])
      BY <1>1, <1>3 DEF TrailInv
    <3>2. QED BY <1>1, <1>3, <3>1, TrailGoesOn
  <2>3. SnapshotShows(w, c) /\ w.status = disk.status
    <3>1. w.status = mem[p].status
      BY <1>1, <1>3, TrailKeepsRows DEF Trail
    <3>2. \A u \in Task \ {t} : w.labels[u] = mem[p].labels[u] /\ w.note[u] = mem[p].note[u]
      BY <1>1, <1>3, WrittenEntries
    <3>3. QED BY <1>1, <3>1, <3>2 DEF SnapshotShows
  <2>4. \A u \in Task \ {t} : /\ disk'.labels[u] = disk.labels[u] /\ disk'.note[u] = disk.note[u]
                              /\ disk'.status[u] = disk.status[u]
    BY <2>1, <2>3 DEF SnapshotShows
  <2>5. After(c, pc[p]) \in {"idle"} \cup Trail
    BY <1>1, <1>3, AfterType DEF Trail
  <2> HIDE DEF w
  <2>6. CASE After(c, pc[p]) = "idle"
    <3>1. Succeed(p, c, w, db2)
      BY <2>1, <2>6 DEF Proceed
    <3>2. /\ pc'[p] = "idle" /\ \A q \in Proc \ {p} : pc'[q] = pc[q]
          /\ torn' = IF w # db2 THEN torn \cup {t}
                     ELSE IF Repairs(c) THEN torn \ {t} ELSE torn
      BY <3>1 DEF Succeed, Exit, TypeOK, Repairs
    <3>3. ASSUME t \notin torn' PROVE Evidence(disk', t)
      <4>1. w = disk' /\ (t \notin torn \/ Repairs(c))
        BY <2>1, <3>2, <3>3
      <4>2. QED BY <2>2, <2>6, <4>1 DEF Ready
    <3>4. QED BY <1>1, <2>4, <3>2, <3>3, GoOnTrail
  <2>7. CASE After(c, pc[p]) \in Trail
    <3>1. /\ pc'[p] = After(c, pc[p]) /\ \A q \in Proc \ {p} : pc'[q] = pc[q]
          /\ mem'[p] = w /\ cmd'[p] = c /\ torn' = torn
      BY <2>1, <2>7 DEF Proceed, TypeOK, Trail
    <3>2. QED BY <1>1, <2>2, <2>3, <2>4, <2>7, <3>1, GoOnTrail
  <2>8. QED BY <2>5, <2>6, <2>7
<1>4. QED BY <1>2, <1>3 DEF SaveTrail, SaveFails, Fatal, Trail

LEMMA TrailNext ==
  ASSUME Exclusive, TypeOK, SingleWriter, TrailInv, [Next]_vars
  PROVE  TrailInv'
<1>1. CASE UNCHANGED vars
  BY <1>1 DEF vars, aux, TrailInv, SnapshotShows, Unfinished, Evidence, LabelsMatch, NoteMatches
<1>2. CASE Next
  BY <1>2, StartTrail, QuietTrail, SaveStatusTrail, SaveTrailTrail DEF Next, Continue
<1>3. QED BY <1>1, <1>2

(* With one orchestrator, labels and comments say what the status says,    *)
(* once a command is over: the writes after the status complete the        *)
(* evidence, ignored write errors are made good by the next write, and     *)
(* only a command that was cut short leaves a task that does not match.    *)
THEOREM EvidenceIsKept ==
  ASSUME Exclusive
  PROVE  Spec => []EvidenceMatchesStatus
<1>1. TypeOK /\ SingleWriter /\ TrailInv /\ [Next]_vars => TrailInv'
  BY TrailNext
<1>2. QED BY <1>1, TrailInit, TrailInvImplies, TypeCorrect, SingleWriterInvariant, PTL DEF Spec
-----------------------------------------------------------------------------
(* Without the documented discipline, commands may overlap at will.  A     *)
(* process that saves late then undoes what others wrote, so the steps of  *)
(* the file are no longer transitions of the lifecycle; but what it saves  *)
(* is still its own snapshot moved on by one transition.                   *)

(* What TaskLifecycle lets become of task t when the tables are s and o.   *)
Allowed(s, o, t, x, a) ==
  \/ /\ s[t] = "open" /\ o[t] = Nobody /\ (\A d \in Deps[t] : s[d] = "closed")
     /\ x = "in_progress" /\ a \in Actor
  \/ s[t] = "in_progress" /\ x = "open" /\ a = Nobody
  \/ s[t] = "in_progress" /\ x = "needs_review" /\ a = o[t]
  \/ s[t] = "needs_review" /\ x \in {"in_progress", "closed"} /\ a = o[t]
  \/ s[t] = "closed" /\ x = "in_progress" /\ a \in Actor
  \/ x = s[t]

(* One transition of TaskLifecycle, between two pairs of tables.           *)
Transition(s, o, s2, o2) ==
  \E t \in Task, x \in StoreStatus, a \in Actor \cup {Nobody} :
    /\ Allowed(s, o, t, x, a)
    /\ s2 = [s EXCEPT ![t] = x]
    /\ o2 = [o EXCEPT ![t] = a]

(* It is the lifecycle's next-state relation, read as a relation on data.  *)
LEMMA TransitionIsLifecycle ==
  ASSUME disk \in Db
  PROVE  Transition(disk.status, disk.assignee, disk'.status, disk'.assignee)
           <=> Lifecycle!Next
<1> DEFINE Life(t, a) ==
             \/ a \in Actor /\ (Lifecycle!Claim(t, a) \/ Lifecycle!Reopen(t, a))
             \/ Lifecycle!Release(t) \/ Lifecycle!Submit(t) \/ Lifecycle!Reject(t)
             \/ Lifecycle!Approve(t) \/ Lifecycle!Reassign(t, a)
           Changed(t, x, a) ==
             /\ disk'.status = [disk.status EXCEPT ![t] = x]
             /\ disk'.assignee = [disk.assignee EXCEPT ![t] = a]
<1>1. \A t \in Task : /\ Deps[t] \subseteq Task
                     /\ disk.status[t] \in StoreStatus
                     /\ disk.assignee[t] \in Actor \cup {Nobody}
  BY DEF Db
<1>2. ASSUME NEW t, NEW x, NEW a PROVE Lifecycle!Become(t, x, a) <=> Changed(t, x, a)
  BY DEF Lifecycle!Become
<1> HIDE DEF Changed
<1> USE DEF Lifecycle!Claim, Lifecycle!Release, Lifecycle!Submit, Lifecycle!Reject,
        Lifecycle!Approve, Lifecycle!Reopen, Lifecycle!Reassign, Lifecycle!DepsClosed
<1>3. ASSUME NEW t \in Task, NEW x \in StoreStatus, NEW a \in Actor \cup {Nobody},
             Allowed(disk.status, disk.assignee, t, x, a), Changed(t, x, a)
      PROVE  Lifecycle!Next
  <2>1. Life(t, a)
    BY <1>1, <1>2, <1>3 DEF Allowed
  <2>2. QED BY <2>1 DEF Lifecycle!Next
<1>4. ASSUME NEW t \in Task, NEW a \in Actor \cup {Nobody}, Life(t, a)
      PROVE  \E x \in StoreStatus, b \in Actor \cup {Nobody} :
               Allowed(disk.status, disk.assignee, t, x, b) /\ Changed(t, x, b)
  BY <1>1, <1>2, <1>4 DEF Allowed, StoreStatus
<1>5. ASSUME Lifecycle!Next
      PROVE  Transition(disk.status, disk.assignee, disk'.status, disk'.assignee)
  <2>1. \E t \in Task, a \in Actor \cup {Nobody} : Life(t, a)
    BY <1>5 DEF Lifecycle!Next
  <2>2. QED BY <1>4, <2>1 DEF Transition, Changed
<1>6. ASSUME Transition(disk.status, disk.assignee, disk'.status, disk'.assignee)
      PROVE  Lifecycle!Next
  BY <1>3, <1>6 DEF Transition, Changed
<1>7. QED BY <1>5, <1>6

(* A set of pairs of tables that holds the initial one and that no         *)
(* transition leaves: what every history of the lifecycle stays inside.    *)
LifecycleStaysIn(R) ==
  /\ <<[t \in Task |-> "open"], [t \in Task |-> Nobody]>> \in R
  /\ \A s, o, s2, o2 : <<s, o>> \in R /\ Transition(s, o, s2, o2) => <<s2, o2>> \in R

Tables(db) == <<db.status, db.assignee>>

(* The file, every snapshot and every pending decision stay inside R.      *)
Inside(R) ==
  /\ Tables(disk) \in R
  /\ \A p \in Proc : pc[p] # "idle" =>
       /\ Tables(mem[p]) \in R
       /\ pc[p] = "status" => Guard(cmd[p], mem[p])
       /\ pc[p] \in {"undraft", "tests"} => cmd[p].kind = "validate"

(* A command that passed its guard moves its snapshot by one transition.   *)
LEMMA GuardedSaveIsTransition ==
  ASSUME NEW c \in Command, NEW db \in Db, Guard(c, db)
  PROVE  Transition(db.status, db.assignee,
                    WithStatus(c, db).status, WithStatus(c, db).assignee)
<1> DEFINE x == TargetStatus(c, db)  a == TargetAssignee(c, db)
<1>1. /\ WithStatus(c, db).status = [db.status EXCEPT ![c.task] = x]
      /\ WithStatus(c, db).assignee = [db.assignee EXCEPT ![c.task] = a]
  BY WithStatusRows
<1>2. /\ c.task \in Task /\ c.kind \in Kind
      /\ c.kind \in {"claim", "release", "reopen"} => c.actor \in Actor
      /\ x \in StoreStatus /\ a \in Actor \cup {Nobody}
  BY DEF Command, TargetStatus, TargetAssignee, Kind, Db, StoreStatus
<1>3. Allowed(db.status, db.assignee, c.task, x, a)
  BY <1>2 DEF Allowed, TargetStatus, TargetAssignee, Guard, CanClaim, DepsClosed, CanRelease, Kind
<1>4. QED BY <1>1, <1>2, <1>3 DEF Transition

(* A step of p that leaves its tables and those of the file inside R.      *)
LEMMA OneMoves ==
  ASSUME NEW R, TypeOK, Inside(R), NEW p \in Proc, Tables(disk') \in R,
         \A q \in Proc \ {p} : pc'[q] = pc[q] /\ mem'[q] = mem[q] /\ cmd'[q] = cmd[q],
         pc'[p] # "idle" =>
           /\ Tables(mem'[p]) \in R
           /\ pc'[p] = "status" => Guard(cmd'[p], mem'[p])
           /\ pc'[p] \in {"undraft", "tests"} => cmd'[p].kind = "validate"
  PROVE  Inside(R)'
BY DEF Inside

LEMMA StartStaysInside ==
  ASSUME NEW R, TypeOK, Inside(R), NEW p \in Proc, Start(p)
  PROVE  Inside(R)'
<1>1. PICK c \in Command, first \in {"status", "undraft", "tests"} :
        /\ Begin(p, c, first)
        /\ first = "status" => Guard(c, disk)
        /\ first # "status" => c.kind = "validate"
  BY StartIsBegin
<1>2. /\ pc'[p] = first /\ cmd'[p] = c /\ mem'[p] = disk /\ disk' = disk
      /\ \A q \in Proc \ {p} : pc'[q] = pc[q] /\ mem'[q] = mem[q] /\ cmd'[q] = cmd[q]
  BY <1>1 DEF Begin, TypeOK
<1>3. Tables(disk) \in R
  BY DEF Inside
<1>4. QED BY <1>1, <1>2, <1>3, OneMoves

LEMMA ExitStaysInside ==
  ASSUME NEW R, TypeOK, Inside(R), NEW p \in Proc, Exit(p), Tables(disk') \in R
  PROVE  Inside(R)'
<1>1. /\ pc'[p] = "idle"
      /\ \A q \in Proc \ {p} : pc'[q] = pc[q] /\ mem'[q] = mem[q] /\ cmd'[q] = cmd[q]
  BY DEF Exit, TypeOK
<1>2. QED BY <1>1, OneMoves

LEMMA ProceedStaysInside ==
  ASSUME NEW R, TypeOK, Inside(R), NEW p \in Proc, Tables(disk') \in R,
         pc[p] \in {"labels", "note", "remark", "draft"},
         NEW db, NEW db2, Tables(db) \in R, Proceed(p, db, db2)
  PROVE  Inside(R)'
<1>1. cmd[p] \in Command
  BY DEF TypeOK
<1>2. After(cmd[p], pc[p]) \in {"idle", "labels", "note", "remark", "draft"}
  BY <1>1, AfterType
<1>3. CASE After(cmd[p], pc[p]) = "idle"
  BY <1>3, ExitStaysInside DEF Proceed, Succeed
<1>4. CASE After(cmd[p], pc[p]) # "idle"
  <2>1. /\ pc'[p] \in {"labels", "note", "remark", "draft"} /\ mem'[p] = db
        /\ \A q \in Proc \ {p} : pc'[q] = pc[q] /\ mem'[q] = mem[q] /\ cmd'[q] = cmd[q]
    BY <1>2, <1>4 DEF Proceed, TypeOK
  <2>2. QED BY <2>1, OneMoves
<1>5. QED BY <1>3, <1>4

LEMMA ContinueStaysInside ==
  ASSUME NEW R, LifecycleStaysIn(R), TypeOK, Inside(R), NEW p \in Proc, Continue(p)
  PROVE  Inside(R)'
<1> DEFINE c == cmd[p]  db == mem[p]
<1>1. Tables(disk) \in R
  BY DEF Inside
<1>2. pc[p] # "idle"
  BY DEF Continue, Undraft, TestsPass, TestsFail, SaveStatus, SaveTrail, SaveFails, Crash
<1>3. /\ c \in Command /\ c.task \in Task /\ db \in Db
      /\ Tables(db) \in R
      /\ pc[p] = "status" => Guard(c, db)
      /\ pc[p] \in {"undraft", "tests"} => c.kind = "validate"
  BY <1>2, CommandTask DEF TypeOK, Inside
<1>4. CASE Undraft(p)
  <2> DEFINE w == RemoveLabels(db, c.task, {"draft"})
  <2>1. Tables(w) \in R
    BY <1>3, UndraftKeepsRows DEF Tables
  <2>2. /\ Tables(disk') \in R /\ pc[p] = "undraft" /\ pc'[p] = "tests" /\ mem'[p] = w /\ cmd' = cmd
        /\ \A q \in Proc \ {p} : pc'[q] = pc[q] /\ mem'[q] = mem[q]
    BY <1>1, <1>4, <2>1 DEF Undraft, TypeOK
  <2>3. QED BY <1>3, <2>1, <2>2, OneMoves
<1>5. CASE TestsPass(p)
  <2>1. /\ pc[p] = "tests" /\ pc'[p] = "status" /\ disk' = disk /\ mem' = mem /\ cmd' = cmd
        /\ \A q \in Proc \ {p} : pc'[q] = pc[q]
        /\ db.status[c.task] = "in_progress"
    BY <1>5 DEF TestsPass, TypeOK
  <2>2. Guard(c, db)
    BY <1>3, <2>1 DEF Guard
  <2>3. QED BY <1>1, <1>3, <2>1, <2>2, OneMoves
<1>6. CASE TestsFail(p) \/ Crash(p)
  BY <1>1, <1>6, ExitStaysInside DEF TestsFail, Crash
<1>7. CASE SaveStatus(p)
  <2> DEFINE w == WithStatus(c, db)
  <2>1. Transition(db.status, db.assignee, w.status, w.assignee)
    BY <1>3, <1>7, GuardedSaveIsTransition DEF SaveStatus
  <2>2. Tables(w) \in R
    BY <1>3, <2>1 DEF LifecycleStaysIn, Tables
  <2>3. disk' = w
    BY <1>7 DEF SaveStatus
  <2>4. CASE c.kind = "assign"
    BY <1>7, <2>2, <2>3, <2>4, ExitStaysInside DEF SaveStatus
  <2>5. CASE c.kind # "assign"
    <3>1. /\ pc'[p] = "labels" /\ mem'[p] = w
          /\ \A q \in Proc \ {p} : pc'[q] = pc[q] /\ mem'[q] = mem[q] /\ cmd'[q] = cmd[q]
      BY <1>7, <2>5 DEF SaveStatus, TypeOK
    <3>2. QED BY <2>2, <2>3, <3>1, OneMoves
  <2>6. QED BY <2>4, <2>5
<1>8. ASSUME pc[p] \in {"labels", "note", "remark", "draft"}
      PROVE  Tables(Written(c, pc[p], db)) \in R
  BY <1>3, <1>8, TrailKeepsRows DEF Tables
<1>9. CASE SaveTrail(p)
  <2>1. /\ pc[p] \in {"labels", "note", "remark", "draft"}
        /\ disk' = Written(c, pc[p], db) /\ Proceed(p, disk', disk')
    BY <1>9 DEF SaveTrail
  <2>2. QED BY <1>8, <2>1, ProceedStaysInside
<1>10. CASE SaveFails(p)
  <2>1. disk' = disk
    BY <1>10 DEF SaveFails
  <2>2. CASE Fatal(c, pc[p])
    BY <1>1, <1>10, <2>1, <2>2, ExitStaysInside DEF SaveFails
  <2>3. CASE ~ Fatal(c, pc[p])
    <3>1. pc[p] \in {"labels", "note", "remark", "draft"}
      BY <1>10, <2>3 DEF SaveFails, Fatal
    <3>2. Proceed(p, Written(c, pc[p], db), disk)
      BY <1>10, <2>3 DEF SaveFails
    <3>3. QED BY <1>1, <1>8, <2>1, <3>1, <3>2, ProceedStaysInside
  <2>4. QED BY <2>2, <2>3
<1>11. QED BY <1>4, <1>5, <1>6, <1>7, <1>9, <1>10 DEF Continue

LEMMA InsideIsInductive ==
  ASSUME NEW R, LifecycleStaysIn(R)
  PROVE  /\ Init => Inside(R)
         /\ TypeOK /\ Inside(R) /\ [Next]_vars => Inside(R)'
<1>1. Init => Inside(R)
  BY DEF Init, Inside, LifecycleStaysIn, Tables
<1>2. ASSUME Inside(R), UNCHANGED vars PROVE Inside(R)'
  BY <1>2 DEF Inside, vars
<1>3. QED BY <1>1, <1>2, StartStaysInside, ContinueStaysInside DEF Next

(* However many commands overlap, are killed or fail to write, and whoever *)
(* runs them, the statuses and owners in the file are always ones that the *)
(* lifecycle alone could have reached: a race loses transitions (the run   *)
(* that drops the discipline shows a double claim) but never invents one.  *)
THEOREM RacesInventNothing ==
  ASSUME NEW R, LifecycleStaysIn(R)
  PROVE  Spec => [](Tables(disk) \in R)
<1>1. Inside(R) => Tables(disk) \in R
  BY DEF Inside
<1>2. /\ Init => Inside(R)
      /\ TypeOK /\ Inside(R) /\ [Next]_vars => Inside(R)'
  BY InsideIsInductive
<1>3. QED BY <1>1, <1>2, TypeCorrect, PTL DEF Spec

(* In particular no race starts work on tasks that wait for each other: a  *)
(* task of a dependency cycle, and a task behind one, stays open for good. *)
THEOREM TiedTasksStayOpen ==
  ASSUME NEW S \in SUBSET Task, \A t \in S : Deps[t] \cap S # {}
  PROVE  Spec => [](\A t \in S : disk.status[t] = "open")
<1> DEFINE Asleep(s) == \A t \in S : s[t] = "open"
           R == {x \in [Task -> StoreStatus] \X [Task -> Actor \cup {Nobody}] : Asleep(x[1])}
<1>1. <<[t \in Task |-> "open"], [t \in Task |-> Nobody]>> \in R
  BY DEF StoreStatus
<1>2. ASSUME NEW s, NEW o, NEW s2, NEW o2, <<s, o>> \in R, Transition(s, o, s2, o2)
      PROVE  <<s2, o2>> \in R
  <2>1. s \in [Task -> StoreStatus] /\ o \in [Task -> Actor \cup {Nobody}] /\ Asleep(s)
    BY <1>2
  <2>2. PICK t \in Task, x \in StoreStatus, a \in Actor \cup {Nobody} :
          /\ s2 = [s EXCEPT ![t] = x] /\ o2 = [o EXCEPT ![t] = a]
          /\ Allowed(s, o, t, x, a)
    BY <1>2 DEF Transition
  <2>3. ASSUME t \in S PROVE x = "open"
    <3>1. s[t] = "open"
      BY <2>1, <2>3
    <3>2. PICK d \in Deps[t] : s[d] = "open"
      BY <2>1, <2>3
    <3>3. QED BY <2>2, <3>1, <3>2 DEF Allowed
  <2>4. s2 \in [Task -> StoreStatus] /\ o2 \in [Task -> Actor \cup {Nobody}] /\ Asleep(s2)
    BY <2>1, <2>2, <2>3
  <2>5. QED BY <2>4
<1>3. LifecycleStaysIn(R)
  BY <1>1, <1>2 DEF LifecycleStaysIn
<1>4. Inside(R) => \A t \in S : disk.status[t] = "open"
  BY DEF Inside, Tables
<1> HIDE DEF R
<1>5. /\ Init => Inside(R)
      /\ TypeOK /\ Inside(R) /\ [Next]_vars => Inside(R)'
  BY <1>3, InsideIsInductive
<1>6. QED BY <1>4, <1>5, TypeCorrect, PTL DEF Spec
=============================================================================
