---------------------------- MODULE Transitioner ----------------------------
(***************************************************************************)
(* The pt commands that move a task through its lifecycle: cmdClaim,       *)
(* cmdRelease, cmdValidate, cmdApprove, cmdReject, cmdReopen and           *)
(* `pt update --assignee` (cmd/pt/main.go), on top of                      *)
(* pkg/pt/transitioner.go and the StoreClient of pkg/pt/store.go.          *)
(*                                                                         *)
(* A command is one operating-system process.  It reads the whole store    *)
(* file once (NewStoreClient), decides on that snapshot, and then changes  *)
(* its own copy and writes the WHOLE copy back after each store call: the  *)
(* status first, then the labels, then the comment, one file replacement   *)
(* each.  The file lock is held only inside one read or one write, and     *)
(* the file is never read again, so what another process wrote meanwhile   *)
(* is overwritten.  Between two writes the process may be killed; a write  *)
(* may fail, and some callers ignore the error.                            *)
(*                                                                         *)
(* Abstractions.  Dependencies are fixed here (Planning changes them).  Of *)
(* a task's comments only the latest that records a transition is kept (a  *)
(* rejection and a reopening are both "returned"); a free-text comment is  *)
(* a write that changes nothing here; of the labels only state:* is kept.  *)
(* A command that a guard, a gate or a pre-hook refuses leaves the store   *)
(* untouched: it is a Begin that did not happen.                           *)
(***************************************************************************)
EXTENDS FiniteSets

CONSTANTS
  Task, Actor, Nobody, Deps,
  Proc,       \* process slots: how many pt processes may exist at once
  Exclusive,  \* TRUE: the documented regime, one state-changing command at a time
  None        \* no snapshot, no command: the slot holds no process

ASSUME TransitionerAssumption ==
  /\ Nobody \notin Actor
  /\ Deps \in [Task -> SUBSET Task]
  /\ Exclusive \in BOOLEAN

VARIABLES
  disk,   \* the store file: a Db
  pc,     \* pc[p]: what process p does next
  cmd,    \* cmd[p]: the command line of p
  mem,    \* mem[p]: p's copy of the store (StoreClient.data)
  last,   \* auxiliary: last[t], the row the latest command on t wrote for t
  held,   \* auxiliary: held[t], who was told "claimed" and has not given t back
  torn    \* auxiliary: tasks whose command ended with a label or comment unsaved

aux == <<last, held, torn>>
vars == <<disk, pc, cmd, mem, aux>>

StoreStatus == {"open", "in_progress", "needs_review", "closed"}
StateLabel == {"claimed", "needs_review", "draft"}
Note == {"none", "validated", "approved", "returned"}

Db == [status : [Task -> StoreStatus],
       assignee : [Task -> Actor \cup {Nobody}],
       labels : [Task -> SUBSET StateLabel],
       note : [Task -> Note]]

Row == [status : StoreStatus, assignee : Actor \cup {Nobody}]
RowOf(db, t) == [status |-> db.status[t], assignee |-> db.assignee[t]]

(* Options: claim --draft; "remark" is claim --override-soft=REASON and    *)
(* approve --comment=TEXT, each of which adds one more comment.            *)
Kind == {"claim", "release", "validate", "approve", "reject", "reopen", "assign"}
Option == {"draft", "remark"}
Command ==
  {c \in [kind : Kind, task : Task, actor : Actor \cup {Nobody}, opts : SUBSET Option] :
     c.kind \in {"claim", "release", "reopen"} => c.actor \in Actor}
Step == {"idle", "undraft", "tests", "status", "labels", "note", "remark", "draft"}

\* A store file after pt sync: every task open, unassigned, unlabelled.
Init ==
  /\ disk = [status |-> [t \in Task |-> "open"],
             assignee |-> [t \in Task |-> Nobody],
             labels |-> [t \in Task |-> {}],
             note |-> [t \in Task |-> "none"]]
  /\ pc = [p \in Proc |-> "idle"]
  /\ cmd = [p \in Proc |-> None]
  /\ mem = [p \in Proc |-> None]
  /\ last = [t \in Task |-> [status |-> "open", assignee |-> Nobody]]
  /\ held = [t \in Task |-> {}]
  /\ torn = {}
-----------------------------------------------------------------------------
(* Store calls, as functions of a snapshot.                                *)

UpdateIssue(db, t, s, a) ==
  [db EXCEPT !.status[t] = s, !.assignee[t] = a]

AddLabels(db, t, ls) == [db EXCEPT !.labels[t] = @ \cup ls]

RemoveLabels(db, t, ls) == [db EXCEPT !.labels[t] = @ \ ls]

AddComment(db, t, n) == [db EXCEPT !.note[t] = n]

(* StateManager's guards on a snapshot; loadIssueState hands it the task   *)
(* and its direct dependencies.                                            *)
DepsClosed(db, t) == \A d \in Deps[t] : db.status[d] = "closed"

\* A guard that looks at the task alone.
CanClaimIgnoringDeps(db, t) == db.status[t] = "open" /\ db.assignee[t] = Nobody

CanClaim(db, t) ==
  /\ db.status[t] = "open"
  /\ DepsClosed(db, t)
  /\ db.assignee[t] = Nobody

CanRelease(db, t, a) ==
  /\ db.status[t] = "in_progress"
  /\ db.assignee[t] \in {Nobody, a}

(* What a command's UpdateIssue call writes; for the assignee "" means     *)
(* "leave it" and "-" means "clear it".                                    *)
TargetStatus(c, db) ==
  CASE c.kind \in {"claim", "reject", "reopen"} -> "in_progress"
    [] c.kind = "release" -> "open"
    [] c.kind = "validate" -> "needs_review"
    [] c.kind = "approve" -> "closed"
    [] c.kind = "assign" -> db.status[c.task]

\* A store that files the "-" of Release away as a name.
TargetAssigneeVerbatim(c, db) ==
  CASE c.kind \in {"claim", "reopen", "assign"} -> c.actor
    [] c.kind = "release" -> "-"
    [] c.kind \in {"validate", "approve", "reject"} -> db.assignee[c.task]

TargetAssignee(c, db) ==
  CASE c.kind \in {"claim", "reopen", "assign"} -> c.actor
    [] c.kind = "release" -> Nobody
    [] c.kind \in {"validate", "approve", "reject"} -> db.assignee[c.task]

WithStatus(c, db) == UpdateIssue(db, c.task, TargetStatus(c, db), TargetAssignee(c, db))

\* Approve and Release dropping the review label only.
WithLabelsKeepingClaim(c, db) ==
  CASE c.kind \in {"claim", "reopen"} -> AddLabels(db, c.task, {"claimed"})
    [] c.kind = "validate" -> AddLabels(db, c.task, {"needs_review"})
    [] OTHER -> RemoveLabels(db, c.task, {"needs_review"})

\* The label call that follows the status.
WithLabels(c, db) ==
  CASE c.kind \in {"claim", "reopen"} -> AddLabels(db, c.task, {"claimed"})
    [] c.kind = "validate" -> AddLabels(db, c.task, {"needs_review"})
    [] c.kind = "reject" -> RemoveLabels(db, c.task, {"needs_review"})
    [] OTHER -> RemoveLabels(db, c.task, {"claimed", "needs_review"})

\* The comment the transition records.
WithNote(c, db) ==
  AddComment(db, c.task,
             CASE c.kind = "validate" -> "validated"
               [] c.kind = "approve" -> "approved"
               [] OTHER -> "returned")

(* The step after `at`, "idle" when the command is over.                   *)
After(c, at) ==
  IF at = "status" THEN IF c.kind = "assign" THEN "idle" ELSE "labels"
  ELSE IF at = "labels" /\ c.kind \in {"validate", "approve", "reject", "reopen"} THEN "note"
  ELSE IF at \in {"labels", "note"} /\ "remark" \in c.opts THEN "remark"
  ELSE IF at \in {"labels", "remark"} /\ "draft" \in c.opts THEN "draft"
  ELSE "idle"

(* Whether the caller returns the error of a failed write at this step     *)
(* (Release, Approve, Reject and Reopen drop the error of the label call,  *)
(* Approve and Reopen that of the comment).                                *)
Fatal(c, at) ==
  CASE at = "labels" -> c.kind \in {"claim", "validate"}
    [] at = "note" -> c.kind \in {"validate", "reject"}
    [] at = "undraft" -> FALSE
    [] OTHER -> TRUE
-----------------------------------------------------------------------------
(* A process starts: it loads the file and takes its decision on it.       *)

Begin(p, c, first) ==
  /\ pc[p] = "idle"
  /\ Exclusive => \A q \in Proc : pc[q] = "idle"
  /\ pc' = [pc EXCEPT ![p] = first]
  /\ cmd' = [cmd EXCEPT ![p] = c]
  /\ mem' = [mem EXCEPT ![p] = disk]
  /\ UNCHANGED <<disk, aux>>

CommandLine(k, t, a, o) == [kind |-> k, task |-> t, actor |-> a, opts |-> o]

BeginClaim(p, t, a, o) ==
  CanClaim(disk, t) /\ Begin(p, CommandLine("claim", t, a, o), "status")

BeginRelease(p, t, a) ==
  CanRelease(disk, t, a) /\ Begin(p, CommandLine("release", t, a, {}), "status")

(* cmdValidate looks at the draft label before anything else, and at the   *)
(* status only once the tests have passed.                                 *)
BeginValidate(p, t) ==
  Begin(p, CommandLine("validate", t, Nobody, {}),
        IF "draft" \in disk.labels[t] THEN "undraft" ELSE "tests")

BeginApprove(p, t, o) ==
  disk.status[t] = "needs_review" /\ Begin(p, CommandLine("approve", t, Nobody, o), "status")

BeginReject(p, t) ==
  disk.status[t] = "needs_review" /\ Begin(p, CommandLine("reject", t, Nobody, {}), "status")

BeginReopen(p, t, a) ==
  disk.status[t] = "closed" /\ Begin(p, CommandLine("reopen", t, a, {}), "status")

\* pt update --assignee; an unchanged assignee is not written, but "-" always is.
BeginAssign(p, t, a) ==
  /\ a = disk.assignee[t] => a = Nobody
  /\ Begin(p, CommandLine("assign", t, a, {}), "status")
-----------------------------------------------------------------------------
(* The process goes on.                                                    *)

Exit(p) ==
  /\ pc' = [pc EXCEPT ![p] = "idle"]
  /\ cmd' = [cmd EXCEPT ![p] = None]
  /\ mem' = [mem EXCEPT ![p] = None]

\* Exit status 0 with the snapshot db in memory and db2 in the file.
Succeed(p, c, db, db2) ==
  /\ Exit(p)
  /\ held' = IF c.kind \in {"claim", "reopen"}
             THEN [held EXCEPT ![c.task] = @ \cup {c.actor}] ELSE held
  /\ torn' = IF db # db2 THEN torn \cup {c.task}
             ELSE IF c.kind \in {"approve", "release"} THEN torn \ {c.task} ELSE torn

\* Go on to the step after pc[p], the process now holding db, the file db2.
Proceed(p, db, db2) ==
  LET c == cmd[p]  next == After(c, pc[p]) IN
  IF next = "idle"
  THEN Succeed(p, c, db, db2)
  ELSE /\ pc' = [pc EXCEPT ![p] = next]
       /\ mem' = [mem EXCEPT ![p] = db]
       /\ UNCHANGED <<cmd, held, torn>>

(* pt validate on a draft task: the label goes before the tests are run,   *)
(* and an error of that write is ignored.                                  *)
Undraft(p) ==
  /\ pc[p] = "undraft"
  /\ LET db == RemoveLabels(mem[p], cmd[p].task, {"draft"}) IN
     /\ disk' \in {db, disk}
     /\ mem' = [mem EXCEPT ![p] = db]
  /\ pc' = [pc EXCEPT ![p] = "tests"]
  /\ UNCHANGED <<cmd, aux>>

(* The DoD tests, up to PT_VALIDATE_TIMEOUT long; SubmitForReview's guard  *)
(* is evaluated on the snapshot taken before them.                         *)
TestsPass(p) ==
  /\ pc[p] = "tests"
  /\ mem[p].status[cmd[p].task] = "in_progress"
  /\ pc' = [pc EXCEPT ![p] = "status"]
  /\ UNCHANGED <<disk, cmd, mem, aux>>

TestsFail(p) == pc[p] = "tests" /\ Exit(p) /\ UNCHANGED <<disk, aux>>

\* A transitioner that saves the status on a copy of the snapshot it keeps.
SaveStatusOnACopy(p) ==
  LET c == cmd[p]  db == WithStatus(c, mem[p]) IN
  /\ pc[p] = "status"
  /\ disk' = db
  /\ last' = [last EXCEPT ![c.task] = RowOf(db, c.task)]
  /\ IF c.kind = "assign"
     THEN Exit(p) /\ held' = [held EXCEPT ![c.task] = {}] /\ UNCHANGED torn
     ELSE /\ pc' = [pc EXCEPT ![p] = "labels"]
          /\ held' = IF c.kind \in {"release", "approve"}
                     THEN [held EXCEPT ![c.task] = {}] ELSE held
          /\ UNCHANGED <<cmd, mem, torn>>

\* UpdateIssue (UpdateTask for assign): a file replacement.
SaveStatus(p) ==
  LET c == cmd[p]  db == WithStatus(c, mem[p]) IN
  /\ pc[p] = "status"
  /\ disk' = db
  /\ last' = [last EXCEPT ![c.task] = RowOf(db, c.task)]
  /\ IF c.kind = "assign"
     THEN Exit(p) /\ held' = [held EXCEPT ![c.task] = {}] /\ UNCHANGED torn
     ELSE /\ pc' = [pc EXCEPT ![p] = "labels"]
          /\ mem' = [mem EXCEPT ![p] = db]
          /\ held' = IF c.kind \in {"release", "approve"}
                     THEN [held EXCEPT ![c.task] = {}] ELSE held
          /\ UNCHANGED <<cmd, torn>>

\* The snapshot after the label, comment or draft write of step `at`.
Written(c, at, db) ==
  CASE at = "labels" -> WithLabels(c, db)
    [] at = "note" -> WithNote(c, db)
    [] at = "remark" -> db
    [] OTHER -> AddLabels(db, c.task, {"draft"})

SaveTrail(p) ==
  /\ pc[p] \in {"labels", "note", "remark", "draft"}
  /\ disk' = Written(cmd[p], pc[p], mem[p])
  /\ Proceed(p, disk', disk')
  /\ UNCHANGED last

(* A write fails.  A fatal error ends the command; an ignored one leaves   *)
(* the change in memory, where the next write will pick it up.             *)
SaveFails(p) ==
  /\ pc[p] \in {"status", "labels", "note", "remark", "draft"}
  /\ IF Fatal(cmd[p], pc[p])
     THEN /\ Exit(p)
          /\ torn' = IF pc[p] = "status" THEN torn ELSE torn \cup {cmd[p].task}
          /\ UNCHANGED held
     ELSE Proceed(p, Written(cmd[p], pc[p], mem[p]), disk)
  /\ UNCHANGED <<disk, last>>

\* Killed where UpdateIssue replaces the file for the status, then for the assignee.
CrashInsideUpdate(p) ==
  LET c == cmd[p]
      half == UpdateIssue(mem[p], c.task, TargetStatus(c, mem[p]), mem[p].assignee[c.task])
  IN /\ pc[p] # "idle"
     /\ Exit(p)
     /\ disk' \in IF pc[p] = "status" THEN {disk, half} ELSE {disk}
     /\ torn' = IF pc[p] \in {"undraft", "tests", "status"} THEN torn ELSE torn \cup {c.task}
     /\ UNCHANGED <<last, held>>

\* Killed between two writes (the replacement itself is an atomic rename).
Crash(p) ==
  /\ pc[p] # "idle"
  /\ Exit(p)
  /\ torn' = IF pc[p] \in {"undraft", "tests", "status"} THEN torn
             ELSE torn \cup {cmd[p].task}
  /\ UNCHANGED <<disk, last, held>>

Start(p) ==
  \E t \in Task :
    \/ \E a \in Actor, o \in SUBSET Option : BeginClaim(p, t, a, o)
    \/ \E a \in Actor : BeginRelease(p, t, a)
    \/ BeginValidate(p, t)
    \/ \E o \in SUBSET {"remark"} : BeginApprove(p, t, o)
    \/ BeginReject(p, t)
    \/ \E a \in Actor : BeginReopen(p, t, a)
    \/ \E a \in Actor \cup {Nobody} : BeginAssign(p, t, a)

Continue(p) ==
  \/ Undraft(p) \/ TestsPass(p) \/ TestsFail(p)
  \/ SaveStatus(p) \/ SaveTrail(p) \/ SaveFails(p) \/ Crash(p)

Next == \E p \in Proc : Start(p) \/ Continue(p)

Spec == Init /\ [][Next]_vars
-----------------------------------------------------------------------------
(* Every variable keeps its range; a process holds a snapshot exactly      *)
(* while it runs.                                                          *)
TypeOK ==
  /\ disk \in Db
  /\ pc \in [Proc -> Step]
  /\ \A p \in Proc : pc[p] # "idle" => cmd[p] \in Command /\ mem[p] \in Db
  /\ DOMAIN cmd = Proc /\ DOMAIN mem = Proc
  /\ last \in [Task -> Row]
  /\ held \in [Task -> SUBSET Actor]
  /\ torn \subseteq Task

(* Durability of a transition: the file always shows, for every task, the  *)
(* status and assignee that the latest command on that task wrote.  A      *)
(* crash or an ignored write error in the middle of a command never undoes *)
(* the transition of this or of another task.                              *)
NoLostUpdate == \A t \in Task : RowOf(disk, t) = last[t]

(* Whoever pt told "claimed" or "reopened", and who has not released the   *)
(* task, seen it approved or had it reassigned, is its assignee in the     *)
(* file, and the task is in progress or under review.                      *)
HolderOwnsTask ==
  \A t \in Task : \A a \in held[t] :
    RowOf(disk, t) \in [status : {"in_progress", "needs_review"}, assignee : {a}]

(* At most one identity has been told that the task is its own.            *)
NoDoubleClaim == \A t \in Task : \A a, b \in held[t] : a = b

Busy(t) == \E p \in Proc : pc[p] # "idle" /\ cmd[p].task = t

(* The evidence people read agrees with the status: unless a command was   *)
(* cut short on the task, state:claimed and state:needs_review say what    *)
(* the status says, a closed task carries its approval comment and a task  *)
(* under review its validation comment.  A later approval or release puts  *)
(* a task that was cut short right again.                                  *)
EvidenceMatchesStatus ==
  \A t \in Task \ torn : ~ Busy(t) =>
    /\ "claimed" \in disk.labels[t] <=> disk.status[t] \in {"in_progress", "needs_review"}
    /\ "needs_review" \in disk.labels[t] <=> disk.status[t] = "needs_review"
    /\ disk.status[t] = "closed" => disk.note[t] = "approved"
    /\ disk.status[t] = "needs_review" => disk.note[t] = "validated"

(* The file goes through the promised lifecycle and nothing else: every    *)
(* write is one of its transitions (claim with closed dependencies only)   *)
(* or changes no status and no assignee.                                   *)
Lifecycle == INSTANCE TaskLifecycle WITH status <- disk.status, owner <- disk.assignee

ImplementsLifecycle == Lifecycle!Spec
=============================================================================
