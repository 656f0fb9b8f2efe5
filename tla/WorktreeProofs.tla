---------------------------- MODULE WorktreeProofs ----------------------------
(***************************************************************************)
(* Worktrees, for every set of tasks, branches and pieces of work and any  *)
(* number of pt processes, agents and mishaps: no work is lost, and while  *)
(* commands do not overlap the store's records keep up with git.           *)
(***************************************************************************)
EXTENDS Worktree, TLAPS

USE WorktreeAssumption

Records == [Task -> Branch \cup {None}]

(* Git's own consistency: what is checked out exists, and only a worktree  *)
(* that is there has uncommitted edits.                                    *)
GitTypes ==
  /\ dirs \subseteq registered /\ registered \subseteq branches /\ branches \subseteq Branch
  /\ tip \in [Branch -> SUBSET Work] /\ pending \in [Branch -> SUBSET Work]
  /\ main \in SUBSET Work /\ merging \in SUBSET Work

SlotTypes ==
  /\ pc \in [Proc -> Step]
  /\ cmd = [p \in Proc |-> cmd[p]] /\ mem = [p \in Proc |-> mem[p]]
  /\ \A p \in Proc : pc[p] # "idle" => cmd[p] \in Command /\ mem[p] \in Records

AuxTypes ==
  /\ trouble \in 0 .. MaxTrouble
  /\ made \in SUBSET Work /\ discarded \in SUBSET Work
  /\ cut \in SUBSET Branch /\ overlapped \in BOOLEAN /\ byHand \in BOOLEAN

Types == record \in Records /\ GitTypes /\ SlotTypes /\ AuxTypes

EditsAreInWorktrees == \A b \in Branch : pending[b] # {} => b \in dirs

Inv == Types /\ EditsAreInWorktrees /\ NoWorkLost

LEMMA TypesAreTypeOK == Types => TypeOK
BY DEF Types, TypeOK, Records, GitTypes, SlotTypes, AuxTypes

LEMMA InitInv == Init => Inv
<1> SUFFICES ASSUME Init PROVE Inv
  OBVIOUS
<1>1. AuxTypes
  <2>1. 0 \in 0 .. MaxTrouble
    BY SMT
  <2>2. trouble \in 0 .. MaxTrouble
    <3>1. trouble = 0
      BY DEF Init
    <3>2. QED BY <2>1, <3>1, Zenon
  <2>3. overlapped = FALSE /\ byHand = FALSE
    BY DEF Init
  <2>4. overlapped \in BOOLEAN /\ byHand \in BOOLEAN
    BY <2>3, Zenon
  <2>5. made = {} /\ discarded = {} /\ cut = {}
    BY DEF Init
  <2>6. QED BY <2>2, <2>4, <2>5 DEF AuxTypes
<1>2. GitTypes
  BY DEF Init, GitTypes
<1>3. record \in Records
  BY DEF Init, Records
<1>4. SlotTypes
  BY DEF Init, SlotTypes, Step
<1>5. EditsAreInWorktrees /\ NoWorkLost
  BY DEF Init, EditsAreInWorktrees, NoWorkLost
<1>6. QED BY <1>1, <1>2, <1>3, <1>4, <1>5 DEF Inv, Types
-----------------------------------------------------------------------------
(* The slots: begin, go on, exit.                                          *)

LEMMA ExitSlots == ASSUME SlotTypes, NEW p \in Proc, Exit(p) PROVE SlotTypes'
BY DEF SlotTypes, Exit, Step

LEMMA GotoSlots ==
  ASSUME SlotTypes, NEW p \in Proc, pc[p] # "idle", NEW s \in Step, Goto(p, s)
  PROVE  SlotTypes'
BY DEF SlotTypes, Goto

LEMMA BeginInv ==
  ASSUME Inv, NEW p \in Proc, NEW c \in Command, NEW s \in Step, Begin(p, c, s)
  PROVE  Inv'
<1>1. UNCHANGED <<record, git, trouble, made, discarded, cut, byHand>>
  BY DEF Begin
<1>2. GitTypes' /\ EditsAreInWorktrees' /\ NoWorkLost' /\ record' \in Records
  BY <1>1 DEF Inv, Types, GitTypes, EditsAreInWorktrees, NoWorkLost, git
<1>3. overlapped' \in BOOLEAN
  BY DEF Begin, Inv, Types, AuxTypes
<1>4. AuxTypes'
  BY <1>1, <1>3 DEF Inv, Types, AuxTypes
<1>5. SlotTypes'
  BY DEF Begin, Inv, Types, SlotTypes
<1>6. QED BY <1>2, <1>4, <1>5 DEF Inv, Types

LEMMA OnRecordType ==
  ASSUME Types, NEW t \in Task, record[t] \in Branch,
         NEW kind \in {"done", "abort"}, NEW o \in BOOLEAN
  PROVE  OnRecord(kind, t, o) \in Command
BY DEF OnRecord, Command, Types, GitTypes

LEMMA StartInv ==
  ASSUME Inv, NEW p \in Proc, NEW t \in Task,
         \/ \E b \in Branch : BeginStart(p, t, b)
         \/ \E keep \in BOOLEAN : BeginDone(p, t, keep)
         \/ \E force \in BOOLEAN : BeginAbort(p, t, force)
         \/ BeginMissing(p, t)
  PROVE  Inv'
<1>1. ASSUME NEW b \in Branch, BeginStart(p, t, b) PROVE Inv'
  <2> DEFINE c == [kind |-> "start", task |-> t, branch |-> b,
                   fresh |-> b \notin branches, option |-> FALSE]
  <2>1. c \in Command
    BY DEF Command, Inv, Types, GitTypes
  <2>2. Begin(p, c, "add")
    BY <1>1 DEF BeginStart
  <2>3. QED BY <2>1, <2>2, BeginInv DEF Step
<1>2. ASSUME NEW keep \in BOOLEAN, BeginDone(p, t, keep) PROVE Inv'
  <2>1. record[t] \in Branch
    BY <1>2 DEF BeginDone, Inv, Types, GitTypes
  <2>2. OnRecord("done", t, keep) \in Command
    BY <2>1, OnRecordType DEF Inv
  <2>3. QED BY <1>2, <2>2, BeginInv DEF BeginDone, Step
<1>3. ASSUME NEW force \in BOOLEAN, BeginAbort(p, t, force) PROVE Inv'
  <2>1. record[t] \in Branch
    BY <1>3 DEF BeginAbort, Inv, Types, GitTypes
  <2>2. OnRecord("abort", t, force) \in Command
    BY <2>1, OnRecordType DEF Inv
  <2>3. QED BY <1>3, <2>2, BeginInv DEF BeginAbort, Step
<1>4. ASSUME BeginMissing(p, t) PROVE Inv'
  <2>1. PICK kind \in {"done", "abort"} : Begin(p, OnRecord(kind, t, FALSE), "clear")
    BY <1>4 DEF BeginMissing
  <2>2. OnRecord(kind, t, FALSE) \in Command
    BY <1>4, OnRecordType DEF BeginMissing, Inv
  <2>3. QED BY <2>1, <2>2, BeginInv DEF Step
<1>5. QED BY <1>1, <1>2, <1>3, <1>4
-----------------------------------------------------------------------------
LEMMA BranchOf ==
  ASSUME Types, NEW p \in Proc, pc[p] # "idle" PROVE B(p) \in Branch /\ cmd[p] \in Command
BY DEF Types, SlotTypes, Command, B

(* Steps that touch the slots and the bookkeeping only.                    *)
LEMMA QuietInv ==
  ASSUME Inv, UNCHANGED <<git, made>>, discarded \subseteq discarded',
         record' \in Records, SlotTypes', AuxTypes'
  PROVE  Inv'
BY DEF Inv, Types, GitTypes, EditsAreInWorktrees, NoWorkLost, git

(* A worktree is taken down: nothing uncommitted was in it.                *)
LEMMA TakeDownInv ==
  ASSUME Inv, NEW b \in Branch, pending[b] = {}, TakeDown(b), SlotTypes',
         UNCHANGED <<record, branches, tip, main, merging, pending, trouble, aux>>
  PROVE  Inv'
<1>1. GitTypes'
  BY DEF Inv, Types, GitTypes, TakeDown
<1>2. EditsAreInWorktrees' /\ NoWorkLost'
  BY DEF Inv, EditsAreInWorktrees, NoWorkLost, TakeDown, aux
<1>3. AuxTypes' /\ record' \in Records
  BY DEF Inv, Types, AuxTypes, aux
<1>4. QED BY <1>1, <1>2, <1>3 DEF Inv, Types

LEMMA AddWorktreeInv == ASSUME Inv, NEW p \in Proc, AddWorktree(p) PROVE Inv'
<1>1. B(p) \in Branch
  BY BranchOf DEF AddWorktree, Inv
<1>2. SlotTypes'
  BY GotoSlots DEF AddWorktree, Inv, Types, Step
<1>3. GitTypes'
  BY <1>1 DEF AddWorktree, Inv, Types, GitTypes
<1>4. AuxTypes' /\ record' \in Records
  BY DEF AddWorktree, Inv, Types, AuxTypes, aux
<1>5. EditsAreInWorktrees'
  BY DEF AddWorktree, Inv, EditsAreInWorktrees
<1>6. NoWorkLost'
  <2> SUFFICES ASSUME NEW w \in made \ discarded, ~ w \in main,
                      NEW b \in Branch, b \in branches, w \in tip[b]
               PROVE  b \in branches' /\ w \in tip'[b]
    BY DEF AddWorktree, Inv, NoWorkLost, aux
  <2>1. b # B(p) \/ ~cmd[p].fresh
    BY DEF AddWorktree, CanAdd
  <2>2. QED BY <2>1, <1>1 DEF AddWorktree, Inv, Types, GitTypes
<1>7. QED BY <1>2, <1>3, <1>4, <1>5, <1>6 DEF Inv, Types

LEMMA SaveRecordInv ==
  ASSUME Inv, NEW p \in Proc, SaveRecord(p) \/ ClearRecord(p) PROVE Inv'
<1>1. cmd[p] \in Command /\ mem[p] \in Records
  BY DEF SaveRecord, ClearRecord, Inv, Types, SlotTypes
<1>2. record' \in Records
  BY <1>1 DEF SaveRecord, ClearRecord, Records, Command, B
<1>3. SlotTypes'
  BY ExitSlots DEF SaveRecord, ClearRecord, Inv, Types
<1>4. AuxTypes'
  BY DEF SaveRecord, ClearRecord, Inv, Types, AuxTypes, aux
<1>5. QED BY <1>2, <1>3, <1>4, QuietInv DEF SaveRecord, ClearRecord, aux

LEMMA RemoveInv ==
  ASSUME Inv, NEW p \in Proc, Cleanup(p) \/ RemoveWorktree(p) PROVE Inv'
<1>1. B(p) \in Branch
  BY BranchOf DEF Cleanup, RemoveWorktree, Inv
<1>2. CASE Cleanup(p)
  BY <1>1, <1>2, ExitSlots, TakeDownInv DEF Cleanup, CanRemove, Inv, Types
<1>3. CASE RemoveWorktree(p)
  BY <1>1, <1>3, GotoSlots, TakeDownInv DEF RemoveWorktree, CanRemove, Inv, Types, Step
<1>4. QED BY <1>2, <1>3

LEMMA MergeInv == ASSUME Inv, NEW p \in Proc, Merge(p) \/ MergeConflicts(p) PROVE Inv'
<1>1. B(p) \in Branch
  BY BranchOf DEF Merge, MergeConflicts, Inv
<1>2. tip[B(p)] \in SUBSET Work
  BY <1>1 DEF Inv, Types, GitTypes
<1>3. GitTypes'
  BY <1>2 DEF Merge, MergeConflicts, Inv, Types, GitTypes
<1>4. AuxTypes' /\ record' \in Records
  BY DEF Merge, MergeConflicts, Trouble, Inv, Types, AuxTypes, aux
<1>5. SlotTypes'
  BY ExitSlots, GotoSlots DEF Merge, MergeConflicts, Inv, Types, Step
<1>6. main \subseteq main' /\ UNCHANGED <<dirs, branches, tip, pending, made, discarded>>
  BY DEF Merge, MergeConflicts, aux
<1>7. EditsAreInWorktrees' /\ NoWorkLost'
  BY <1>6 DEF Inv, EditsAreInWorktrees, NoWorkLost
<1>8. QED BY <1>3, <1>4, <1>5, <1>7 DEF Inv, Types

(* git branch -d deletes only what main has: nothing is lost.              *)
LEMMA DeleteBranchInv == ASSUME Inv, NEW p \in Proc, DeleteBranch(p) PROVE Inv'
<1>1. B(p) \in Branch
  BY BranchOf DEF DeleteBranch, Inv
<1>2. GitTypes'
  BY <1>1 DEF DeleteBranch, CanDelete, Inv, Types, GitTypes
<1>3. AuxTypes' /\ record' \in Records
  BY DEF DeleteBranch, Inv, Types, AuxTypes, aux
<1>4. SlotTypes'
  BY GotoSlots DEF DeleteBranch, Inv, Types, Step
<1>5. EditsAreInWorktrees'
  BY DEF DeleteBranch, Inv, EditsAreInWorktrees
<1>6. NoWorkLost'
  <2> SUFFICES ASSUME NEW w \in made \ discarded, ~ w \in main,
                      NEW b \in Branch, b \in branches, w \in tip[b]
               PROVE  b \in branches' /\ w \in tip'[b]
    BY DEF DeleteBranch, Inv, NoWorkLost, aux
  <2>1. b # B(p)
    BY DEF DeleteBranch, CanDelete
  <2>2. QED BY <2>1, <1>1 DEF DeleteBranch, Inv, Types, GitTypes
<1>7. QED BY <1>2, <1>3, <1>4, <1>5, <1>6 DEF Inv, Types

(* Throwing a worktree away moves its edits to the discarded ones.         *)
LEMMA ThrowAwayInv ==
  ASSUME Inv, NEW b \in Branch,
         dirs' = dirs \ {b}, registered' \in {registered, registered \ {b}},
         pending' = [pending EXCEPT ![b] = {}],
         discarded' = discarded \cup pending[b],
         UNCHANGED <<record, branches, tip, main, merging, made>>,
         SlotTypes', AuxTypes'
  PROVE  Inv'
<1>1. GitTypes'
  BY DEF Inv, Types, GitTypes
<1>2. EditsAreInWorktrees'
  BY DEF Inv, EditsAreInWorktrees, Types, GitTypes
<1>3. NoWorkLost'
  BY DEF Inv, NoWorkLost, Types, GitTypes
<1>4. QED BY <1>1, <1>2, <1>3 DEF Inv, Types

LEMMA DiscardInv == ASSUME Inv, NEW p \in Proc, Discard(p) PROVE Inv'
<1>1. B(p) \in Branch
  BY BranchOf DEF Discard, Inv
<1>2. SlotTypes'
  BY GotoSlots DEF Discard, Inv, Types, Step
<1>3. pending[B(p)] \in SUBSET Work
  BY <1>1 DEF Inv, Types, GitTypes
<1>4. AuxTypes'
  BY <1>3 DEF Discard, Inv, Types, AuxTypes
<1>5. QED BY <1>1, <1>2, <1>4, ThrowAwayInv DEF Discard, TakeDown

LEMMA RemoveByHandInv == ASSUME Inv, NEW b \in Branch, RemoveByHand(b) PROVE Inv'
<1>1. SlotTypes'
  BY DEF RemoveByHand, Inv, Types, SlotTypes, slots
<1>2. pending[b] \in SUBSET Work
  BY DEF Inv, Types, GitTypes
<1>3. AuxTypes'
  BY <1>2 DEF RemoveByHand, Trouble, Inv, Types, AuxTypes
<1>4. QED BY <1>1, <1>3, ThrowAwayInv DEF RemoveByHand

LEMMA StopInv ==
  ASSUME Inv, NEW p \in Proc, SaveRecordFails(p) \/ Refused(p) \/ Killed(p) PROVE Inv'
<1>1. pc[p] # "idle"
  BY DEF SaveRecordFails, Refused, Killed
<1>2. SlotTypes'
  BY <1>1, ExitSlots, GotoSlots DEF SaveRecordFails, Refused, Killed, Inv, Types, Step
<1>3. B(p) \in Branch
  BY <1>1, BranchOf DEF Inv
<1>4. AuxTypes'
  BY <1>3 DEF SaveRecordFails, Refused, Killed, Trouble, HalfWay, Inv, Types, AuxTypes, aux
<1>5. UNCHANGED <<record, git, made, discarded>>
  BY DEF SaveRecordFails, Refused, Killed, aux
<1>6. QED BY <1>2, <1>4, <1>5, QuietInv DEF Inv, Types
-----------------------------------------------------------------------------
(* Agents and people.                                                      *)

LEMMA EditInv == ASSUME Inv, NEW b \in Branch, NEW w \in Work, Edit(b, w) PROVE Inv'
<1>1. GitTypes' /\ EditsAreInWorktrees'
  BY DEF Edit, Inv, Types, GitTypes, EditsAreInWorktrees
<1>2. SlotTypes' /\ record' \in Records
  BY DEF Edit, Inv, Types, SlotTypes, slots
<1>3. AuxTypes'
  BY DEF Edit, Inv, Types, AuxTypes
<1>4. NoWorkLost'
  BY DEF Edit, Inv, NoWorkLost, Types, GitTypes
<1>5. QED BY <1>1, <1>2, <1>3, <1>4 DEF Inv, Types

LEMMA CommitInv == ASSUME Inv, NEW b \in Branch, Commit(b) PROVE Inv'
<1>1. b \in branches
  BY DEF Commit, Inv, Types, GitTypes, EditsAreInWorktrees
<1>2. GitTypes' /\ EditsAreInWorktrees'
  BY DEF Commit, Inv, Types, GitTypes, EditsAreInWorktrees
<1>3. SlotTypes' /\ record' \in Records
  BY DEF Commit, Inv, Types, SlotTypes, slots
<1>4. AuxTypes'
  BY DEF Commit, Inv, Types, AuxTypes, aux
<1>5. NoWorkLost'
  BY <1>1 DEF Commit, Inv, NoWorkLost, Types, GitTypes, aux
<1>6. QED BY <1>2, <1>3, <1>4, <1>5 DEF Inv, Types

LEMMA RepairInv == ASSUME Inv, EndMerge \/ Prune PROVE Inv'
<1>1. GitTypes'
  BY DEF EndMerge, Prune, Inv, Types, GitTypes
<1>2. SlotTypes' /\ record' \in Records
  BY DEF EndMerge, Prune, Inv, Types, SlotTypes, slots
<1>3. AuxTypes'
  BY DEF EndMerge, Prune, Inv, Types, AuxTypes, aux
<1>4. main \subseteq main' /\ UNCHANGED <<dirs, branches, tip, pending, made, discarded>>
  BY DEF EndMerge, Prune, aux
<1>5. EditsAreInWorktrees' /\ NoWorkLost'
  BY <1>4 DEF Inv, EditsAreInWorktrees, NoWorkLost
<1>6. QED BY <1>1, <1>2, <1>3, <1>5 DEF Inv, Types

LEMMA NextInv == Inv /\ [Next]_vars => Inv'
<1> SUFFICES ASSUME Inv, [Next]_vars PROVE Inv'
  OBVIOUS
<1>1. CASE UNCHANGED vars
  BY <1>1 DEF vars, git, slots, aux, Inv, Types, GitTypes, SlotTypes, AuxTypes,
              EditsAreInWorktrees, NoWorkLost
<1>2. ASSUME NEW p \in Proc, Continue(p) \/ SaveRecordFails(p) \/ MergeConflicts(p) \/ Killed(p)
      PROVE  Inv'
  BY <1>2, AddWorktreeInv, SaveRecordInv, RemoveInv, MergeInv, DeleteBranchInv, DiscardInv,
     StopInv DEF Continue
<1>3. QED BY <1>1, <1>2, StartInv, EditInv, CommitInv, RemoveByHandInv, RepairInv DEF Next

LEMMA Invariance == Spec => []Inv
BY InitInv, NextInv, PTL DEF Spec

(* The store, git, and the processes keep their ranges, and git never has  *)
(* a worktree of a branch that does not exist, whatever commands, agents   *)
(* and people do at the same time.                                         *)
THEOREM TypeCorrect == Spec => []TypeOK
<1>1. Inv => TypeOK
  BY TypesAreTypeOK DEF Inv
<1>2. QED BY <1>1, Invariance, PTL

(* The steps of cmdWorktreeDone, in their order and with git branch -d,    *)
(* lose no work: for any number of commands at once, with kills, failures, *)
(* conflicts and retries, and with agents that go on committing meanwhile. *)
THEOREM WorkIsSafe == Spec => []NoWorkLost
<1>1. Inv => NoWorkLost
  BY DEF Inv
<1>2. QED BY <1>1, Invariance, PTL
-----------------------------------------------------------------------------
(* Store and git, as long as commands do not overlap: one command runs, it *)
(* knows the record of its task, and what it has done so far is all that   *)
(* keeps directories and records apart.                                    *)

HalfSteps == {"record", "cleanup", "branch", "clear"}

OneCommand == \A p, q \in Proc : pc[p] # "idle" /\ pc[q] # "idle" => p = q

Knows(p) ==
  /\ mem[p] = record
  /\ pc[p] \in {"add", "record", "cleanup"} => record[cmd[p].task] = None
  /\ pc[p] \in {"merge", "remove", "branch", "discard", "clear"} => record[cmd[p].task] = B(p)
  /\ pc[p] \in {"branch", "clear"} => B(p) \notin dirs
  /\ pc[p] \in {"record", "cleanup"} /\ B(p) \notin cut =>
       B(p) \in dirs /\ \A t \in Task : record[t] # B(p)

CommandKnows == \A p \in Proc : pc[p] # "idle" => Knows(p)

Between(b) == \E p \in Proc : pc[p] \in HalfSteps /\ B(p) = b

DirectoriesHaveRecords ==
  \A b \in Branch \ cut : Between(b) \/ (b \in dirs <=> \E t \in Task : record[t] = b)

RecordsDiffer ==
  \A b \in Branch \ cut : \A t, u \in Task : record[t] = b /\ record[u] = b => t = u

Agrees == OneCommand /\ CommandKnows /\ DirectoriesHaveRecords /\ RecordsDiffer

LEMMA AgreesMeans == Agrees => StoreMatchesGit
BY DEF Agrees, StoreMatchesGit, DirectoriesHaveRecords, RecordsDiffer, Between, HalfSteps

(* A command begins when no other runs.                                    *)
LEMMA BeginAgrees ==
  ASSUME Inv, Agrees, NEW p \in Proc, NEW c, NEW s \in {"add", "merge", "discard", "clear"},
         Begin(p, c, s), ~overlapped',
         s = "add" => record[c.task] = None,
         s # "add" => record[c.task] = c.branch,
         s = "clear" => c.branch \notin dirs
  PROVE  Agrees'
<1>1. /\ pc[p] = "idle" /\ pc' = [pc EXCEPT ![p] = s] /\ cmd' = [cmd EXCEPT ![p] = c]
      /\ mem' = [mem EXCEPT ![p] = record] /\ UNCHANGED <<record, dirs, cut>>
      /\ \A q \in Proc : pc[q] = "idle"
  BY DEF Begin, git
<1>2. /\ \A q \in Proc : pc'[q] # "idle" => q = p
      /\ pc'[p] = s /\ cmd'[p] = c /\ mem'[p] = record
  BY <1>1 DEF Inv, Types, SlotTypes
<1>3. OneCommand'
  BY <1>2 DEF OneCommand
<1>4. CommandKnows'
  BY <1>1, <1>2 DEF CommandKnows, Knows, B
<1>5. DirectoriesHaveRecords' /\ RecordsDiffer'
  <2>1. \A b \in Branch : ~ Between(b)
    BY <1>1 DEF Between, HalfSteps
  <2> QED BY <1>1, <2>1 DEF Agrees, DirectoriesHaveRecords, RecordsDiffer
<1> QED BY <1>3, <1>4, <1>5 DEF Agrees

LEMMA StartAgrees ==
  ASSUME Inv, Agrees, NEW p \in Proc, NEW t \in Task, ~overlapped',
         \/ \E b \in Branch : BeginStart(p, t, b)
         \/ \E keep \in BOOLEAN : BeginDone(p, t, keep)
         \/ \E force \in BOOLEAN : BeginAbort(p, t, force)
         \/ BeginMissing(p, t)
  PROVE  Agrees'
<1>1. ASSUME NEW b \in Branch, BeginStart(p, t, b) PROVE Agrees'
  BY <1>1, BeginAgrees DEF BeginStart
<1>2. ASSUME NEW keep \in BOOLEAN, BeginDone(p, t, keep) PROVE Agrees'
  BY <1>2, BeginAgrees DEF BeginDone, OnRecord
<1>3. ASSUME NEW force \in BOOLEAN, BeginAbort(p, t, force) PROVE Agrees'
  BY <1>3, BeginAgrees DEF BeginAbort, OnRecord
<1>4. ASSUME BeginMissing(p, t) PROVE Agrees'
  <2>1. PICK kind \in {"done", "abort"} : Begin(p, OnRecord(kind, t, FALSE), "clear")
    BY <1>4 DEF BeginMissing
  <2>2. record[t] \notin dirs
    BY <1>4 DEF BeginMissing
  <2> QED BY <2>1, <2>2, BeginAgrees DEF OnRecord
<1> QED BY <1>1, <1>2, <1>3, <1>4

(* The command that runs is alone, so what it does not touch stays.        *)
LEMMA GoAgrees ==
  ASSUME Inv, Agrees, NEW p \in Proc, pc[p] # "idle", NEW s \in Step \ {"idle"}, Goto(p, s),
         UNCHANGED <<record, cut>>, Knows(p)',
         \A b \in Branch \ cut : b # B(p) => (b \in dirs' <=> b \in dirs),
         B(p) \notin cut /\ s \notin HalfSteps =>
           pc[p] \notin HalfSteps /\ (B(p) \in dirs' <=> B(p) \in dirs)
  PROVE  Agrees'
<1>1. /\ pc' = [pc EXCEPT ![p] = s] /\ cmd' = cmd /\ mem' = mem
      /\ \A q \in Proc : pc[q] # "idle" => q = p
  BY DEF Goto, Agrees, OneCommand
<1>2. pc'[p] = s /\ \A q \in Proc : pc'[q] # "idle" => q = p
  BY <1>1 DEF Inv, Types, SlotTypes
<1>3. OneCommand' /\ CommandKnows'
  BY <1>2 DEF OneCommand, CommandKnows
<1>4. RecordsDiffer'
  BY DEF Agrees, RecordsDiffer
<1>5. DirectoriesHaveRecords'
  <2> SUFFICES ASSUME NEW b \in Branch \ cut, ~ Between(b)'
               PROVE  b \in dirs' <=> \E t \in Task : record[t] = b
    BY DEF DirectoriesHaveRecords
  <2>1. b = B(p) => s \notin HalfSteps
    BY <1>1, <1>2 DEF Between, B
  <2>2. ~ Between(b) /\ (b \in dirs' <=> b \in dirs)
    BY <1>1, <2>1 DEF Between, HalfSteps
  <2> QED BY <2>2 DEF Agrees, DirectoriesHaveRecords
<1> QED BY <1>3, <1>4, <1>5 DEF Agrees

LEMMA ContinueAgrees ==
  ASSUME Inv, Agrees, NEW p \in Proc,
         \/ AddWorktree(p) \/ SaveRecordFails(p) \/ Merge(p) \/ RemoveWorktree(p)
         \/ DeleteBranch(p) \/ Discard(p)
  PROVE  Agrees'
<1>1. /\ pc[p] # "idle" /\ Knows(p) /\ B(p) \in Branch
      /\ UNCHANGED <<record, cut, cmd, mem>>
  BY BranchOf DEF AddWorktree, SaveRecordFails, Merge, RemoveWorktree, DeleteBranch, Discard,
     Goto, aux, Agrees, CommandKnows, Inv
<1>2. pc \in [Proc -> Step] /\ UNCHANGED B(p)
  BY <1>1 DEF Inv, Types, SlotTypes, B
<1>3. CASE AddWorktree(p)
  <2>1. pc[p] = "add" /\ Goto(p, "record") /\ dirs' = dirs \cup {B(p)} /\ B(p) \notin dirs
    BY <1>3 DEF AddWorktree, CanAdd
  <2>2. B(p) \notin cut => \A t \in Task : record[t] # B(p)
    <3>1. ~ Between(B(p))
      BY <2>1 DEF Between, HalfSteps, Agrees, OneCommand
    <3> QED BY <3>1, <2>1, <1>1 DEF Agrees, DirectoriesHaveRecords
  <2>3. Knows(p)'
    BY <1>1, <1>2, <2>1, <2>2 DEF Knows, Goto
  <2> QED BY <1>1, <2>1, <2>3, GoAgrees DEF Step, HalfSteps
<1>4. CASE SaveRecordFails(p)
  <2>1. pc[p] = "record" /\ Goto(p, "cleanup") /\ dirs' = dirs
    BY <1>4 DEF SaveRecordFails, git
  <2>2. Knows(p)'
    BY <1>1, <1>2, <2>1 DEF Knows, Goto
  <2> QED BY <1>1, <2>1, <2>2, GoAgrees DEF Step, HalfSteps
<1>5. CASE Merge(p)
  <2>1. pc[p] = "merge" /\ Goto(p, "remove") /\ dirs' = dirs
    BY <1>5 DEF Merge
  <2>2. Knows(p)'
    BY <1>1, <1>2, <2>1 DEF Knows, Goto
  <2> QED BY <1>1, <2>1, <2>2, GoAgrees DEF Step, HalfSteps
<1>6. CASE RemoveWorktree(p)
  <2>1. /\ pc[p] = "remove" /\ dirs' = dirs \ {B(p)}
        /\ Goto(p, IF cmd[p].option THEN "clear" ELSE "branch")
    BY <1>6 DEF RemoveWorktree, TakeDown
  <2>2. PICK s \in {"clear", "branch"} : Goto(p, s)
    BY <2>1
  <2>3. Knows(p)'
    BY <1>1, <1>2, <2>1, <2>2 DEF Knows, Goto
  <2> QED BY <1>1, <2>1, <2>2, <2>3, GoAgrees DEF Step, HalfSteps
<1>7. CASE DeleteBranch(p)
  <2>1. pc[p] = "branch" /\ Goto(p, "clear") /\ dirs' = dirs
    BY <1>7 DEF DeleteBranch
  <2>2. Knows(p)'
    BY <1>1, <1>2, <2>1 DEF Knows, Goto
  <2> QED BY <1>1, <2>1, <2>2, GoAgrees DEF Step, HalfSteps
<1>8. CASE Discard(p)
  <2>1. pc[p] = "discard" /\ Goto(p, "clear") /\ dirs' = dirs \ {B(p)}
    BY <1>8 DEF Discard, TakeDown
  <2>2. Knows(p)'
    BY <1>1, <1>2, <2>1 DEF Knows, Goto
  <2> QED BY <1>1, <2>1, <2>2, GoAgrees DEF Step, HalfSteps
<1> QED BY <1>3, <1>4, <1>5, <1>6, <1>7, <1>8

(* The command ends: then nothing runs, and directories must match.        *)
LEMMA ExitAgrees ==
  ASSUME Inv, Agrees, NEW p \in Proc, pc[p] # "idle", Exit(p), cut \subseteq cut',
         \A b \in Branch \ cut' : b \in dirs' <=> \E t \in Task : record'[t] = b,
         \A b \in Branch \ cut' : \A t, u \in Task : record'[t] = b /\ record'[u] = b => t = u
  PROVE  Agrees'
<1>1. \A q \in Proc : pc'[q] = "idle"
  BY DEF Exit, Agrees, OneCommand, Inv, Types, SlotTypes
<1> QED BY <1>1 DEF Agrees, OneCommand, CommandKnows, DirectoriesHaveRecords, RecordsDiffer

LEMMA EndAgrees ==
  ASSUME Inv, Agrees, NEW p \in Proc,
         \/ SaveRecord(p) \/ Cleanup(p) \/ ClearRecord(p)
         \/ MergeConflicts(p) \/ Refused(p) \/ Killed(p)
  PROVE  Agrees'
<1>1. pc[p] # "idle" /\ Exit(p) /\ cut \subseteq cut' /\ Knows(p) /\ B(p) \in Branch /\ cmd[p].task \in Task
  <2>1. pc[p] # "idle" /\ Exit(p) /\ cut \subseteq cut'
    BY DEF SaveRecord, Cleanup, ClearRecord, MergeConflicts, Refused, Killed, HalfWay, aux
  <2> QED BY <2>1, BranchOf DEF Inv, Agrees, CommandKnows, Command
<1>2. \A b \in Branch \ cut : b # B(p) => (b \in dirs <=> \E t \in Task : record[t] = b)
  BY <1>1 DEF Agrees, DirectoriesHaveRecords, Between, HalfSteps, OneCommand
<1>3. \A b \in Branch \ cut : \A t, u \in Task : record[t] = b /\ record[u] = b => t = u
  BY DEF Agrees, RecordsDiffer
<1>4. record \in [Task -> Branch \cup {None}]
  BY DEF Inv, Types, Records
<1>5. CASE SaveRecord(p)
  <2>1. /\ record' = [record EXCEPT ![cmd[p].task] = B(p)] /\ UNCHANGED <<dirs, cut>>
        /\ pc[p] = "record"
    BY <1>1, <1>5 DEF SaveRecord, Knows, git, aux
  <2>2. /\ record[cmd[p].task] = None
        /\ B(p) \notin cut => B(p) \in dirs /\ \A t \in Task : record[t] # B(p)
    BY <1>1, <2>1 DEF Knows
  <2>3. \A b \in Branch \ cut : b \in dirs <=> \E t \in Task : record'[t] = b
    <3> SUFFICES ASSUME NEW b \in Branch \ cut PROVE b \in dirs <=> \E t \in Task : record'[t] = b
      OBVIOUS
    <3>1. CASE b = B(p)
      BY <3>1, <1>1, <1>4, <2>1, <2>2
    <3>2. CASE b # B(p)
      BY <3>2, <1>1, <1>2, <1>4, <2>1, <2>2
    <3> QED BY <3>1, <3>2
  <2>4. \A b \in Branch \ cut : \A t, u \in Task : record'[t] = b /\ record'[u] = b => t = u
    BY <1>3, <1>4, <2>1, <2>2
  <2> QED BY <1>1, <2>1, <2>3, <2>4, ExitAgrees
<1>6. CASE ClearRecord(p)
  <2>1. /\ record' = [record EXCEPT ![cmd[p].task] = None] /\ UNCHANGED <<dirs, cut>>
        /\ pc[p] = "clear"
    BY <1>1, <1>6 DEF ClearRecord, Knows, git
  <2>2. record[cmd[p].task] = B(p) /\ B(p) \notin dirs
    BY <1>1, <2>1 DEF Knows
  <2>3. \A b \in Branch \ cut : b \in dirs <=> \E t \in Task : record'[t] = b
    <3> SUFFICES ASSUME NEW b \in Branch \ cut PROVE b \in dirs <=> \E t \in Task : record'[t] = b
      OBVIOUS
    <3>1. CASE b = B(p)
      BY <3>1, <1>1, <1>3, <1>4, <2>1, <2>2
    <3>2. CASE b # B(p)
      BY <3>2, <1>1, <1>2, <1>4, <2>1, <2>2
    <3> QED BY <3>1, <3>2
  <2>4. \A b \in Branch \ cut : \A t, u \in Task : record'[t] = b /\ record'[u] = b => t = u
    BY <1>3, <1>4, <2>1
  <2> QED BY <1>1, <2>1, <2>3, <2>4, ExitAgrees
<1>7. CASE Cleanup(p)
  <2>1. /\ dirs' = dirs \ {B(p)} /\ UNCHANGED <<record, cut>> /\ pc[p] = "cleanup"
    BY <1>7 DEF Cleanup, TakeDown, aux
  <2>2. B(p) \notin cut => \A t \in Task : record[t] # B(p)
    BY <1>1, <2>1 DEF Knows
  <2> QED BY <1>1, <1>2, <1>3, <2>1, <2>2, ExitAgrees
<1>8. CASE MergeConflicts(p) \/ Refused(p) \/ Killed(p)
  <2>1. UNCHANGED <<record, dirs>>
    BY <1>8 DEF MergeConflicts, Refused, Killed, git
  <2>2. pc[p] \in HalfSteps => B(p) \in cut'
    BY <1>8 DEF MergeConflicts, Refused, Killed, HalfWay, HalfSteps
  <2>3. \A b \in Branch \ cut' : b \in dirs <=> \E t \in Task : record[t] = b
    <3>1. CASE pc[p] \in HalfSteps
      BY <3>1, <2>2, <1>1, <1>2
    <3>2. CASE pc[p] \notin HalfSteps
      <4>1. \A b \in Branch : ~ Between(b)
        BY <3>2, <1>1 DEF Between, HalfSteps, Agrees, OneCommand
      <4> QED BY <4>1, <1>1 DEF Agrees, DirectoriesHaveRecords
    <3> QED BY <3>1, <3>2
  <2> QED BY <1>1, <1>3, <2>1, <2>3, ExitAgrees
<1> QED BY <1>5, <1>6, <1>7, <1>8

(* Agents and people leave the slots and the records alone.                *)
LEMMA OthersAgree ==
  ASSUME Agrees, UNCHANGED <<record, slots>>, cut \subseteq cut', dirs' \subseteq dirs,
         dirs \subseteq dirs' \cup cut'
  PROVE  Agrees'
<1>1. UNCHANGED <<record, pc, cmd, mem>>
  BY DEF slots
<1>2. OneCommand' /\ RecordsDiffer'
  BY <1>1 DEF Agrees, OneCommand, RecordsDiffer
<1>3. CommandKnows'
  BY <1>1 DEF Agrees, CommandKnows, Knows, B
<1>4. DirectoriesHaveRecords'
  BY <1>1 DEF Agrees, DirectoriesHaveRecords, Between, B
<1> QED BY <1>2, <1>3, <1>4 DEF Agrees

LEMMA NextAgrees == Inv /\ (~overlapped => Agrees) /\ [Next]_vars => (~overlapped' => Agrees')
<1> SUFFICES ASSUME Inv, ~overlapped => Agrees, [Next]_vars, ~overlapped' PROVE Agrees'
  OBVIOUS
<1>1. ~overlapped
  BY DEF Next, Continue, BeginStart, BeginDone, BeginAbort, BeginMissing, Begin,
     AddWorktree, SaveRecord, Cleanup, Merge, RemoveWorktree, DeleteBranch, Discard, ClearRecord,
     Refused, SaveRecordFails, MergeConflicts, Killed, Commit, RemoveByHand, Edit, EndMerge, Prune,
     vars, aux
<1>2. Agrees
  BY <1>1
<1>3. CASE UNCHANGED vars
  BY <1>2, <1>3, OthersAgree DEF vars, git, aux
<1>4. ASSUME NEW p \in Proc, Continue(p) \/ SaveRecordFails(p) \/ MergeConflicts(p) \/ Killed(p)
      PROVE  Agrees'
  BY <1>2, <1>4, ContinueAgrees, EndAgrees DEF Continue
<1>5. ASSUME NEW b \in Branch, Commit(b) \/ RemoveByHand(b) \/ \E w \in Work : Edit(b, w)
      PROVE  Agrees'
  BY <1>2, <1>5, OthersAgree DEF Commit, RemoveByHand, Edit, aux
<1>6. CASE EndMerge \/ Prune
  BY <1>2, <1>6, OthersAgree DEF EndMerge, Prune, aux
<1> QED BY <1>2, <1>3, <1>4, <1>5, <1>6, StartAgrees DEF Next

(* The record of a worktree and its directory go together, wherever start, *)
(* done and abort are refused, fail or are killed, and whatever agents do  *)
(* to the worktree meanwhile, as long as pt commands do not overlap.       *)
THEOREM StoreKeepsUpWithGit == Spec => []StoreMatchesGit
<1>1. Init => (~overlapped => Agrees)
  BY DEF Init, Agrees, OneCommand, CommandKnows, DirectoriesHaveRecords, RecordsDiffer
<1>2. (~overlapped => Agrees) => StoreMatchesGit
  BY AgreesMeans DEF StoreMatchesGit
<1>3. Inv /\ (~overlapped => Agrees) /\ [Next]_vars => (~overlapped => Agrees)'
  BY NextAgrees
<1> QED BY <1>1, <1>2, <1>3, Invariance, PTL DEF Spec
-----------------------------------------------------------------------------
(* What a command does to the store is its own task's record.              *)

OwnRecordOnly ==
  ~overlapped =>
    \A t \in Task : record'[t] # record[t] =>
      \E p \in Proc :
        /\ cmd[p].task = t
        /\ \/ /\ pc[p] = "record" /\ record[t] = None /\ record'[t] = B(p)
              /\ B(p) \in cut \/ (B(p) \in dirs' /\ \A u \in Task : record[u] # B(p))
           \/ pc[p] = "clear" /\ record[t] = B(p) /\ record'[t] = None /\ B(p) \notin dirs'

LEMMA StepKeepsOtherRecords == Inv /\ (~overlapped => Agrees) /\ [Next]_vars => OwnRecordOnly
<1> SUFFICES ASSUME Inv, Agrees, [Next]_vars, NEW t \in Task, record'[t] # record[t]
             PROVE  \E p \in Proc :
                      /\ cmd[p].task = t
                      /\ \/ /\ pc[p] = "record" /\ record[t] = None /\ record'[t] = B(p)
                            /\ \/ B(p) \in cut
                               \/ B(p) \in dirs' /\ \A u \in Task : record[u] # B(p)
                         \/ /\ pc[p] = "clear" /\ record[t] = B(p) /\ record'[t] = None
                            /\ B(p) \notin dirs'
  BY DEF OwnRecordOnly
<1>1. PICK p \in Proc : SaveRecord(p) \/ ClearRecord(p)
  BY DEF Next, Continue, BeginStart, BeginDone, BeginAbort, BeginMissing, Begin,
     AddWorktree, Cleanup, Merge, RemoveWorktree, DeleteBranch, Discard,
     Refused, SaveRecordFails, MergeConflicts, Killed, Commit, RemoveByHand, Edit, EndMerge, Prune,
     vars
<1>2. /\ pc[p] # "idle" /\ mem[p] = record /\ record \in Records
      /\ Knows(p) /\ UNCHANGED dirs
  BY <1>1 DEF SaveRecord, ClearRecord, Agrees, CommandKnows, Knows, Inv, Types, git
<1>3. CASE SaveRecord(p)
  <2>1. cmd[p].task = t /\ record'[t] = B(p) /\ pc[p] = "record"
    BY <1>2, <1>3 DEF SaveRecord, Records
  <2> QED BY <1>2, <2>1 DEF Knows
<1>4. CASE ClearRecord(p)
  <2>1. cmd[p].task = t /\ record'[t] = None /\ pc[p] = "clear"
    BY <1>2, <1>4 DEF ClearRecord, Records
  <2> QED BY <1>2, <2>1 DEF Knows
<1> QED BY <1>1, <1>3, <1>4

(* No update of the store is lost while pt commands do not overlap: saving *)
(* the whole file a command loaded at its start changes the record of the  *)
(* command's own task and no other, a record is only written where none    *)
(* was and no other task has the branch, and only cleared when its         *)
(* directory is gone.                                                      *)
THEOREM CommandsChangeTheirOwnRecord == Spec => [][OwnRecordOnly]_vars
<1>1. Init => (~overlapped => Agrees)
  BY DEF Init, Agrees, OneCommand, CommandKnows, DirectoriesHaveRecords, RecordsDiffer
<1>2. Inv /\ (~overlapped => Agrees) /\ [Next]_vars => (~overlapped => Agrees)'
  BY NextAgrees
<1>3. Inv /\ (~overlapped => Agrees) /\ [Next]_vars => [OwnRecordOnly]_vars
  BY StepKeepsOtherRecords
<1> QED BY <1>1, <1>2, <1>3, Invariance, PTL DEF Spec
-----------------------------------------------------------------------------
(* What git was like when a command looked at it still holds when the      *)
(* command acts on it, as long as nobody else runs pt or removes worktrees *)
(* by hand.                                                                *)

Undisturbed == ~overlapped /\ ~byHand

InStep(p) ==
  /\ pc[p] = "add" => B(p) \notin dirs /\ (cmd[p].fresh <=> B(p) \notin branches)
  /\ pc[p] = "merge" => merging = {}
  /\ pc[p] \in {"record", "cleanup", "merge", "remove", "discard"} => B(p) \in dirs
  /\ pc[p] = "branch" => B(p) \in branches

Ready == registered = dirs /\ \A p \in Proc : pc[p] # "idle" => InStep(p)

(* There is an edit in the worktree that is to go, or the branch that is   *)
(* to go has a commit that main has not.                                   *)
InTheWay(p) ==
  \/ pc[p] \in {"remove", "cleanup"} /\ pending[B(p)] # {}
  \/ pc[p] = "branch" /\ ~ tip[B(p)] \subseteq main

OnlyWorkGetsInTheWay == Undisturbed => \A p \in Proc : Refused(p) => InTheWay(p)

LEMMA BeginReady ==
  ASSUME Inv, Ready, NEW p \in Proc, NEW c, NEW s \in {"add", "merge", "discard", "clear"},
         Begin(p, c, s), ~overlapped',
         s = "add" => c.branch \notin dirs /\ (c.fresh <=> c.branch \notin branches),
         s = "merge" => merging = {},
         s \in {"merge", "discard"} => c.branch \in dirs
  PROVE  Ready'
<1>1. /\ pc[p] = "idle" /\ pc' = [pc EXCEPT ![p] = s] /\ cmd' = [cmd EXCEPT ![p] = c]
      /\ UNCHANGED <<dirs, registered, branches, merging>>
      /\ \A q \in Proc : pc[q] = "idle"
  BY DEF Begin, git
<1>2. pc'[p] = s /\ cmd'[p] = c /\ \A q \in Proc : pc'[q] # "idle" => q = p
  BY <1>1 DEF Inv, Types, SlotTypes
<1>3. InStep(p)'
  BY <1>1, <1>2 DEF InStep, B
<1> QED BY <1>1, <1>2, <1>3 DEF Ready

LEMMA StartReady ==
  ASSUME Inv, Ready, NEW p \in Proc, NEW t \in Task, ~overlapped',
         \/ \E b \in Branch : BeginStart(p, t, b)
         \/ \E keep \in BOOLEAN : BeginDone(p, t, keep)
         \/ \E force \in BOOLEAN : BeginAbort(p, t, force)
         \/ BeginMissing(p, t)
  PROVE  Ready'
<1>1. ASSUME NEW b \in Branch, BeginStart(p, t, b) PROVE Ready'
  BY <1>1, BeginReady DEF BeginStart
<1>2. ASSUME NEW keep \in BOOLEAN, BeginDone(p, t, keep) PROVE Ready'
  BY <1>2, BeginReady DEF BeginDone, OnRecord
<1>3. ASSUME NEW force \in BOOLEAN, BeginAbort(p, t, force) PROVE Ready'
  BY <1>3, BeginReady DEF BeginAbort, OnRecord
<1>4. ASSUME BeginMissing(p, t) PROVE Ready'
  BY <1>4, BeginReady DEF BeginMissing, OnRecord
<1> QED BY <1>1, <1>2, <1>3, <1>4

(* The command that runs is alone: what holds for it holds for all.        *)
LEMMA AloneReady ==
  ASSUME Inv, OneCommand, NEW p \in Proc, pc[p] # "idle", (registered = dirs)',
         \/ Exit(p)
         \/ \E s \in Step : Goto(p, s) /\ (pc'[p] = s => InStep(p)')
  PROVE  Ready'
<1>1. \A q \in Proc : pc[q] # "idle" => q = p
  BY DEF OneCommand
<1>2. CASE Exit(p)
  BY <1>1, <1>2 DEF Ready, Exit, Inv, Types, SlotTypes
<1>3. CASE \E s \in Step : Goto(p, s) /\ (pc'[p] = s => InStep(p)')
  BY <1>1, <1>3 DEF Ready, Goto, Inv, Types, SlotTypes
<1> QED BY <1>2, <1>3

LEMMA ContinueReady ==
  ASSUME Inv, OneCommand, Ready, NEW p \in Proc,
         Continue(p) \/ SaveRecordFails(p) \/ MergeConflicts(p) \/ Killed(p)
  PROVE  Ready'
<1>1. pc[p] # "idle" /\ InStep(p) /\ registered = dirs /\ B(p) \in Branch
  BY BranchOf DEF Ready, Inv, Continue, AddWorktree, SaveRecord, Cleanup, Merge, RemoveWorktree,
     DeleteBranch, Discard, ClearRecord, Refused, SaveRecordFails, MergeConflicts, Killed
<1>2. pc \in [Proc -> Step] /\ (cmd' = cmd => UNCHANGED B(p))
  BY DEF Inv, Types, SlotTypes, B
<1>3. CASE SaveRecord(p) \/ ClearRecord(p) \/ Refused(p) \/ MergeConflicts(p) \/ Killed(p)
  BY <1>1, <1>3, AloneReady DEF SaveRecord, ClearRecord, Refused, MergeConflicts, Killed, git
<1>4. CASE Cleanup(p)
  BY <1>1, <1>4, AloneReady DEF Cleanup, TakeDown
<1>5. CASE AddWorktree(p)
  <2>1. /\ Goto(p, "record") /\ dirs' = dirs \cup {B(p)} /\ registered' = dirs'
        /\ pc'[p] = "record" /\ UNCHANGED B(p)
    BY <1>1, <1>2, <1>5 DEF AddWorktree, Goto
  <2>2. InStep(p)'
    BY <2>1 DEF InStep
  <2> QED BY <1>1, <2>1, <2>2, AloneReady DEF Step
<1>6. CASE SaveRecordFails(p)
  <2>1. /\ Goto(p, "cleanup") /\ UNCHANGED <<dirs, registered>> /\ pc[p] = "record"
        /\ pc'[p] = "cleanup" /\ UNCHANGED B(p)
    BY <1>1, <1>2, <1>6 DEF SaveRecordFails, Goto, git
  <2>2. InStep(p)'
    BY <1>1, <2>1 DEF InStep
  <2> QED BY <1>1, <2>1, <2>2, AloneReady DEF Step
<1>7. CASE Merge(p)
  <2>1. /\ Goto(p, "remove") /\ UNCHANGED <<dirs, registered>> /\ pc[p] = "merge"
        /\ pc'[p] = "remove" /\ UNCHANGED B(p)
    BY <1>1, <1>2, <1>7 DEF Merge, Goto
  <2>2. InStep(p)'
    BY <1>1, <2>1 DEF InStep
  <2> QED BY <1>1, <2>1, <2>2, AloneReady DEF Step
<1>8. CASE RemoveWorktree(p)
  <2>1. PICK s \in {"clear", "branch"} : Goto(p, s)
    BY <1>8 DEF RemoveWorktree
  <2>2. /\ dirs' = dirs \ {B(p)} /\ registered' = dirs' /\ UNCHANGED branches
        /\ B(p) \in dirs /\ pc'[p] = s /\ UNCHANGED B(p)
    BY <1>1, <1>2, <1>8, <2>1 DEF RemoveWorktree, CanRemove, TakeDown, Goto
  <2>3. B(p) \in branches'
    BY <2>2 DEF Inv, Types, GitTypes
  <2>4. InStep(p)'
    BY <2>2, <2>3 DEF InStep
  <2> QED BY <1>1, <2>1, <2>2, <2>4, AloneReady DEF Step
<1>9. CASE DeleteBranch(p) \/ Discard(p)
  <2>1. Goto(p, "clear") /\ registered' = dirs' /\ pc'[p] = "clear"
    BY <1>1, <1>2, <1>9 DEF DeleteBranch, Discard, TakeDown, Goto
  <2>2. InStep(p)'
    BY <2>1 DEF InStep
  <2> QED BY <1>1, <2>1, <2>2, AloneReady DEF Step
<1> QED BY <1>3, <1>4, <1>5, <1>6, <1>7, <1>8, <1>9 DEF Continue

(* Agents do not touch what a command relies on, and a merge only ends.    *)
LEMMA OthersReady ==
  ASSUME Ready, UNCHANGED <<slots, dirs, branches>>, (registered = dirs)', merging' \in {merging, {}}
  PROVE  Ready'
<1>1. \A p \in Proc : InStep(p) => InStep(p)'
  BY DEF InStep, B, slots
<1> QED BY <1>1 DEF Ready, slots

LEMMA NextReady ==
  Inv /\ (~overlapped => Agrees) /\ (Undisturbed => Ready) /\ [Next]_vars
    => (Undisturbed' => Ready')
<1> SUFFICES ASSUME Inv, ~overlapped => Agrees, Undisturbed => Ready, [Next]_vars, Undisturbed'
             PROVE  Ready'
  OBVIOUS
<1>1. Undisturbed
  <2>1. overlapped => overlapped'
    BY DEF Next, Continue, BeginStart, BeginDone, BeginAbort, BeginMissing, Begin,
       AddWorktree, SaveRecord, Cleanup, Merge, RemoveWorktree, DeleteBranch, Discard, ClearRecord,
       Refused, SaveRecordFails, MergeConflicts, Killed, Commit, RemoveByHand, Edit, EndMerge, Prune,
       vars, aux
  <2>2. byHand => byHand'
    BY DEF Next, Continue, BeginStart, BeginDone, BeginAbort, BeginMissing, Begin,
       AddWorktree, SaveRecord, Cleanup, Merge, RemoveWorktree, DeleteBranch, Discard, ClearRecord,
       Refused, SaveRecordFails, MergeConflicts, Killed, Commit, RemoveByHand, Edit, EndMerge, Prune,
       vars, aux
  <2> QED BY <2>1, <2>2 DEF Undisturbed
<1>2. OneCommand /\ Ready
  BY <1>1 DEF Undisturbed, Agrees
<1>3. CASE UNCHANGED vars
  BY <1>2, <1>3, OthersReady DEF vars, git, Ready
<1>4. ASSUME NEW b \in Branch, Commit(b) \/ RemoveByHand(b) \/ \E w \in Work : Edit(b, w)
      PROVE  Ready'
  <2>1. ~ RemoveByHand(b)
    BY DEF RemoveByHand, Undisturbed
  <2> QED BY <1>2, <1>4, <2>1, OthersReady DEF Commit, Edit, Ready
<1>5. CASE EndMerge \/ Prune
  BY <1>2, <1>5, OthersReady DEF EndMerge, Prune, Ready
<1>6. ~overlapped'
  BY DEF Undisturbed
<1> QED BY <1>2, <1>3, <1>4, <1>5, <1>6, StartReady, ContinueReady DEF Next

LEMMA ReadyIsNotRefused ==
  ASSUME Inv, Agrees, Ready, NEW p \in Proc, Refused(p) PROVE InTheWay(p)
<1>1. pc[p] # "idle" /\ InStep(p) /\ Knows(p) /\ registered = dirs
  BY DEF Refused, Ready, Agrees, CommandKnows
<1> QED BY <1>1 DEF Refused, InStep, Knows, InTheWay, CanAdd, CanMerge, CanRemove, CanDelete,
           CanDiscard, Inv, Types, GitTypes

(* Git refuses a step of start, done or abort only because of work: an     *)
(* edit made after the command looked for uncommitted changes, or a commit *)
(* after its merge.  Nothing else the commands check before they begin     *)
(* changes under them, as long as no other pt command runs and nobody      *)
(* removes a worktree by hand: agents' edits and commits, failed steps,    *)
(* kills and retries do not.                                               *)
THEOREM RefusedOnlyOverWork == Spec => [][OnlyWorkGetsInTheWay]_vars
<1>1. Init => (~overlapped => Agrees) /\ (Undisturbed => Ready)
  BY DEF Init, Agrees, OneCommand, CommandKnows, DirectoriesHaveRecords, RecordsDiffer, Ready
<1>2. Inv /\ (~overlapped => Agrees) /\ (Undisturbed => Ready) /\ [Next]_vars
        => (~overlapped => Agrees)' /\ (Undisturbed => Ready)'
  BY NextAgrees, NextReady
<1>3. Inv /\ (~overlapped => Agrees) /\ (Undisturbed => Ready) => OnlyWorkGetsInTheWay
  BY ReadyIsNotRefused DEF OnlyWorkGetsInTheWay, Undisturbed
<1>4. Inv /\ (~overlapped => Agrees) /\ (Undisturbed => Ready) => [OnlyWorkGetsInTheWay]_vars
  BY <1>3
<1> QED BY <1>1, <1>2, <1>4, Invariance, PTL DEF Spec
=============================================================================
