------------------------------ MODULE Worktree ------------------------------
(***************************************************************************)
(* pt worktree start, done and abort (cmd/pt/worktree.go): one git         *)
(* worktree per task, recorded in the store.                               *)
(*                                                                         *)
(* A command loads the store, looks at git, and then changes git and the   *)
(* store in separate steps, each of which may be refused, fail, or be the  *)
(* last one before the process is killed.  Meanwhile agents edit and       *)
(* commit in the worktrees and people repair the repository.  What git     *)
(* does is modelled from the commands the code runs: worktree add, merge   *)
(* --no-ff, worktree remove [--force] and branch -d.                       *)
(*                                                                         *)
(* Abstractions.  A worktree's path is made of its branch's name, so a     *)
(* branch stands for both.  A piece of work is first an uncommitted edit,  *)
(* then a commit on a branch, then part of the main branch, whichever      *)
(* branch is checked out in the main repository.  The main repository is   *)
(* dirty exactly while a merge in it waits to be resolved; the store is    *)
(* not tracked by git.  Commands run in the main repository.               *)
(***************************************************************************)
EXTENDS Naturals

CONSTANTS
  Task, Branch,
  Work,       \* pieces of work; bounds the edits
  Proc,       \* process slots
  MaxTrouble, \* bound: kills, failed steps, merge conflicts, removals by hand
  None        \* no worktree recorded; an empty slot

ASSUME WorktreeAssumption == None \notin Branch /\ MaxTrouble \in Nat

VARIABLES
  record,     \* the store: Worktrees[t].Branch, None without an entry
  dirs,       \* the branches whose worktree directory exists
  registered, \* the branches git considers checked out in a worktree
  branches,   \* the branches that exist
  tip,        \* tip[b]: the work committed on b, main's included
  main,       \* the work on the main branch
  merging,    \* the work of a merge that stopped at a conflict, {} for none
  pending,    \* pending[b]: the uncommitted edits in the worktree of b
  pc, cmd,    \* pc[p], cmd[p]: the next step of process p, and its command
  mem,        \* mem[p]: the records p has loaded
  trouble,    \* how many things went wrong
  made,       \* auxiliary: all work ever begun
  discarded,  \* auxiliary: the work somebody decided to throw away
  cut,        \* auxiliary: branches whose command stopped between git and the store
  overlapped, \* auxiliary: two commands have run at the same time
  byHand      \* auxiliary: somebody has removed a worktree without pt

git == <<dirs, registered, branches, tip, main, merging, pending>>
slots == <<pc, cmd, mem>>
aux == <<made, discarded, cut, overlapped, byHand>>
vars == <<record, git, slots, trouble, aux>>

Step == {"idle", "add", "record", "cleanup", "merge", "remove", "branch", "discard", "clear"}

Command ==
  [kind : {"start", "done", "abort"}, task : Task, branch : Branch,
   fresh : BOOLEAN,    \* start: the branch has to be created
   option : BOOLEAN]   \* done --keep-branch, abort --force

Init ==
  /\ record = [t \in Task |-> None]
  /\ dirs = {} /\ registered = {} /\ branches = {}
  /\ tip = [b \in Branch |-> {}] /\ pending = [b \in Branch |-> {}]
  /\ main = {} /\ merging = {}
  /\ pc = [p \in Proc |-> "idle"]
  /\ cmd = [p \in Proc |-> None] /\ mem = [p \in Proc |-> None]
  /\ trouble = 0
  /\ made = {} /\ discarded = {} /\ cut = {} /\ overlapped = FALSE
  /\ byHand = FALSE
-----------------------------------------------------------------------------
(* A command begins: it loads the store and looks at git.                  *)

Begin(p, c, first) ==
  /\ pc[p] = "idle"
  /\ pc' = [pc EXCEPT ![p] = first]
  /\ cmd' = [cmd EXCEPT ![p] = c]
  /\ mem' = [mem EXCEPT ![p] = record]
  /\ overlapped' = (overlapped \/ \E q \in Proc : pc[q] # "idle")
  /\ UNCHANGED <<record, git, trouble, made, discarded, cut, byHand>>

BeginStart(p, t, b) ==
  /\ record[t] = None
  /\ b \notin dirs
  /\ merging = {}
  /\ Begin(p, [kind |-> "start", task |-> t, branch |-> b,
               fresh |-> b \notin branches, option |-> FALSE], "add")

OnRecord(kind, t, option) ==
  [kind |-> kind, task |-> t, branch |-> record[t], fresh |-> FALSE, option |-> option]

BeginDone(p, t, keep) ==
  /\ record[t] \in dirs \cap branches
  /\ pending[record[t]] = {}
  /\ merging = {}
  /\ Begin(p, OnRecord("done", t, keep), "merge")

BeginAbort(p, t, force) ==
  /\ record[t] \in dirs
  /\ force \/ pending[record[t]] = {}
  /\ Begin(p, OnRecord("abort", t, force), "discard")

\* A done that insists on the directory.
NothingWhenMissing(p, t) == FALSE

\* done and abort of a worktree whose directory is missing: clear the record.
BeginMissing(p, t) ==
  /\ record[t] \in Branch \ dirs
  /\ \E kind \in {"done", "abort"} : Begin(p, OnRecord(kind, t, FALSE), "clear")
-----------------------------------------------------------------------------
(* A command goes on.  B(p) is the branch it is about.                     *)

B(p) == cmd[p].branch

Goto(p, step) == pc' = [pc EXCEPT ![p] = step] /\ UNCHANGED <<cmd, mem>>

Exit(p) ==
  /\ pc' = [pc EXCEPT ![p] = "idle"]
  /\ cmd' = [cmd EXCEPT ![p] = None]
  /\ mem' = [mem EXCEPT ![p] = None]

\* What each git command asks for: without it git refuses.
CanAdd(p) == B(p) \notin dirs \cup registered /\ (cmd[p].fresh <=> B(p) \notin branches)
CanMerge(p) == merging = {} /\ B(p) \in branches
CanRemove(p) == B(p) \in dirs /\ pending[B(p)] = {}
CanDelete(p) == B(p) \in branches \ registered /\ tip[B(p)] \subseteq main
CanDiscard(p) == B(p) \in dirs

\* git worktree add [-b]: a new branch starts from main.
AddWorktree(p) ==
  /\ pc[p] = "add" /\ CanAdd(p)
  /\ branches' = branches \cup {B(p)}
  /\ tip' = IF cmd[p].fresh THEN [tip EXCEPT ![B(p)] = main] ELSE tip
  /\ dirs' = dirs \cup {B(p)} /\ registered' = registered \cup {B(p)}
  /\ Goto(p, "record")
  /\ UNCHANGED <<record, main, merging, pending, trouble, aux>>

SaveRecord(p) ==
  /\ pc[p] = "record"
  /\ record' = [mem[p] EXCEPT ![cmd[p].task] = B(p)]
  /\ Exit(p)
  /\ UNCHANGED <<git, trouble, aux>>

Trouble == trouble < MaxTrouble /\ trouble' = trouble + 1

\* A start that leaves the worktree behind when it cannot be recorded.
SaveRecordFailsForGood(p) ==
  /\ pc[p] = "record" /\ Trouble
  /\ Exit(p)
  /\ UNCHANGED <<record, git, aux>>

SaveRecordFails(p) ==
  /\ pc[p] = "record" /\ Trouble
  /\ Goto(p, "cleanup")
  /\ UNCHANGED <<record, git, aux>>

\* A removal that forgets the files.
TakeDownKeepingFiles(b) == dirs' = dirs /\ registered' = registered \ {b}

TakeDown(b) == dirs' = dirs \ {b} /\ registered' = registered \ {b}

\* git worktree remove after a failed record; its error is ignored.
Cleanup(p) ==
  /\ pc[p] = "cleanup" /\ CanRemove(p)
  /\ TakeDown(B(p))
  /\ Exit(p)
  /\ UNCHANGED <<record, branches, tip, main, merging, pending, trouble, aux>>

\* git merge --no-ff
Merge(p) ==
  /\ pc[p] = "merge" /\ CanMerge(p)
  /\ main' = main \cup tip[B(p)]
  /\ Goto(p, "remove")
  /\ UNCHANGED <<record, dirs, registered, branches, tip, merging, pending, trouble, aux>>

MergeConflicts(p) ==
  /\ pc[p] = "merge" /\ CanMerge(p) /\ ~ tip[B(p)] \subseteq main
  /\ Trouble
  /\ merging' = tip[B(p)]
  /\ Exit(p)
  /\ UNCHANGED <<record, dirs, registered, branches, tip, main, pending, aux>>

\* git worktree remove
RemoveWorktree(p) ==
  /\ pc[p] = "remove" /\ CanRemove(p)
  /\ TakeDown(B(p))
  /\ Goto(p, IF cmd[p].option THEN "clear" ELSE "branch")
  /\ UNCHANGED <<record, branches, tip, main, merging, pending, trouble, aux>>

\* git branch -D
DeleteBranchUnmerged(p) ==
  /\ pc[p] = "branch" /\ B(p) \in branches \ registered
  /\ branches' = branches \ {B(p)} /\ tip' = [tip EXCEPT ![B(p)] = {}]
  /\ Goto(p, "clear")
  /\ UNCHANGED <<record, dirs, registered, main, merging, pending, trouble, aux>>

\* git branch -d
DeleteBranch(p) ==
  /\ pc[p] = "branch" /\ CanDelete(p)
  /\ branches' = branches \ {B(p)} /\ tip' = [tip EXCEPT ![B(p)] = {}]
  /\ Goto(p, "clear")
  /\ UNCHANGED <<record, dirs, registered, main, merging, pending, trouble, aux>>

\* git worktree remove --force
Discard(p) ==
  /\ pc[p] = "discard" /\ CanDiscard(p)
  /\ TakeDown(B(p))
  /\ pending' = [pending EXCEPT ![B(p)] = {}]
  /\ discarded' = discarded \cup pending[B(p)]
  /\ Goto(p, "clear")
  /\ UNCHANGED <<record, branches, tip, main, merging, trouble, made, cut, overlapped, byHand>>

ClearRecord(p) ==
  /\ pc[p] = "clear"
  /\ record' = [mem[p] EXCEPT ![cmd[p].task] = None]
  /\ Exit(p)
  /\ UNCHANGED <<git, trouble, made, discarded, cut, overlapped, byHand>>

\* Git and the store disagree when the command stops here.
HalfWay(p) ==
  cut' = IF pc[p] \in {"record", "cleanup", "branch", "clear"} THEN cut \cup {B(p)} ELSE cut

\* Git refuses the step, and the error ends the command.
Refused(p) ==
  /\ \/ pc[p] = "add" /\ ~CanAdd(p)
     \/ pc[p] = "merge" /\ ~CanMerge(p)
     \/ pc[p] \in {"remove", "cleanup"} /\ ~CanRemove(p)
     \/ pc[p] = "branch" /\ ~CanDelete(p)
     \/ pc[p] = "discard" /\ ~CanDiscard(p)
  /\ HalfWay(p)
  /\ Exit(p)
  /\ UNCHANGED <<record, git, trouble, made, discarded, overlapped, byHand>>

\* The process is killed, or the step fails for any other reason.
Killed(p) ==
  /\ pc[p] # "idle" /\ Trouble
  /\ HalfWay(p)
  /\ Exit(p)
  /\ UNCHANGED <<record, git, made, discarded, overlapped, byHand>>
-----------------------------------------------------------------------------
(* Agents and people.                                                      *)

Edit(b, w) ==
  /\ b \in dirs /\ w \in Work \ made
  /\ pending' = [pending EXCEPT ![b] = @ \cup {w}]
  /\ made' = made \cup {w}
  /\ UNCHANGED <<record, dirs, registered, branches, tip, main, merging, slots, trouble,
                 discarded, cut, overlapped, byHand>>

Commit(b) ==
  /\ pending[b] # {}
  /\ tip' = [tip EXCEPT ![b] = @ \cup pending[b]]
  /\ pending' = [pending EXCEPT ![b] = {}]
  /\ UNCHANGED <<record, dirs, registered, branches, main, merging, slots, trouble, aux>>

\* The conflict is resolved and committed, or the merge given up.
EndMerge ==
  /\ merging # {}
  /\ main' \in {main, main \cup merging}
  /\ merging' = {}
  /\ UNCHANGED <<record, dirs, registered, branches, tip, pending, slots, trouble, aux>>

\* rm -rf of a worktree's directory; git does not notice until it prunes.
RemoveByHand(b) ==
  /\ b \in dirs /\ Trouble
  /\ dirs' = dirs \ {b}
  /\ pending' = [pending EXCEPT ![b] = {}]
  /\ discarded' = discarded \cup pending[b]
  /\ cut' = cut \cup {b}
  /\ byHand' = TRUE
  /\ UNCHANGED <<record, registered, branches, tip, main, merging, slots,
                 made, overlapped>>

\* git worktree prune, which git gc runs too.
Prune ==
  /\ registered # dirs
  /\ registered' = registered \cap dirs
  /\ UNCHANGED <<record, dirs, branches, tip, main, merging, pending, slots, trouble, aux>>

Continue(p) ==
  \/ AddWorktree(p) \/ SaveRecord(p) \/ Cleanup(p)
  \/ Merge(p) \/ RemoveWorktree(p) \/ DeleteBranch(p) \/ Discard(p) \/ ClearRecord(p)
  \/ Refused(p)

TryDone(t) == \E p \in Proc : BeginMissing(p, t) \/ \E keep \in BOOLEAN : BeginDone(p, t, keep)

Next ==
  \/ \E p \in Proc, t \in Task :
       \/ \E b \in Branch : BeginStart(p, t, b)
       \/ \E keep \in BOOLEAN : BeginDone(p, t, keep)
       \/ \E force \in BOOLEAN : BeginAbort(p, t, force)
       \/ BeginMissing(p, t)
  \/ \E p \in Proc : Continue(p) \/ SaveRecordFails(p) \/ MergeConflicts(p) \/ Killed(p)
  \/ \E b \in Branch : Commit(b) \/ RemoveByHand(b) \/ \E w \in Work : Edit(b, w)
  \/ EndMerge \/ Prune

(* Commands that run go on; whoever wants a worktree finished commits what *)
(* is in it, ends merges, and runs done again after every failure.         *)
Fairness ==
  /\ \A p \in Proc : WF_vars(Continue(p))
  /\ \A b \in Branch : WF_vars(Commit(b))
  /\ WF_vars(EndMerge)
  /\ \A t \in Task : SF_vars(TryDone(t))

Spec == Init /\ [][Next]_vars

FairSpec == Spec /\ Fairness
-----------------------------------------------------------------------------
(* Every variable keeps its range; git has a worktree for every directory. *)
TypeOK ==
  /\ record \in [Task -> Branch \cup {None}]
  /\ dirs \subseteq registered /\ registered \subseteq branches /\ branches \subseteq Branch
  /\ tip \in [Branch -> SUBSET Work] /\ pending \in [Branch -> SUBSET Work]
  /\ main \subseteq Work /\ merging \subseteq Work
  /\ pc \in [Proc -> Step] /\ DOMAIN cmd = Proc /\ DOMAIN mem = Proc
  /\ \A p \in Proc : pc[p] # "idle" => cmd[p] \in Command /\ mem[p] \in [Task -> Branch \cup {None}]
  /\ trouble \in 0 .. MaxTrouble
  /\ made \subseteq Work /\ discarded \subseteq Work
  /\ cut \subseteq Branch /\ overlapped \in BOOLEAN /\ byHand \in BOOLEAN

(* No work is lost: whatever an agent has begun is uncommitted in some     *)
(* worktree, committed on some branch or merged, unless somebody removed   *)
(* the directory or aborted.  In particular done, retried, killed, run     *)
(* twice at once or while the agent is still committing, loses nothing.    *)
NoWorkLost ==
  \A w \in made \ discarded :
    w \in main \/ \E b \in Branch : w \in pending[b] \/ (b \in branches /\ w \in tip[b])

(* As long as commands do not overlap, store and git agree while no        *)
(* command runs: a directory has one record, a record a directory and a    *)
(* branch, except where a command stopped half-way.                        *)
StoreMatchesGit ==
  ~overlapped /\ (\A p \in Proc : pc[p] = "idle") =>
    \A b \in Branch \ cut :
      /\ b \in dirs <=> \E t \in Task : record[t] = b
      /\ \A t, u \in Task : record[t] = b /\ record[u] = b => t = u

(* As long as commands do not overlap, a worktree can always be finished:  *)
(* if done is run again and again, the record is cleared, whatever failed, *)
(* wherever a command was killed, and whatever became of the directory.    *)
WorktreesCanBeFinished == \A t \in Task : []<>(record[t] = None \/ overlapped)
=============================================================================
