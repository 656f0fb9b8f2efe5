# A TLA+ model of pt

`pt` (cmd/pt and pkg/pt) is a command-line task tracker for software agents: a
plan of tasks with dependencies, a lifecycle for each task, workflow files with
gates between phases, discovery and UX records, and git worktrees. All of it
lives in one JSON file. This directory holds a model of it: TLA+ modules, TLC
configurations that check them on small instances, and TLAPS proofs of what
matters most for every instance. PROJECT.json lists the runs, the lines of the
repository each definition stands for, the hazards the properties were chosen
for, and the theorems.

## The system

| Component | State | Operations | What is hard about it | What makes it correct |
|---|---|---|---|---|
| Task state machine (pkg/pt/state_manager.go) | status and assignee per task, dependency graph | Claim, Release, MarkNeedsReview, Reject, Complete, Reopen | orders of completions and reopenings over a graph; unlocking dependents | no task is stranded, work has an owner, only the documented transitions |
| Store (pkg/pt/store.go) | one JSON file: issues, title map, next id, dependencies, labels, comments, metadata | load once, change the copy, replace the file | every process writes its whole copy back; one command makes several replacements; a kill or a failure between them | saved transitions last, ids stay unique, references never dangle |
| Lifecycle commands (pkg/pt/transitioner.go, cmd/pt/main.go) | none of their own | claim, release, validate, approve, reject, reopen, update --assignee | guard on a snapshot, minutes of tests before the write, ignored errors | implement the lifecycle; labels and comments agree with the status |
| Planning (sync, add, update --title) | the manifest, ids handed out so far | issues, dependencies, phase labels, review tasks, one write each | repeated, interrupted and overlapping syncs; renames | the plan is coherent, and what was reported stays true |
| Workflow gates (pkg/pt/workflow.go, pkg/pt/engine) | the workflow file; comments serve as answers and overrides | EvaluateGate, CheckGate, phase status, in two engines (PT_ENGINE) | several commands decide about the same gate in different places, by either engine | hard gates block, and can always be satisfied; the engines agree |
| Conductor (cmd/pt/next.go, workflow.go, grounding.go, main.go) | none | pt next, ready, workflow status, next and check, and what claim checks: gates, grounding pack, preflight | rails, gates, blocks, missing files, packs, preflights and checkpoints at once | what is recommended can be done, following it finishes the project, and no two reports contradict each other |
| Git worktrees (cmd/pt/worktree.go) | a record per task; git branches and directories | start, done, abort | git and the store change in separate steps | no finished work is lost, done can be repeated |
| Discovery (cmd/pt/discovery.go) | one JSON file per component (the synthesis), a wireframe file per label, the approval comment in the store | init, capabilities, explore, option, coverage, synthesize, review, feedback, iterate, approve, mockup | read, wait for the user, rewrite in place; two records of one approval; labels handed out anew | no option and no feedback is forgotten, approvals are informed, the gate follows them, the hints lead to one |
| UX exploration (cmd/pt/ux.go, ux_preflight*.go) | fields of the task's metadata; mockup files, a preflight packet and its archive | ux-cases, explore, select, mockup, upgrade, cover, preflight, and the claim gate that asks for it | commands that ask the user between load and save; a file and a store entry each; metadata rebuilt by sync and update | what the user confirmed stays true, mockups and packets exist, claims are vetted, the exploration ends |
| Store files (cmd/pt/export.go, doctor.go, snapshot in main.go; pkg/pt/client.go) | the store file of each directory, current or legacy; backups and snapshots | search, migration, import, doctor --fix, snapshot | rewrites without a lock or a rename, beside commands that use both; a torn file reads as an empty store | stores stay unambiguous, what was stored is found again, the search keeps its answer |
| Hooks, validation runner, parsers, other reports, mocks table, reviews/demos/scope/journey/sysmap documents, contracts, feedback, the projects under projects/ | files | text and I/O | - | outside the model, see the end |

The components meet in the store file. A command is one operating-system
process: it loads the file once (`NewStoreClient`), decides on that copy, and
each store call changes the copy and replaces the whole file (`saveLocked`, a
rename). The file lock covers one read or one write only. README.md of the
repository documents the regime this is meant for, a single orchestrator that
changes the store; `Exclusive` (Transitioner) and `overlapped`
(Planning, Discovery, Ux, StoreFiles) separate what holds in that regime from what holds under any race.

## Modules

Order of reading, which is also the order in which they depend on each other:

| Module | Models |
|---|---|
| TaskLifecycle | what pt promises about a task: its transitions, an owner, closed dependencies before a claim. Abstract specification of StateManager, Transitioner and Conductor. |
| StateManager | state_manager.go: one action per method, since each method holds the mutex. An error return is no step. |
| Transitioner | the lifecycle commands as processes: load, guard on the snapshot, then the status, label and comment writes one by one |
| PlanStore | the plan half of the store: ids, titles, title map, dependencies, and store calls as functions of a snapshot |
| Planning | sync, add and update --title as processes on PlanStore |
| Gates | EvaluateGate, CheckGate and the phase status, as operators on a workflow and a view of the store |
| Conductor | pt next, pt claim with gates, overrides, grounding packs and preflights, and every command that changes what they look at; the people who follow pt next |
| Engine | the second workflow engine: compiled gates, their evaluation, CheckGate and the phase status, against those of Gates |
| Reports | pt ready, pt workflow next and pt workflow check, against pt next and pt claim |
| Worktree | pt worktree start, done and abort as git and store steps, next to the agents who edit and commit |
| Discovery | the pt discovery commands as processes that read the synthesis, decide, and rewrite it; approve also comments on the task |
| Ux | use cases, options, iterations, selection, mockups, coverage, preflight packets and the claim gate, as commands that load the store, ask the user, write files and save |
| StoreFiles | where the store is and what replaces it: search, migration, import, doctor --fix and snapshot, beside pt add; on PlanStore |
| StateManagerProofs, TransitionerProofs, PlanningProofs, ConductorProofs, WorktreeProofs, DiscoveryProofs, UxProofs, StoreFilesProofs | the theorems; ConductorProofs has those of Engine and Reports too |
| MC* | instances for TLC |

### StateManager and TaskLifecycle

`status` and `assignee` are the fields of `taskState`; `Deps` is the graph given
to `NewStateManager` (a dependency on an unknown id is never done, as in
`depsDone`). `Complete` includes the loop that turns planned tasks into ready
ones. The refinement maps planned and ready to "open".

### Transitioner

`disk` is the file, `mem[p]` the copy of process p, `pc[p]` the next store call.
A `Begin...` action is the part of a command up to its first write: the load and
all guards, evaluated on the loaded copy. `SaveStatus` and `SaveTrail` are the
replacements; `SaveFails` lets one fail, fatal or ignored as the caller treats
it; `Crash` ends the process anywhere. `pt validate` runs the tests between load
and guard. What is left out: gates, pre-hooks and preflights (a refused command
changes nothing; Conductor has them), metadata, history, free-text comments
except as writes that may fail. Three auxiliary variables serve the properties:
`last` (the row the latest command wrote), `held` (who was told "claimed"),
`torn` (tasks whose command stopped between status and comment).

### PlanStore and Planning

Ids are numbers. A row has the id under which it is filed and the id it bears,
because `ensureIssueLocked` returns the latter. Go iterates maps in no fixed
order, so where several issues have a title any of them may be found. A sync
saves the issues with their dependencies at once, then one label write per task,
then per task a review task and a dependency on it, each a write.
`told` records what finished commands printed.

### Gates and Conductor

A phase is its position, a gate condition a set of alternatives (an OR), a
comment the tag a gate looks for. pt next is written as the conditions of each
of its answers: a pending review, a checkpoint (the rails of cmdNext), a task, a
shut gate, "held up", or "finished". `Ends` and `Selected` are the loop over
the candidates by priority. A command is one step (Transitioner has what lies
in between), except that `claim --override-soft` may lose its second write, the
override comment. Not in it: `--role` and `--limit`.

`ungrounded` are the tasks that claim refuses for want of a grounding pack, with
or without an override (grounding.go:10-37): their template asks for one
(`RequiresGrounding`), they have inputs or a file as artifact, and no pack. pt
update writes one (`Ground`); a pack cleared, or inputs given to a task without
one, is a setback (`Unground`). Each rebuilds the metadata without its UX part
(`Rebuilt`), as every edit of a handoff field does. Tasks of other templates only
get a warning, which is left out. `Wanting` are the tasks that lack a pack or a
preflight: claim alone looks at these, pt next and the reports do not.
pt preflight is only run on tasks with a UX type. Equality of phase ids is
equality, where the code compares substrings.

### Engine and Reports

Both are operators on the state of Conductor: these commands change nothing.
Engine compiles each alternative of a gate as compile.go does, with the case
compile.go does not have (ux_preflight_done), and evaluates the expressions as
eval.go does. `EnginesAgree` holds the two engines against each other, in every
state the project can get into. Reports has pt ready (with and without
--all-phases and --include-blocked), pt workflow next and check; `ReportsAgree`
says how the answers hang together.

### Worktree

A branch stands for its worktree too, since the path is made of the branch's
name. `record` is the store's Worktrees map. A `Begin...` action loads the store
and runs the checks of the command; then every git command and the store write
is an action: `AddWorktree`, `SaveRecord` (or `SaveRecordFails` and `Cleanup`),
`Merge`, `RemoveWorktree`, `DeleteBranch`, `Discard`, `ClearRecord`. When git
would refuse the step, `Refused` ends the command where it is, as the code's
early returns do; `Killed` ends it for any other reason. What git does is
external and written from the commands the code runs: `merge --no-ff`, `worktree
remove` (refuses uncommitted edits), `branch -d` (refuses unmerged commits and
checked-out branches). The main repository counts as dirty exactly while a
merge is unresolved; the store is not tracked by git.

A piece of work is an uncommitted edit, then a commit on a branch, then merged.
Agents edit and commit at any time, somebody may remove a directory by hand, and
git prunes. The auxiliary variables: `made` and `discarded` (by abort, its
--force, or by hand) are sets of work; `cut` has the branches whose command stopped
between git and the store, `overlapped` and `byHand` are flags for the
assumptions of the properties.

### Discovery

`syn` is the synthesis file of one component. A command reads it and decides in
one action, which puts what it will write in `out[p]`; `Save` (for approve
`SaveApproval`, then `AddComment`) rewrites the file later. What happens in
between is what another command can do meanwhile: approve waits there for its
answer. `Stopped` is a kill, which may leave half a file, since os.WriteFile
writes in place, or a comment that fails.

Labels are positions in the alphabet; a selection such as "A+C" is one no option
has. A design is the number of the option that brought it up. Capabilities,
their coverage and the approach tags are counted. How the bubble sort of
synthesize breaks ties is left open: `Orders` has every order that is sorted.
Commands whose fields no guard reads (persona, edge-case, usability, friction,
component, renaming an option) are `Annotate`: they still read and rewrite the
file. `told` (feedback acknowledged), `accepted` (feedback a user agreed to leave
open), `approvals`, `cut` and `overlapped` are auxiliary.

### Ux

`task` is the metadata of one task in the store, with its claim; `mem[p]` is the
copy with which process p began (`Load`). A command changes its copy and saves it
(`Saves`, or `SavesAndGoesOn` where it writes more); what the user is asked lies
between `Load` and the save, minutes in which others may save. A mockup is drawn
into a file first and listed second (`CreateMockup`, `SaveMockup`); a preflight is
four writes (`ArchivePacket`, `WritePacket`, `MarkPreflight`, `LinkPacket`); a
forced claim is two (`ClaimAnyway`, `RecordOverride`). `Killed` ends a process
between any two. `SyncAgain` and `UpdateHandoff` are the commands that rebuild
the metadata from fewer fields than it has. Use cases are numbered in sequence; a
criterion is the number and the goal it quotes. Packets are numbered as they are
written, and archived under the second: `hasty` says that two came within one.
`told`, `overlapped`, `hasty`, `synced`, `updated` and `cut` are auxiliary.

### StoreFiles

`file` maps each directory's two paths to a store, to `Torn` (truncated, or
written over by two) or to `None`. `Search[w]` is the list of directories looked
into from w: up to the repository's root, then the main repository's for a
worktree. A migration looks and then moves (`LookForStore`, `MoveStore`,
`MissStore`); an add loads and saves through a rename; import and doctor copy,
read, truncate and write in place. A rename moves a file that others have open:
`path[q]` follows it, and a file replaced under a writer has no name any more
(`Gone`). `Merge` is cmdImport's, on the PlanStore half of the store; rows keep
the ids they had in the imported store, as in the code. Everything exported or
copied can be imported again (`Importable`). `Quit` stands for a kill, a refusal
and a failed write. `told` is what was reported as stored and from where; it is
emptied when commands overlap and when import is told to make no backup.

## Runs

| Run | Question | Instance, and why it is large enough |
|---|---|---|
| state_manager | can the task machine strand a task, or take an undocumented step? | a diamond of four tasks: a chain, a fork and a join; two actors; unbounded |
| lifecycle_commands | with one orchestrator, what can kills and failed writes do? | two tasks, one waiting for the other; two actors; unbounded in time, at most one task torn at once (the tasks' trails are independent) |
| concurrent_claim | two claims at once (expected violation) | two processes, as few as can race |
| planning | is the plan coherent under races and kills, and what was printed true without? | three titles (a task, its review, the review's review), two processes, three ids, three commands, two once commands overlap, one --deps argument; enough for a sync to be interrupted and repeated, and for a rename between two of them |
| sync_cycle | expected violation, one process | as planning |
| conductor | is the guidance of pt next right (up to assignees, packs and preflights, at which it does not look) and complete, is there always a next step, do the reports and engines agree with it, do hard gates block, does the project finish? | four tasks, three phases, two workflows in the shapes of workflows/maintenance.toml and workflows/risk-first.toml, one setback of any kind: it includes a checkpoint, a dependency, a missing file, a preflight, a task that needs a grounding pack and may lack it, an empty phase and a task outside every phase |
| soft_override | expected violation | as conductor, no setbacks |
| worktrees | can a kill, a refusal, a race or a late commit lose work, make store and git disagree, or leave a worktree nobody can finish? | two tasks, two branches, one piece of work, two processes, one mishap (kill, failed write, conflict, removal by hand), as refusals and late commits are free and not counted; once commands overlap, a bound keeps the overlap short (`Overlaps`) |
| discovery | can options or feedback be lost, can an approval be uninformed or miss its gate, and do the hints of pt discovery status lead to an approval? | two options of which synthesis keeps one, one capability, one approach, two remarks, one kill or failed comment, two processes. A second command overlaps an approval, or a command given before there are options, and kills hit designs that belong to a task (`Small`); two processes rewrite one file in the same way whatever is in it, and the theorems cover every overlap |
| ux | do the records of an exploration stay true through races, kills and rebuilds, and does it end? | two goals, two use cases, one option, two packets, two iterations, two processes, one kill. `Small` (MCUx) looks at the parts of a task one at a time, and at those together that a command reads or clears together; overlaps, kills and rebuilds hit states with at most one use case. The theorems cover the rest |
| ux_wiped | expected violation | as ux |
| store_files | can import, doctor, migration, snapshots, kills and races make a store ambiguous, lose what was stored, or make the search find another store? | a repository and a worktree, a legacy store in any of them; three titles, three ids, an imported store whose numbers all collide; two seconds; three commands in a row (store, damage, repair or find) or two that overlap |

`CHECK_DEADLOCK FALSE` is set for the Conductor, Worktree and StoreFiles runs
only. A project whose tasks are all closed stops. In StoreFiles the number of
commands is bounded. In Worktree, a start that is killed
before its record is written leaves a directory pt does not know of; when every
branch is in that position no command can run.

The four expected violations are statements of the repository's own documents
or comments which the code does not keep; PROJECT.json "findings" quotes
them. In short: two racing claims both succeed; two acyclic manifests can add up
to a cycle; overriding a soft gate skips the hard gate behind it; updating a
handoff field of a task drops its UX metadata, preflight gate included.

Met while modelling, and not shown by a run:

- A manifest that names a review task gets no dependency on it, and pt next says
  DONE while the last tasks are in progress.
- A hard all_closed gate after the first phase is evaluated as the entry gate of
  its own phase and locks it (workflow.go:536-556).
- worktree done merges, removes the directory and deletes the branch with
  `git branch -d`, which git refuses when something was committed after the
  merge; run again, done finds no directory, clears the record
  (worktree.go:184-197) and reports success, while the commit stays on a branch
  that pt no longer knows of. `NoWorkLost` holds: the commit is not lost.
- Discovery's synthesize relabels options but not their wireframe files
  (discovery.go), so that handoff finds another option's.
- A merging import replaces a row by one with another id, and overwrites
  dependencies by id whatever became of the issue (export.go:206-238): a
  dependency may then point at another title, and doctor, which asks by the id
  in the row, misses dangling ones; sync goes by that id too, where add --deps
  and rename go by the title map. `StoresMakeSense` claims what is left: no number
  is given again, no map entry points at another title.
- pt next, pt ready and pt workflow next put forward tasks that claim refuses for
  want of a grounding pack (main.go:1703-1709). The remedy claim prints, pt update
  --grounding-files, drops the task's UX metadata (store.go:418-430): a preflight
  done before is gone, and so is the demand for one.
- doctor writes in place and without the lock. Backups, snapshots and archived
  packets are named by the second and replace each other within one.
- `DiscoveredStorePath` names a legacy file although the next command that opens
  the store moves it (client.go:68-81): who has exported that path as PT_DB goes
  on with a new, empty store there.

## Fairness

Four properties are about liveness, `EventuallyFinished` of Conductor,
`WorktreesCanBeFinished` of Worktree, `HintsLeadToApproval` of Discovery and
`ExplorationEnds` of Ux. For
the first, pt itself does nothing on its own, so fairness is about the people and agents
who run it: they keep doing what pt next says (`FollowNext`, `AnswerGate`),
finish and review work they have taken (Validate, Approve), and eventually clear
a block, an assignment, a preflight or a missing grounding pack that claim asks for. All of it is weak
fairness: the action has to stay possible until it is taken. Setbacks (release,
reject, reopen, block, assign, edit, a pack cleared) have none and are bounded by `MaxSetbacks`;
without the bound one could reopen a task for ever.

In Worktree a command that runs takes its next step (weak fairness of
`Continue`: it is sequential code), agents commit what they have edited and
somebody ends a merge (weak fairness), and the person who wants the task
finished runs done again after each failure. That is strong fairness of
`TryDone`, since other commands and edits make done impossible for a while
again and again; it says the person does not give up, not that done succeeds.

In Discovery a command that runs finishes unless it is killed (weak fairness of
`Finish`), and whoever wants the design approved comes back to it and does what
pt discovery status says (strong fairness of each hint, because a command that
runs in between disables them for a moment). Feedback, edits and kills have no
fairness; feedback and mishaps are bounded. What the property asks is that from
every status, reached in whatever order, the hints do not go round in circles.

In Ux, too, a command that runs goes on to its end (weak fairness of its further
writes and of `Quit`), and whoever wants the task built comes back to it and does
what pt ux-status says (strong fairness of `Load` and of each hint, which other
commands disable for a moment). He may ask for another iteration each time: the
limit on iterations, not the user, has to end the exploration. The property
allows for overlaps and rebuilt metadata, after which the hints start again.

## Proofs

All theorems are proved for arbitrary sets of tasks, actors, titles and
processes. Assumptions: `ManagerAssumption` and `TransitionerAssumption` (the
empty assignee is not an actor; the dependencies of a task are tasks),
`StoreAssumption` and `PlanningAssumption` (the "no issue" title is not a title,
there are finitely many titles, `ReviewOf` maps titles to titles and no two to
the same, a manifest names only its own titles), `EngineAssumption` (a discovery:approved condition
stands in the gate of the phase it searches), `UxAssumption` (the bounds are
numbers) and `StoreFilesAssumption` (a search is not empty, and meets the root of
a repository only at its end; the stores that exist elsewhere are coherent).

- **StateManagerProofs.** TypeOK is inductive. `NoStrandedTask` needs that only
  `Complete` can make a dependency done (`DepsDoneMonotone`), and that its loop
  covers exactly the tasks for which it did. `ManagerImplementsLifecycle` shows
  every method to be a TaskLifecycle step under the mapping above. `OwnedWork`:
  work in progress, under review or done has an assignee.
- **TransitionerProofs.** NoLostUpdate and HolderOwnsTask are not inductive: that
  a process saves something harmless depends on what it read earlier. The
  invariant `SingleWriter` adds, under `Exclusive`: at most one process
  (`OneAtATime`), whose copy agrees with the file on statuses and assignees
  (`SnapshotIsFresh`: an ignored failed label write may leave the rest behind),
  whose guard still holds when the status is about to be saved
  (`GuardStillHolds`), and who owns the task once that is done (`ClaimIsSaved`).
  `ClaimsAreExclusive` is the same property that the concurrent_claim run
  refutes without `Exclusive`. `StoreImplementsLifecycle` maps SaveStatus to the
  transition of its command, everything else to a stutter. For
  `EvidenceIsKept`, `TrailInv` says which writes the running command has behind
  it, from its step, and that its snapshot shows every other task as the file
  does: a command that saves a status never writes back older evidence.
  `RacesInventNothing` drops `Exclusive`: for every set of status and owner
  tables that no transition of the lifecycle leaves, the file stays inside it,
  since each process saves its own snapshot moved on by one transition
  (`GuardedSaveIsTransition`) and every snapshot was once the file. A race loses
  transitions; it cannot invent one. `TiedTasksStayOpen` draws one conclusion.
- **PlanningProofs.** The store calls preserve coherence (`EnsureIssuesSound`,
  `AddDepsSound`, `RenameSound`), every process holds a coherent copy, and ids
  it has handed out exist in its copy. Since a write replaces the file by one
  process's copy, coherence survives every race: `PlanStaysCoherent` has no
  single-orchestrator assumption. `PromisesAreKept` has: while commands do not
  overlap, the one at work holds what is in the file (`Solo`), a store call
  extends what it is given (`Extends`), and what a command will report is in its
  copy from its first save on (`Delivered`). Reviews are found by their titles,
  which is where `ReviewOf` has to tell titles apart.
  `SyncTwiceIsSyncOnce` is the "Sync Idempotency" of the repository's README, for
  every coherent store: a repeated sync makes no issue; it changes nothing at all
  when the manifest's titles stand for different issues. `PlansInLineCanBeWorkedOff`
  is what the cycle check in Sync cannot give by itself (the sync_cycle run): if
  manifests, reviews, adds and renames agree on an order of the titles
  (`InLine`, with the order an arbitrary assignment of numbers), no task ever
  waits for itself, however commands overlap. A knot needs two commands that
  contradict each other, not a race.
- **ConductorProofs.** For every workflow and every plan. `Types` is inductive.
  For `HardGatesBlockPlainClaims`: answers at gates are comments and are never
  taken back (`AnswersStay`), so gates once held stay held (`HeldGatesStay`), and
  a claim without an override starts a task behind open gates only
  (`StartsBehindOpenGates`). `GuidanceIsSound` follows from the definitions of
  pt next and pt claim, case by case, which is what two commands that decide the
  same thing in two places need; its exceptions (`reserved`, `Wanting`) are what
  claim looks at and pt next does not. `GuidanceIsComplete` and `ReportsAgree` speak of
  the first phase under way and of the first shut gate; that there is a first one
  is `LeastElement`, by counting instead of induction. Of EventuallyFinished,
  everything but the fairness is proved: as long as a task is open and everybody
  waits for pt next, it names a task to claim or a soft gate to
  override, which pt claim accepts as soon as the task has its grounding pack, or a hard gate that a comment still missing would open
  (`ThereIsAlwaysANextStep`, for plans whose dependencies and checkpoints make
  sense, `WellPlanned`); every command but the setbacks takes something
  away from what is left to do (`EveryStepGetsSomewhere`), where a task without its
  pack may have two preflights ahead, one before the pack and one after, and that is a number
  which counts down (`StepsLeftCountDown`). `ConductorImplementsLifecycle` ties the
  one-step commands of this module to those Transitioner takes apart: both refine
  TaskLifecycle, here with an owner who is only known to be there or not. For `EnginesAgree`, a
  compiled condition evaluates like its source (`CompiledMeansTheSame`), hence
  so do gates, tasks and phases.
- **WorktreeProofs.** For any number of processes and mishaps. The invariant is
  `Types` (git's view is consistent: a directory is registered, a registered
  branch exists) with `EditsAreInWorktrees` (only an existing worktree has
  uncommitted edits) and `NoWorkLost`. Both parts are needed: removal is safe
  because it refuses edits, deletion because it refuses unmerged commits. For
  `StoreKeepsUpWithGit`, `Agrees`: one command is at work, it knows the record of
  its task, and only what it has done so far keeps directories and records apart.
  Two theorems are about steps. `CommandsChangeTheirOwnRecord`: although a command
  saves the whole store it loaded at its start, it changes the record of its own
  task only, while commands do not overlap. `RefusedOnlyOverWork`: a step of git
  that a command has begun is refused only because of an edit or a commit made
  meanwhile (`Ready`: what the command checked still holds), whatever was killed or
  failed before, unless commands overlap or somebody removes a worktree by hand.
- **DiscoveryProofs.** Each command makes a `Sound` synthesis of a sound one: it
  adds up (`OptionsAddUp`, with no more options than were ever explored, which
  bounds the labels synthesize hands out) and an approval in it is informed. One
  lemma per command; for synthesize, that the sorted order is a permutation
  (`OrdersPermute`, by the pigeonhole principle). The invariant then says that
  the file and every copy about to be written are sound, so it needs no
  assumption about overlapping commands. Two theorems do: the gate follows the
  approval because the command that is between its writes is the only one
  (`GateInv`), and no feedback is lost because the command that runs has read all
  that was acknowledged (`FeedbackInvariant`). For the hints: what pt discovery
  status may lead to is given by `Proposed` as a set of syntheses; the hint actions
  save exactly those (`HintsAreTheProposals`), until the approval there is always
  one, and each is nearer to it by the measure `Distance`
  (`HintsNeverRunOut`). `Distance` counts the options still to be decided about,
  the stages to come, and the options and approaches a stage still lacks.
- **UxProofs.** Each command makes a sound record of a sound one, sound meaning
  what the four properties about records say of it (`Promised`, `Drawn`,
  `Packed`, `Vetted`); what is sound stays so when files are added. The copies
  are sound as well as the store, so races need no assumption. Where
  a property does (use cases kept, every packet kept, overrides recorded), `Alone`
  says that a process working alone works on what is in the store.
  `HintsNeverRunOut` and `HintsAreTheProposals` are as in DiscoveryProofs, until an
  option is selected or the task escalated; another iteration counts as nearer,
  since the iterations are limited. The second needs commands not to overlap
  (`UpToDate`: the copy is the store), the first does not.
- **StoreFilesProofs.** A process writes what it has read, changed by an add
  (`AddedStore`), a merge (`MergedStore`) or a repair (`RepairedStore`), or leaves
  the file torn; these three keep a store sensible, whatever two of them do at
  once. For `SearchIsStable`, a process writes only to a path whose directory has
  a store already or is a root (`WritesAtHome`), through renames under it
  (`RenamedPaths`): so a first store appears only where every search ends
  (`Grows`, `GrowthKeepsTheSearch`). For `StoredTasksStayFound`, `Orderly`: one
  process is at work and works on the store its search leads to (`Fits`), and
  before it truncates that store, what was reported from it is in a copy
  (`Copied`). `ImportTwiceIsImportOnce` is about the merge alone: titles of both
  stores survive it, except where a number is taken, and a repeated import of a
  store that names no title twice changes nothing.

Only model-checked: the four liveness properties as such, because temporal
reasoning with fairness and ENABLED is outside what the proof system does. Of
three of them the other half is proved for every instance: somebody can always
move and every move gets nearer (Conductor), a hint always exists and brings the
end nearer (Discovery, Ux). In Worktree the proof covers that work alone gets in
the way of a retry; that the retries end in a finished worktree is left to TLC.
Every invariant and action property of a passing run has a theorem. The expected
violations need no theorem: a counterexample on a small instance is one.

## Not modelled

The other reports and listings change nothing. The manifest, workflow and
contract parsers, the document commands (review, demo, scope, journey, sysmap)
and the feedback commands turn text into text or files. The programs under
projects/ are not part of pt. The validation runner's verdict is a
nondeterministic choice in Transitioner; hooks are either a refusal (no step) or
a second process. Of doctor, the repairs of missing fields and of block and
worktree records are left out: they delete entries of tables StoreFiles does not
have, in the same read, backup and write. PT_DB, PT_NO_DISCOVER and --db name the
store file and leave nothing to search.

## Plan

1. Done: StateManager, Transitioner, PlanStore, Planning, Gates, Conductor,
   Engine, Reports, Worktree, Discovery, Ux and StoreFiles, with their theorems;
   the halves of the liveness properties that need no fairness.
2. To prove: a measure for retried worktree commands, so that nothing but the
   fairness of `WorktreesCanBeFinished` is left to TLC.
3. Hooks that call pt while the command that runs them holds its copy of the
   store; the --role filter of pt next; the mocks table; pt sync
   --generate-phase-reviews.
