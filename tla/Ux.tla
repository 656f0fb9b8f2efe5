--------------------------------- MODULE Ux ---------------------------------
(***************************************************************************)
(* UX exploration (cmd/pt/ux.go, ux_preflight.go): the use cases of one    *)
(* task, options and mockups for them, the user's selection, and the       *)
(* preflight packet without which pt claim refuses a task of type web.     *)
(*                                                                         *)
(* All of it lives in the metadata of the task, inside the store.  Every   *)
(* command loads the whole store when it starts and writes the whole store *)
(* back, possibly after minutes: some ask the user first.  Mockups and the *)
(* packet are files of their own, written between the two.  A command may  *)
(* be killed between any two writes.                                       *)
(*                                                                         *)
(* Abstractions.  The store is the record of one task; what else a claim   *)
(* checks and writes is module Transitioner.  Of cli, tui and web, which   *)
(* the code treats alike, there is web; doc stands for the types without a *)
(* preflight.  Descriptions, notes and timestamps are left out, as is the  *)
(* degree of coverage.  All commands are given in one directory.           *)
(***************************************************************************)
EXTENDS Naturals, Sequences

CONSTANTS
  Proc,          \* process slots
  Goal,          \* what users may want to do
  IterationMax,  \* UXConfig.IterationMax; the code takes 0 for 3
  MaxCases,      \* bound: use cases
  MaxOptions,    \* bound: options, and the labels in use
  MaxPackets,    \* bound: preflight packets written
  MaxTrouble     \* bound: kills

ASSUME UxAssumption ==
  /\ IterationMax \in Nat /\ MaxCases \in Nat /\ MaxOptions \in Nat /\ MaxPackets \in Nat
  /\ MaxTrouble \in Nat

VARIABLES
  task,       \* the store
  manifest,   \* what the manifest, if it lists the task, says about it
  files,      \* the mockup files: <<label, fidelity>>
  packet,     \* which preflight packet is at the canonical path, 0 for none
  archive,    \* the packets moved to the archive
  written,    \* how many packets were written
  pc, mem,    \* pc[p]: what process p does next; mem[p]: its copy of the store
  trouble,    \* how many commands were killed
  told,       \* auxiliary: goals acknowledged as use cases
  overlapped, \* auxiliary: two commands have run at the same time
  hasty,      \* auxiliary: two packets were archived in the same second
  synced,     \* auxiliary: pt sync has rebuilt the metadata
  updated,    \* auxiliary: pt update has rebuilt the metadata
  cut         \* auxiliary: a claim was killed before it recorded its override

disk == <<files, packet, archive, written>>
rebuilds == <<synced, updated>>
vars == <<task, manifest, disk, pc, mem, trouble, told, overlapped, hasty, rebuilds, cut>>

Label == 1 .. MaxOptions
Case == Nat \ {0}
UxType == {"none", "doc", "web"}
Fidelity == {"ascii", "html", "styled"}

\* "none": no UXState.  The code also names a status approved, but sets it nowhere.
Status == {"none", "pending", "cases", "explore", "selected", "escalate"}

Enforced == IF IterationMax = 0 THEN 3 ELSE IterationMax

Task ==
  [ux : UxType,                \* meta.UX and its type
   hard : BOOLEAN,             \* template discovery, artifact doc: no override
   status : Status,
   cases : Seq(Goal),          \* UC1, UC2, ...
   options : 0 .. MaxOptions,
   mockups : [Label -> Fidelity \cup {"none"}],
   coverage : SUBSET (Label \X Case),
   selection : 0 .. MaxOptions,
   iterations : 0 .. Enforced + 1,
   preflight : BOOLEAN,
   criteria : SUBSET (Case \X Goal),  \* DoD criteria "Satisfies UC1: ..."
   claim : {"no", "plain", "forced"}, \* in progress, and whether by an override
   override : BOOLEAN]                \* comment gate-override: ux-preflight

NewTask(ux, hard) ==
  [ux |-> ux, hard |-> hard, status |-> "none", cases |-> <<>>, options |-> 0,
   mockups |-> [l \in Label |-> "none"], coverage |-> {}, selection |-> 0, iterations |-> 0,
   preflight |-> FALSE, criteria |-> {}, claim |-> "no", override |-> FALSE]

\* ToTask and NewTaskMeta: what a manifest makes of the metadata of a task that is there.
Fresh(r, ux, hard) ==
  [NewTask(ux, hard) EXCEPT !.criteria = r.criteria, !.claim = r.claim, !.override = r.override]

Nothing == NewTask("none", FALSE)

\* A task from a manifest, or of pt add, which sets no ux.
Init ==
  /\ manifest \in [listed : BOOLEAN, ux : UxType, hard : BOOLEAN]
  /\ manifest.listed \/ manifest.ux = "none"
  /\ task = NewTask(manifest.ux, manifest.hard)
  /\ files = {} /\ packet = 0 /\ archive = {} /\ written = 0
  /\ pc = [p \in Proc |-> "idle"] /\ mem = [p \in Proc |-> Nothing]
  /\ trouble = 0 /\ told = {}
  /\ overlapped = FALSE /\ hasty = FALSE /\ synced = FALSE /\ updated = FALSE /\ cut = FALSE
-----------------------------------------------------------------------------
(* What the commands make of the record they have loaded.                  *)

Range(seq) == {seq[i] : i \in 1 .. Len(seq)}

\* A UXState that begins without a status.
StartedBlank(r) == IF r.status = "none" THEN [r EXCEPT !.status = ""] ELSE r

\* meta.UXState == nil
Started(r) == IF r.status = "none" THEN [r EXCEPT !.status = "pending"] ELSE r

\* ensureUXEnabled: by --type, or of itself for a discovery doc.
Enabled(r, type) == [r EXCEPT !.ux = type]

WithCase(r, g) == [Started(r) EXCEPT !.cases = Append(@, g)]

\* A guided session that numbers its use cases from UC1 again.
DiscoveredAnew(r, gs) == [Started(r) EXCEPT !.cases = gs, !.status = "cases"]

Discovered(r, gs) == [Started(r) EXCEPT !.cases = @ \o gs, !.status = "cases"]

Confirmed(r) == [r EXCEPT !.status = "cases"]
Explored(r) == [r EXCEPT !.status = "explore"]
WithOption(r) == [r EXCEPT !.options = @ + 1]

\* An iteration that does not count.
IteratedForFree(r) == [r EXCEPT !.status = "cases", !.options = 0]

Iterated(r) ==
  IF r.iterations + 1 >= Enforced
  THEN [r EXCEPT !.iterations = @ + 1, !.status = "escalate"]
  ELSE [r EXCEPT !.iterations = @ + 1, !.status = "cases", !.options = 0]

Promises(r) == {<<i, r.cases[i]>> : i \in 1 .. Len(r.cases)}

Selected(r, l) ==
  [r EXCEPT !.selection = l, !.status = "selected", !.criteria = @ \cup Promises(r)]

\* Drawing a label again leaves its fidelity.
WithMockup(r, l) ==
  [Started(r) EXCEPT !.mockups[l] = IF @ = "none" THEN "ascii" ELSE @]

Upgraded(r, l, f) == [r EXCEPT !.mockups[l] = f]
Covered(r, l, C) == [r EXCEPT !.coverage = @ \cup ({l} \X C)]
Preflighted(r) == [Started(r) EXCEPT !.preflight = TRUE]

PreflightMissing(r) == r.ux = "web" /\ ~r.preflight

Claimed(r, how) == [r EXCEPT !.claim = how]

\* A sync that leaves the criteria.
RebuiltBySyncKeepingCriteria(r) == Fresh(r, manifest.ux, manifest.hard)

\* ensureIssueLocked: the metadata as the manifest has it.
RebuiltBySync(r) == [Fresh(r, manifest.ux, manifest.hard) EXCEPT !.criteria = {}]

\* UpdateTask with a handoff field: it copies template, artifact and DoD, but not UX.
RebuiltByUpdate(r) == Fresh(r, "none", r.hard)
-----------------------------------------------------------------------------
(* A process: newClientWith and GetTask load the store.                    *)

Load(p) ==
  /\ pc[p] = "idle"
  /\ pc' = [pc EXCEPT ![p] = "loaded"]
  /\ mem' = [mem EXCEPT ![p] = task]
  /\ overlapped' = (overlapped \/ \E q \in Proc : pc[q] # "idle")
  /\ UNCHANGED <<task, manifest, disk, trouble, told, hasty, rebuilds, cut>>

Loaded(p) == pc[p] = "loaded"
LoadedUx(p) == Loaded(p) /\ mem[p].ux # "none"
Begun(p) == Loaded(p) /\ mem[p].status # "none"

\* cases and preflight, which may have enabled UX themselves.
Enabling(p) == pc[p] \in {"loaded", "enabled"} /\ mem[p].ux # "none"

Leaves(p) ==
  /\ pc' = [pc EXCEPT ![p] = "idle"]
  /\ mem' = [mem EXCEPT ![p] = Nothing]

\* The last save of a command, which changes nothing but the metadata.
Saves(p, r) ==
  /\ task' = r
  /\ Leaves(p)
  /\ UNCHANGED <<manifest, disk, trouble, overlapped, hasty, cut>>

Ends(p, r) == Saves(p, r) /\ UNCHANGED <<told, rebuilds>>

\* A save in the middle of a command.
SavesAndGoesOn(p, r, step) ==
  /\ task' = r
  /\ mem' = [mem EXCEPT ![p] = r]
  /\ pc' = [pc EXCEPT ![p] = step]
  /\ UNCHANGED <<manifest, disk, trouble, told, overlapped, hasty, rebuilds, cut>>

Enable(p) ==
  /\ Loaded(p) /\ mem[p].ux = "none"
  /\ \E type \in UxType \ {"none"} : SavesAndGoesOn(p, Enabled(mem[p], type), "enabled")

\* ux-cases --add, which leaves the status.
AddCase(p, g) ==
  /\ Enabling(p)
  /\ Len(mem[p].cases) < MaxCases
  /\ told' = told \cup {g}
  /\ Saves(p, WithCase(mem[p], g)) /\ UNCHANGED rebuilds

\* ux-cases in dialogue: one use case, or as many as a guided session yields.
Discover(p, gs) ==
  /\ Enabling(p)
  /\ Len(mem[p].cases) + Len(gs) <= MaxCases
  /\ told' = told \cup Range(gs)
  /\ Saves(p, Discovered(mem[p], gs)) /\ UNCHANGED rebuilds

\* ux-cases --confirm, or continue in the dialogue.
Confirm(p) == Enabling(p) /\ mem[p].cases # <<>> /\ Ends(p, Confirmed(mem[p]))

\* ux-explore shows what there is, and saves.
Explore(p) == LoadedUx(p) /\ mem[p].cases # <<>> /\ Ends(p, Explored(mem[p]))

AddOption(p) ==
  /\ LoadedUx(p) /\ mem[p].cases # <<>>
  /\ mem[p].options < MaxOptions
  /\ Ends(p, WithOption(mem[p]))

Iterate(p) ==
  /\ LoadedUx(p) /\ Begun(p)
  /\ mem[p].iterations <= Enforced
  /\ Ends(p, Iterated(mem[p]))

\* Any choice is accepted, whatever the options are.
Select(p, l) == LoadedUx(p) /\ Begun(p) /\ Ends(p, Selected(mem[p], l))

Cover(p) ==
  /\ Begun(p)
  /\ \E l \in Label, C \in {1 .. Len(mem[p].cases)} \cup {{c} : c \in 1 .. Len(mem[p].cases)} :
       Ends(p, Covered(mem[p], l, C))

\* The file first, then the metadata.
Draws(p, file, r) ==
  /\ files' = files \cup {file}
  /\ mem' = [mem EXCEPT ![p] = r]
  /\ pc' = [pc EXCEPT ![p] = "drawn"]
  /\ UNCHANGED <<task, manifest, packet, archive, written, trouble, told, overlapped, hasty, rebuilds, cut>>

\* The other order: the metadata, and no file if the command is stopped.
CreateMockupMetaFirst(p) ==
  \/ /\ Loaded(p)
     /\ \E l \in Label : SavesAndGoesOn(p, WithMockup(mem[p], l), "drawn")
  \/ /\ pc[p] = "drawn"
     /\ files' = files \cup {<<l, mem[p].mockups[l]>> : l \in {k \in Label : mem[p].mockups[k] # "none"}}
     /\ Leaves(p)
     /\ UNCHANGED <<task, manifest, packet, archive, written, trouble, told, overlapped, hasty, rebuilds, cut>>

CreateMockup(p) ==
  /\ Loaded(p)
  /\ \E l \in Label : Draws(p, <<l, "ascii">>, WithMockup(mem[p], l))

UpgradeMockup(p) ==
  /\ Loaded(p)
  /\ \E l \in Label, f \in {"html", "styled"} :
       mem[p].mockups[l] # "none" /\ Draws(p, <<l, f>>, Upgraded(mem[p], l, f))

SaveMockup(p) == pc[p] = "drawn" /\ Ends(p, mem[p])
-----------------------------------------------------------------------------
(* pt ux preflight: archive the packet there is, write a new one, mark the *)
(* task, link the packet by a comment.                                     *)

\* A packet that is written over.
OverwritePacket(p) ==
  /\ Enabling(p)
  /\ pc' = [pc EXCEPT ![p] = "archived"]
  /\ UNCHANGED <<task, manifest, disk, mem, trouble, told, overlapped, hasty, rebuilds, cut>>

\* Of an archive named after the second, the later packet replaces the earlier.
ArchivePacket(p) ==
  /\ Enabling(p)
  /\ pc' = [pc EXCEPT ![p] = "archived"]
  /\ packet' = 0
  /\ \/ archive' = archive \cup ({packet} \ {0}) /\ UNCHANGED hasty
     \/ /\ packet # 0
        /\ \E k \in archive : archive' = (archive \ {k}) \cup {packet}
        /\ hasty' = TRUE
  /\ UNCHANGED <<task, manifest, files, written, mem, trouble, told, overlapped, rebuilds, cut>>

WritePacket(p) ==
  /\ pc[p] = "archived" /\ written < MaxPackets
  /\ written' = written + 1 /\ packet' = written + 1
  /\ pc' = [pc EXCEPT ![p] = "packed"]
  /\ UNCHANGED <<task, manifest, files, archive, mem, trouble, told, overlapped, hasty, rebuilds, cut>>

MarkPreflight(p) == pc[p] = "packed" /\ SavesAndGoesOn(p, Preflighted(mem[p]), "linking")

LinkPacket(p) == pc[p] = "linking" /\ Ends(p, mem[p])
-----------------------------------------------------------------------------
(* Others that write the same metadata, or read it.                        *)

\* cmdClaim: the UX preflight is the last of its gates.
ClaimUnchecked(p) == Loaded(p) /\ mem[p].claim = "no" /\ Ends(p, Claimed(mem[p], "plain"))

Claim(p) ==
  /\ Loaded(p) /\ mem[p].claim = "no"
  /\ ~PreflightMissing(mem[p])
  /\ Ends(p, Claimed(mem[p], "plain"))

\* --override-soft: the comment is written after the claim.
ClaimAnyway(p) ==
  /\ Loaded(p) /\ mem[p].claim = "no"
  /\ PreflightMissing(mem[p]) /\ ~mem[p].hard
  /\ SavesAndGoesOn(p, Claimed(mem[p], "forced"), "override")

RecordOverride(p) == pc[p] = "override" /\ Ends(p, [mem[p] EXCEPT !.override = TRUE])

SyncAgain(p) ==
  /\ Loaded(p) /\ manifest.listed
  /\ synced' = TRUE
  /\ Saves(p, RebuiltBySync(mem[p]))
  /\ UNCHANGED <<told, updated>>

UpdateHandoff(p) ==
  /\ Loaded(p)
  /\ updated' = TRUE
  /\ Saves(p, RebuiltByUpdate(mem[p]))
  /\ UNCHANGED <<told, synced>>

\* A command that only reads, is refused, or whose user thinks better of it;
\* a packet that cannot be written.
Quit(p) ==
  /\ pc[p] \in {"loaded", "enabled", "archived"}
  /\ Leaves(p)
  /\ UNCHANGED <<task, manifest, disk, trouble, told, overlapped, hasty, rebuilds, cut>>

Killed(p) ==
  /\ pc[p] \notin {"idle", "loaded"}
  /\ trouble < MaxTrouble /\ trouble' = trouble + 1
  /\ cut' = (cut \/ pc[p] = "override")
  /\ Leaves(p)
  /\ UNCHANGED <<task, manifest, disk, told, overlapped, hasty, rebuilds>>

Answers == {<<>>} \cup {<<g>> : g \in Goal} \cup {<<g, h>> : g, h \in Goal}

Cases(p) ==
  \/ \E g \in Goal : AddCase(p, g)
  \/ \E gs \in Answers : Discover(p, gs)
  \/ Confirm(p)

Options(p) == Explore(p) \/ AddOption(p) \/ Iterate(p) \/ (\E l \in Label : Select(p, l)) \/ Cover(p)
Mockups(p) == CreateMockup(p) \/ UpgradeMockup(p) \/ SaveMockup(p)
Preflight(p) == ArchivePacket(p) \/ WritePacket(p) \/ MarkPreflight(p) \/ LinkPacket(p)
Claims(p) == Claim(p) \/ ClaimAnyway(p) \/ RecordOverride(p)

Next == \E p \in Proc :
  \/ Load(p) \/ Enable(p) \/ Cases(p) \/ Options(p) \/ Mockups(p) \/ Preflight(p) \/ Claims(p)
  \/ SyncAgain(p) \/ UpdateHandoff(p) \/ Quit(p) \/ Killed(p)

(* What pt ux-status says to do next; who is asked to choose an option may *)
(* ask for another iteration instead.                                      *)
HintEnable(p) == Enable(p)

HintCases(p) ==
  /\ task.status \in {"none", "pending", "cases"}
  /\ IF mem[p].cases = <<>> THEN \E g \in Goal : AddCase(p, g) ELSE Explore(p)

HintExplore(p) == task.status = "explore" /\ (Select(p, 1) \/ Iterate(p))

(* Commands end, since users answer, and whoever wants the task built      *)
(* returns to it again and again and does what the hints say.              *)
Fairness ==
  /\ \A p \in Proc : WF_vars(SaveMockup(p) \/ MarkPreflight(p) \/ LinkPacket(p) \/ RecordOverride(p) \/ Quit(p))
  /\ SF_vars(\E p \in Proc : Load(p))
  /\ SF_vars(\E p \in Proc : HintEnable(p))
  /\ SF_vars(\E p \in Proc : HintCases(p))
  /\ SF_vars(\E p \in Proc : HintExplore(p))

Spec == Init /\ [][Next]_vars

FairSpec == Spec /\ Fairness
-----------------------------------------------------------------------------
(* The store and the copies of it are task records; packets are numbered   *)
(* as they are written.                                                    *)
TypeOK ==
  /\ task \in Task
  /\ manifest \in [listed : BOOLEAN, ux : UxType, hard : BOOLEAN]
  /\ files \subseteq Label \X Fidelity
  /\ written \in 0 .. MaxPackets /\ packet \in 0 .. written /\ archive \subseteq 1 .. written
  /\ pc \in [Proc -> {"idle", "loaded", "enabled", "drawn", "archived", "packed", "linking", "override"}]
  /\ mem \in [Proc -> Task]
  /\ trouble \in 0 .. MaxTrouble
  /\ told \subseteq Goal
  /\ \A flag \in {overlapped, hasty, synced, updated, cut} : flag \in BOOLEAN

(* What the definition of done says about a use case, "Satisfies UC1: ...",*)
(* is what the use case of that number says, however commands race and are *)
(* killed: numbers are never given twice.  (pt update is excepted: it      *)
(* drops the use cases and leaves the criteria.)                           *)
CriteriaAreUseCases == ~updated => task.criteria \subseteq Promises(task)

(* What ux-cases acknowledged stays with the task through exploration,     *)
(* iterations, selection and preflight, unless two commands overlapped or  *)
(* the metadata was rebuilt.                                               *)
UseCasesAreKept == ~(overlapped \/ synced \/ updated) => told \subseteq Range(task.cases)

(* Every mockup the task lists can be viewed: the file for its fidelity is *)
(* there, through races, kills and upgrades.                               *)
MockupsHaveFiles ==
  \A l \in Label : task.mockups[l] # "none" => <<l, task.mockups[l]>> \in files

(* A task whose preflight is done has a packet, if only in the archive;    *)
(* and as long as commands do not overlap or come within one second, every *)
(* packet ever written, with what users added to it, is kept.              *)
PacketsAreKept ==
  /\ task.preflight => packet # 0 \/ archive # {}
  /\ ~(overlapped \/ hasty) => 1 .. written = archive \cup ({packet} \ {0})

(* "claim blocked by hard gate (ux-preflight)" (cmdClaim): a task whose    *)
(* manifest wants a web UX is claimed after a preflight or by an explicit  *)
(* override where that is allowed, and no race makes it look otherwise     *)
(* afterwards; the override is on record, unless commands overlapped.      *)
ClaimsAreVetted ==
  /\ manifest.ux = "web" /\ ~synced /\ ~updated =>
       /\ task.claim = "plain" => task.preflight
       /\ task.claim = "forced" => ~manifest.hard
  /\ task.claim = "forced" /\ ~overlapped /\ ~cut /\ (\A p \in Proc : pc[p] # "override")
       => task.override

(* "Only non-empty fields are applied" (pkg/pt/types.go, UpdateOptions): a *)
(* task whose manifest wants a web UX is claimed after a preflight or by   *)
(* an override, even if other fields of it have been updated.              *)
UpdateLeavesTheGate ==
  manifest.ux = "web" /\ ~synced /\ task.claim = "plain" => task.preflight

(* The exploration is bounded: who does what pt ux-status says, asking for *)
(* as many iterations as he likes, gets the task ready for building or     *)
(* escalated, from wherever other commands have left it.                   *)
ExplorationEnds ==
  []<>(task.status \in {"selected", "escalate"} \/ overlapped \/ synced \/ updated)
=============================================================================
