------------------------------ MODULE Discovery ------------------------------
(***************************************************************************)
(* pt discovery (cmd/pt/discovery.go): the exploration of one component's  *)
(* design, from its capabilities over labelled options, a synthesis of the *)
(* best, review and feedback to an approval that opens a workflow gate.    *)
(*                                                                         *)
(* The synthesis is one JSON file.  Every command reads it, decides, and   *)
(* rewrites it in place (os.WriteFile, no lock): another command may come  *)
(* in between, for minutes while approve waits for an answer, and a kill   *)
(* may leave half a file.  Wireframes are files of their own, named after  *)
(* a label; the approval is also a comment on a task in the store.         *)
(*                                                                         *)
(* Abstractions.  Labels are positions in the alphabet; a combination such *)
(* as "A+C" is a label no option has.  A design is the number of the       *)
(* option that introduced it: what the user has in mind when naming it.    *)
(* Coverage of single capabilities, approach tags and capabilities are     *)
(* counted.  Personas, edge cases, usability, friction, components, and    *)
(* the name of an option are read by no guard: Annotate.                   *)
(***************************************************************************)
EXTENDS Naturals, Sequences

CONSTANTS
  Proc,          \* process slots
  Feedback,      \* things a user may say; bounds the feedback
  Top,           \* how many options a synthesis keeps (the code: 3)
  MinOptions,    \* DefaultExplorationGate (the code: 5 and 2)
  MinApproaches,
  MaxOptions,    \* bound: options ever explored, and the labels in use
  MaxCaps,       \* bound: capabilities, and the coverage of an option
  MaxDrawn,      \* bound: wireframes drawn
  MaxTrouble     \* bound: kills and failed comments

ASSUME DiscoveryAssumption ==
  /\ Top \in Nat \ {0} /\ MinOptions \in Nat /\ MinApproaches \in Nat
  /\ MaxOptions \in Nat /\ MaxCaps \in Nat /\ MaxDrawn \in Nat /\ MaxTrouble \in Nat

VARIABLES
  syn,        \* the file
  wireframe,  \* wireframe[l]: the design drawn in the wireframe file of label l, 0 for none
  comment,    \* the store has the comment discovery-approved
  pc, out,    \* pc[p]: what process p does next; out[p]: the synthesis it will save
  trouble,    \* how many things went wrong
  told,       \* auxiliary: the feedback acknowledged since the file was last torn
  accepted,   \* auxiliary: the feedback the user agreed to leave open
  approvals,  \* auxiliary: an approval has been saved
  cut,        \* auxiliary: an approval stopped before its comment
  overlapped  \* auxiliary: two commands have run at the same time

aux == <<told, accepted, approvals, cut, overlapped>>
vars == <<syn, wireframe, comment, pc, out, trouble, aux>>

Label == 1 .. MaxOptions
Design == 1 .. MaxOptions

\* Besides the statuses of the code: no file, and a file that does not parse.
Status == {"absent", "torn", "capabilities", "exploring", "synthesized", "reviewing", "feedback", "approved"}

Synthesis ==
  [status : Status, linked : BOOLEAN, caps : 0 .. MaxCaps, approaches : 0 .. MinApproaches,
   options : Seq([label : Label, design : Design, coverage : 0 .. MaxCaps]),
   rejected : SUBSET Design, total : 0 .. MaxOptions, rec : 0 .. MaxOptions,
   feedback : Seq([item : Feedback, addressed : BOOLEAN])]

NewSynthesis(status, linked) ==
  [status |-> status, linked |-> linked, caps |-> 0, approaches |-> 0, options |-> <<>>,
   rejected |-> {}, total |-> 0, rec |-> 0, feedback |-> <<>>]

\* No file yet; a process that has nothing to save.
Nothing == NewSynthesis("absent", FALSE)

Loaded == syn.status \notin {"absent", "torn"}
Positions(seq) == 1 .. Len(seq)
Has(r, l) == \E i \in Positions(r.options) : r.options[i].label = l
Open(r) == {i \in Positions(r.feedback) : ~ r.feedback[i].addressed}
Items(r) == {r.feedback[i].item : i \in Positions(r.feedback)}

Init ==
  /\ syn = Nothing
  /\ wireframe = [l \in Label |-> 0] /\ comment = FALSE
  /\ pc = [p \in Proc |-> "idle"] /\ out = [p \in Proc |-> Nothing]
  /\ trouble = 0
  /\ told = {} /\ accepted = {} /\ approvals = FALSE /\ cut = FALSE /\ overlapped = FALSE
-----------------------------------------------------------------------------
(* What the commands make of the synthesis they have read.                 *)

\* A label that is taken renames its option, which Annotate covers.
WithOption(r, l, tag) ==
  [r EXCEPT !.options = Append(@, [label |-> l, design |-> r.total + 1, coverage |-> 0]),
            !.total = @ + 1,
            !.approaches = @ + tag]

WithCoverage(r, i, n) == [r EXCEPT !.options[i].coverage = n]

\* Only more than Top options are sorted; how the sort breaks ties is left open.
Orders(r) ==
  LET P == Positions(r.options)
  IN  IF Len(r.options) <= Top
      THEN {[i \in P |-> i]}
      ELSE {o \in [P -> P] :
              \A i, j \in P : i < j => /\ o[i] # o[j]
                                       /\ r.options[o[i]].coverage >= r.options[o[j]].coverage}

Kept(r) == IF Len(r.options) <= Top THEN Len(r.options) ELSE Top

\* A synthesis that relabels from one before A.
SynthesizedFromZero(r, o) ==
  [r EXCEPT !.options = [i \in 1 .. Kept(r) |-> [r.options[o[i]] EXCEPT !.label = i - 1]],
            !.rejected = @ \cup {r.options[o[i]].design : i \in Kept(r) + 1 .. Len(r.options)},
            !.rec = IF r.options = <<>> THEN @ ELSE 1,
            !.status = "synthesized"]

\* The kept options are relabelled by position, the first one is recommended.
Synthesized(r, o) ==
  [r EXCEPT !.options = [i \in 1 .. Kept(r) |-> [r.options[o[i]] EXCEPT !.label = i]],
            !.rejected = @ \cup {r.options[o[i]].design : i \in Kept(r) + 1 .. Len(r.options)},
            !.rec = IF r.options = <<>> THEN @ ELSE 1,
            !.status = "synthesized"]

\* Feedback that replaces what was said before.
WithOnlyFeedback(r, f) ==
  [r EXCEPT !.feedback = <<[item |-> f, addressed |-> FALSE]>>, !.status = "feedback"]

WithFeedback(r, f) ==
  [r EXCEPT !.feedback = Append(@, [item |-> f, addressed |-> FALSE]), !.status = "feedback"]

WithAddressed(r, i) == [r EXCEPT !.feedback[i].addressed = TRUE]

Approved(r, sel) == [r EXCEPT !.rec = IF sel = 0 THEN @ ELSE sel, !.status = "approved"]
-----------------------------------------------------------------------------
(* A command reads the file and decides.                                   *)

Begin(p, r, step) ==
  /\ pc[p] = "idle"
  /\ pc' = [pc EXCEPT ![p] = step]
  /\ out' = [out EXCEPT ![p] = r]
  /\ overlapped' = (overlapped \/ \E q \in Proc : pc[q] # "idle")
  /\ UNCHANGED <<syn, comment, trouble, told, approvals, cut>>

Write(p, r) == Loaded /\ Begin(p, r, "save") /\ UNCHANGED <<wireframe, accepted>>

\* init ignores the error of reading a file that does not parse.
DiscoveryInit(p) ==
  /\ ~Loaded
  /\ \E linked \in BOOLEAN : Begin(p, NewSynthesis("capabilities", linked), "save")
  /\ UNCHANGED <<wireframe, accepted>>

AddCapability(p) == syn.caps < MaxCaps /\ Write(p, [syn EXCEPT !.caps = @ + 1])
Confirm(p) == syn.caps > 0 /\ Write(p, [syn EXCEPT !.status = "exploring"])

Explore(p) ==
  /\ syn.status = "capabilities" /\ syn.caps > 0
  /\ Write(p, [syn EXCEPT !.status = "exploring"])

TagApproach(p) == syn.approaches < MinApproaches /\ Write(p, [syn EXCEPT !.approaches = @ + 1])

AddOption(p) ==
  /\ syn.status \in {"exploring", "feedback"}
  /\ syn.total < MaxOptions
  /\ \E l \in Label, tag \in {0, 1} :
       /\ ~Has(syn, l)
       /\ syn.approaches + tag <= MinApproaches
       /\ Write(p, WithOption(syn, l, tag))

\* Of one capability, which is counted as often as it is marked, or of all.
Cover(p) ==
  \E i \in Positions(syn.options) :
    \E n \in {syn.options[i].coverage + 1, 0, syn.caps} :
      n <= MaxCaps /\ Write(p, WithCoverage(syn, i, n))

GatePassed == syn.total >= MinOptions /\ syn.approaches >= MinApproaches

Synthesize(p, force) ==
  /\ force \/ GatePassed
  /\ \E o \in Orders(syn) : Write(p, Synthesized(syn, o))

\* A review of whatever there is.
ReviewAnything(p) ==
  /\ syn.status \in {"synthesized", "feedback"}
  /\ Write(p, [syn EXCEPT !.status = "reviewing"])

Review(p) == syn.status = "synthesized" /\ Write(p, [syn EXCEPT !.status = "reviewing"])

GiveFeedback(p) ==
  /\ syn.status \in {"synthesized", "reviewing", "feedback"}
  /\ \E f \in Feedback \ (told \cup Items(syn)) : Write(p, WithFeedback(syn, f))

Address(p, i) == Write(p, WithAddressed(syn, i))

\* An iteration that only counts.
IterateInPlace(p) == Open(syn) = {} /\ Write(p, syn)

Iterate(p) == Open(syn) = {} /\ Write(p, [syn EXCEPT !.status = "exploring"])

Annotate(p) == Write(p, syn)

\* The file is written first.  Of a label without an option, the user has some
\* rejected design in mind.
Mockup(p) ==
  /\ \E l \in 1 .. MaxDrawn :
       \E d \in IF Has(syn, l)
                THEN {syn.options[i].design : i \in {k \in Positions(syn.options) : syn.options[k].label = l}}
                ELSE syn.rejected :
         wireframe' = [wireframe EXCEPT ![l] = d]
  /\ Loaded /\ Begin(p, syn, "save")
  /\ UNCHANGED accepted

\* An approval that does not ask about open feedback.
ApproveUnasked(p, sel) ==
  /\ syn.status = "reviewing"
  /\ Begin(p, Approved(syn, sel), "approve")
  /\ UNCHANGED <<wireframe, accepted>>

\* The user says yes: to refuse changes nothing.
Approve(p, sel) ==
  /\ syn.status = "reviewing"
  /\ Begin(p, Approved(syn, sel), "approve")
  /\ accepted' = accepted \cup {syn.feedback[i].item : i \in Open(syn)}
  /\ UNCHANGED wireframe
-----------------------------------------------------------------------------
(* A command goes on.                                                      *)

Exit(p) ==
  /\ pc' = [pc EXCEPT ![p] = "idle"]
  /\ out' = [out EXCEPT ![p] = Nothing]

Save(p) ==
  /\ pc[p] = "save"
  /\ syn' = out[p]
  /\ told' = told \cup Items(out[p])
  /\ Exit(p)
  /\ UNCHANGED <<wireframe, comment, trouble, accepted, approvals, cut, overlapped>>

\* An approval that forgets the task.
SaveApprovalOnly(p) ==
  /\ pc[p] = "approve"
  /\ syn' = out[p]
  /\ approvals' = TRUE
  /\ Exit(p)
  /\ UNCHANGED <<wireframe, comment, trouble, told, accepted, cut, overlapped>>

SaveApproval(p) ==
  /\ pc[p] = "approve"
  /\ syn' = out[p]
  /\ approvals' = TRUE
  /\ IF out[p].linked
     THEN pc' = [pc EXCEPT ![p] = "comment"] /\ UNCHANGED out
     ELSE Exit(p)
  /\ UNCHANGED <<wireframe, comment, trouble, told, accepted, cut, overlapped>>

AddComment(p) ==
  /\ pc[p] = "comment"
  /\ comment' = TRUE
  /\ Exit(p)
  /\ UNCHANGED <<syn, wireframe, trouble, aux>>

Trouble == trouble < MaxTrouble /\ trouble' = trouble + 1

\* The process is killed, while it writes the file perhaps; or the comment fails.
Stopped(p) ==
  /\ pc[p] # "idle" /\ Trouble
  /\ \/ UNCHANGED <<syn, told>>
     \/ pc[p] # "comment" /\ syn' = NewSynthesis("torn", FALSE) /\ told' = {}
  /\ cut' = (cut \/ pc[p] = "comment")
  /\ Exit(p)
  /\ UNCHANGED <<wireframe, comment, accepted, approvals, overlapped>>

Finish(p) == Save(p) \/ SaveApproval(p) \/ AddComment(p)

Next == \E p \in Proc :
  \/ DiscoveryInit(p) \/ AddCapability(p) \/ Confirm(p) \/ Explore(p) \/ TagApproach(p)
  \/ AddOption(p) \/ Cover(p) \/ \E force \in BOOLEAN : Synthesize(p, force)
  \/ Review(p) \/ GiveFeedback(p) \/ Iterate(p) \/ Annotate(p) \/ Mockup(p)
  \/ \E i \in Positions(syn.feedback) : Address(p, i)
  \/ \E sel \in Label \cup {0} : Approve(p, sel)
  \/ Finish(p) \/ Stopped(p)

(* The command that pt discovery status names next, per status, and what   *)
(* the command then asks for.                                              *)

HintCapabilities(p) ==
  /\ syn.status = "capabilities"
  /\ IF syn.caps = 0 THEN AddCapability(p) ELSE Explore(p)

HintExploring(p) ==
  /\ syn.status = "exploring"
  /\ CASE syn.total < MinOptions -> AddOption(p)
       [] syn.total >= MinOptions /\ syn.approaches < MinApproaches -> TagApproach(p)
       [] OTHER -> Synthesize(p, FALSE)

HintReviewing(p) ==
  /\ syn.status = "reviewing"
  /\ IF Open(syn) = {} THEN Approve(p, 0) ELSE \E i \in Open(syn) : Address(p, i)

HintFeedback(p) ==
  /\ syn.status = "feedback"
  /\ IF Open(syn) = {} THEN Iterate(p) ELSE \E i \in Open(syn) : Address(p, i)

Restart(p) == syn.status = "torn" /\ DiscoveryInit(p)

(* Commands that run are finished.  Whoever wants the design approved      *)
(* returns to it again and again and does what the hints say.              *)
Fairness ==
  /\ \A p \in Proc : WF_vars(Finish(p))
  /\ SF_vars(\E p \in Proc : Restart(p))
  /\ SF_vars(\E p \in Proc : HintCapabilities(p))
  /\ SF_vars(\E p \in Proc : HintExploring(p))
  /\ SF_vars(\E p \in Proc : Review(p))
  /\ SF_vars(\E p \in Proc : HintReviewing(p))
  /\ SF_vars(\E p \in Proc : HintFeedback(p))

Spec == Init /\ [][Next]_vars

FairSpec == Spec /\ Fairness
-----------------------------------------------------------------------------
(* The file and what processes are about to write are syntheses; wireframe *)
(* files show designs.                                                     *)
TypeOK ==
  /\ syn \in Synthesis
  /\ wireframe \in [Label -> 0 .. MaxOptions]
  /\ comment \in BOOLEAN /\ approvals \in BOOLEAN /\ cut \in BOOLEAN /\ overlapped \in BOOLEAN
  /\ pc \in [Proc -> {"idle", "save", "approve", "comment"}]
  /\ out \in [Proc -> Synthesis]
  /\ trouble \in 0 .. MaxTrouble
  /\ told \subseteq Feedback /\ accepted \subseteq Feedback

(* A label names one option; every option ever explored is either still    *)
(* there or on record as rejected, never both; and from synthesis to       *)
(* approval only the options the synthesis kept are there.                 *)
OptionsAddUpIn(r) ==
  /\ \A i, j \in Positions(r.options) :
       i # j => r.options[i].label # r.options[j].label /\ r.options[i].design # r.options[j].design
  /\ 1 .. r.total = r.rejected \cup {r.options[i].design : i \in Positions(r.options)}
  /\ \A i \in Positions(r.options) : r.options[i].design \notin r.rejected
  /\ r.status \in {"synthesized", "reviewing", "approved"} => Len(r.options) <= Top

(* This holds of the file whatever commands race or are killed.            *)
OptionsAddUp == OptionsAddUpIn(syn)

(* Feedback that was acknowledged stays on record, as long as commands do  *)
(* not overlap: no command forgets what the user said, and none uses an id *)
(* twice.                                                                  *)
FeedbackIsKept ==
  ~overlapped =>
    /\ told \subseteq Items(syn)
    /\ \A i, j \in Positions(syn.feedback) : syn.feedback[i].item = syn.feedback[j].item => i = j

(* An approved design has no feedback the user does not know to be open,   *)
(* whatever happened since the approval, and also when commands race.      *)
ApprovalIsInformed ==
  syn.status = "approved" => \A i \in Open(syn) : syn.feedback[i].item \in accepted

(* "When approved, adds: discovery-approved" (docs/discovery-workflow.md): *)
(* the gate's comment is there only after an approval, and an approved     *)
(* design that belongs to a task has it, unless the approval was cut off.  *)
GateFollowsApproval ==
  /\ comment => approvals
  /\ syn.status = "approved" /\ syn.linked /\ ~cut /\ (\A p \in Proc : pc[p] # "comment") => comment

(* Who does what pt discovery status says gets every design approved, from *)
(* wherever other commands, feedback, kills and torn files have left it.   *)
HintsLeadToApproval == []<>(syn.status \in {"absent", "approved"} \/ overlapped)
=============================================================================
