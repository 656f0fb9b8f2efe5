--------------------------- MODULE DiscoveryProofs ---------------------------
(***************************************************************************)
(* Discovery, for any number of processes, options, thresholds and mishaps *)
(* and every set of feedback.  Each command makes a sound synthesis of a   *)
(* sound one, and what is written was made of what the file once held:     *)
(* therefore overlapping commands cannot make it unsound.  While they do   *)
(* not overlap, no feedback is lost and the gate follows the approval.     *)
(***************************************************************************)
EXTENDS Discovery, FiniteSetTheorems, WellFoundedInduction, TLAPS

USE DiscoveryAssumption

SynOption == [label : Label, design : Design, coverage : 0 .. MaxCaps]
Remark == [item : Feedback, addressed : BOOLEAN]

(* A synthesis that adds up.  That it has no more options than were ever   *)
(* explored bounds the labels synthesize hands out.                        *)
Good(r) == r \in Synthesis /\ Len(r.options) <= r.total /\ OptionsAddUpIn(r)

(* If it is approved, the open feedback was agreed to be among A.          *)
Informed(r, A) == r.status = "approved" => \A i \in Open(r) : r.feedback[i].item \in A

Sound(r, A) == Good(r) /\ Informed(r, A)

RestTypes ==
  /\ wireframe \in [Label -> 0 .. MaxOptions]
  /\ comment \in BOOLEAN /\ approvals \in BOOLEAN /\ cut \in BOOLEAN /\ overlapped \in BOOLEAN
  /\ pc \in [Proc -> {"idle", "save", "approve", "comment"}]
  /\ trouble \in 0 .. MaxTrouble
  /\ told \subseteq Feedback /\ accepted \subseteq Feedback

Inv ==
  /\ RestTypes
  /\ out \in [Proc -> Synthesis]
  /\ Sound(syn, accepted)
  /\ \A p \in Proc : Sound(out[p], accepted)

LEMMA InvImplies == Inv => TypeOK /\ OptionsAddUp /\ ApprovalIsInformed
BY DEF Inv, RestTypes, Sound, Good, Informed, TypeOK, OptionsAddUp, ApprovalIsInformed
-----------------------------------------------------------------------------
(* What a command makes of a sound synthesis is sound.                     *)

(* A new synthesis is sound.                                               *)
LEMMA NewIsSound ==
  ASSUME NEW s \in Status \ {"synthesized", "reviewing", "approved"}, NEW linked \in BOOLEAN, NEW A
  PROVE  Sound(NewSynthesis(s, linked), A)
<1> DEFINE n == NewSynthesis(s, linked)
<1>1. n \in Synthesis
  <2>1. /\ <<>> \in Seq([label : Label, design : Design, coverage : 0 .. MaxCaps])
        /\ <<>> \in Seq([item : Feedback, addressed : BOOLEAN])
    OBVIOUS
  <2>2. 0 \in 0 .. MaxCaps /\ 0 \in 0 .. MinApproaches /\ 0 \in 0 .. MaxOptions /\ {} \in SUBSET Design
    OBVIOUS
  <2>3. QED BY <2>1, <2>2, Zenon DEF NewSynthesis, Synthesis
<1>2. n.options = <<>> /\ n.total = 0 /\ n.rejected = {} /\ n.status = s
  BY DEF NewSynthesis
<1>3. OptionsAddUpIn(n)
  BY <1>2 DEF OptionsAddUpIn, Positions
<1> HIDE DEF n
<1>4. Good(n) /\ Informed(n, A)
  BY <1>1, <1>2, <1>3 DEF Good, Informed
<1>5. QED BY <1>4 DEF n, Sound

(* Soundness depends on the options, what was rejected, and the status.    *)
LEMMA SameOptionsAreGood ==
  ASSUME NEW r, Good(r), NEW s \in Synthesis,
         s.options = r.options, s.rejected = r.rejected, s.total = r.total,
         s.status \in {"synthesized", "reviewing", "approved"} =>
           Len(r.options) <= Top
  PROVE  Good(s)
BY DEF Good, OptionsAddUpIn

(* Feedback and status alone decide whether an approval is informed.       *)
LEMMA SameFeedbackIsInformed ==
  ASSUME NEW A, NEW r, Informed(r, A), NEW s, s.feedback = r.feedback,
         s.status = "approved" => r.status = "approved"
  PROVE  Informed(s, A)
BY DEF Informed, Open, Positions

(* More feedback agreed to be left open does no harm.                      *)
LEMMA MoreAccepted ==
  ASSUME NEW A, NEW B, A \subseteq B, NEW r, Sound(r, A)
  PROVE  Sound(r, B)
BY DEF Sound, Informed

(* A sound synthesis under review has at most Top options.                 *)
LEMMA ReviewedIsSmall ==
  ASSUME NEW r, Good(r), r.status \in {"synthesized", "reviewing", "approved"}
  PROVE  Len(r.options) <= Top
BY DEF Good, OptionsAddUpIn

(* A new status that is not approved, and comes with Top options where     *)
(* that is due.                                                            *)
LEMMA StatusIsSound ==
  ASSUME NEW A, NEW r, Sound(r, A), NEW s \in Status \ {"approved"},
         s \in {"synthesized", "reviewing"} => Len(r.options) <= Top
  PROVE  Sound([r EXCEPT !.status = s], A)
<1> DEFINE n == [r EXCEPT !.status = s]
<1>1. r \in Synthesis
  BY DEF Sound, Good
<1>2. /\ n \in Synthesis
      /\ n.options = r.options /\ n.rejected = r.rejected /\ n.total = r.total
      /\ n.feedback = r.feedback /\ n.status = s
  BY <1>1 DEF Synthesis
<1> HIDE DEF n
<1>3. Good(n)
  BY <1>2, SameOptionsAreGood DEF Sound
<1>4. Informed(n, A)
  BY <1>2 DEF Informed
<1>5. QED BY <1>3, <1>4 DEF n, Sound

(* Capabilities and approaches.                                            *)
LEMMA CapsAreSound ==
  ASSUME NEW A, NEW r, Sound(r, A), r.caps < MaxCaps
  PROVE  Sound([r EXCEPT !.caps = @ + 1], A)
<1> DEFINE n == [r EXCEPT !.caps = @ + 1]
<1>1. r \in Synthesis
  BY DEF Sound, Good
<1>2. r.caps + 1 \in 0 .. MaxCaps
  BY <1>1 DEF Synthesis
<1>3. /\ n \in Synthesis
      /\ n.options = r.options /\ n.rejected = r.rejected /\ n.total = r.total
      /\ n.feedback = r.feedback /\ n.status = r.status
  BY <1>1, <1>2 DEF Synthesis
<1> HIDE DEF n
<1>4. Good(n)
  BY <1>3, SameOptionsAreGood, ReviewedIsSmall DEF Sound
<1>5. Informed(n, A)
  BY <1>3, SameFeedbackIsInformed DEF Sound
<1>6. QED BY <1>4, <1>5 DEF n, Sound

LEMMA ApproachesAreSound ==
  ASSUME NEW A, NEW r, Sound(r, A), r.approaches < MinApproaches
  PROVE  Sound([r EXCEPT !.approaches = @ + 1], A)
<1> DEFINE n == [r EXCEPT !.approaches = @ + 1]
<1>1. r \in Synthesis
  BY DEF Sound, Good
<1>2. r.approaches + 1 \in 0 .. MinApproaches
  BY <1>1 DEF Synthesis
<1>3. /\ n \in Synthesis
      /\ n.options = r.options /\ n.rejected = r.rejected /\ n.total = r.total
      /\ n.feedback = r.feedback /\ n.status = r.status
  BY <1>1, <1>2 DEF Synthesis
<1> HIDE DEF n
<1>4. Good(n)
  BY <1>3, SameOptionsAreGood, ReviewedIsSmall DEF Sound
<1>5. Informed(n, A)
  BY <1>3, SameFeedbackIsInformed DEF Sound
<1>6. QED BY <1>4, <1>5 DEF n, Sound

(* Feedback is open until it is addressed, but no approval is pending.     *)
LEMMA FeedbackIsSound ==
  ASSUME NEW A, NEW r, Sound(r, A), NEW f \in Feedback
  PROVE  Sound(WithFeedback(r, f), A)
<1> DEFINE n == WithFeedback(r, f)
<1>1. r \in Synthesis
  BY DEF Sound, Good
<1>2. [item |-> f, addressed |-> FALSE] \in Remark
  BY DEF Remark
<1>3. Append(r.feedback, [item |-> f, addressed |-> FALSE]) \in Seq(Remark)
  <2>1. r.feedback \in Seq(Remark)
    BY <1>1 DEF Synthesis, Remark
  <2> HIDE DEF Remark
  <2>2. QED BY <1>2, <2>1
<1>4. /\ n \in Synthesis
      /\ n.options = r.options /\ n.rejected = r.rejected /\ n.total = r.total
      /\ n.status = "feedback"
  BY <1>1, <1>3 DEF Synthesis, WithFeedback, Status, Remark
<1> HIDE DEF n
<1>5. Good(n) /\ Informed(n, A)
  BY <1>4, SameOptionsAreGood DEF Sound, Informed
<1>6. QED BY <1>5 DEF n, Sound

(* To address feedback leaves less of it open.                             *)
LEMMA AddressedIsSound ==
  ASSUME NEW A, NEW r, Sound(r, A), NEW k \in Positions(r.feedback)
  PROVE  Sound(WithAddressed(r, k), A)
<1> DEFINE n == WithAddressed(r, k)
           g == [r.feedback[k] EXCEPT !.addressed = TRUE]
<1>1. r \in Synthesis /\ r.feedback \in Seq(Remark) /\ k \in 1 .. Len(r.feedback)
  BY DEF Sound, Good, Synthesis, Remark, Positions
<1>2. r.feedback[k] \in Remark
  <2> HIDE DEF Remark
  <2>1. QED BY <1>1
<1>3. g \in Remark /\ g.item = r.feedback[k].item /\ g.addressed
  BY <1>2 DEF Remark
<1> DEFINE h == [r.feedback EXCEPT ![k] = g]
<1>4. /\ h \in Seq(Remark) /\ Len(h) = Len(r.feedback)
      /\ \A i \in 1 .. Len(r.feedback) : h[i] = IF i = k THEN g ELSE r.feedback[i]
  <2> HIDE DEF Remark, g
  <2>1. QED BY <1>1, <1>3
<1>5. n = [r EXCEPT !.feedback = h]
  BY <1>1 DEF WithAddressed, Synthesis
<1> HIDE DEF h, g, n
<1>6. /\ n \in Synthesis
      /\ n.options = r.options /\ n.rejected = r.rejected /\ n.total = r.total
      /\ n.feedback = h /\ n.status = r.status
  BY <1>1, <1>4, <1>5 DEF Synthesis, Remark
<1>7. Good(n)
  BY <1>6, SameOptionsAreGood, ReviewedIsSmall DEF Sound
<1>8. Informed(n, A)
  <2> SUFFICES ASSUME r.status = "approved", NEW i \in Open(n)
               PROVE  n.feedback[i].item \in A
    BY <1>6 DEF Informed
  <2>1. i \in 1 .. Len(r.feedback) /\ ~ h[i].addressed
    BY <1>4, <1>6 DEF Open, Positions
  <2>2. i # k
    BY <1>3, <1>4, <2>1
  <2>3. h[i] = r.feedback[i] /\ i \in Open(r)
    BY <1>4, <2>1, <2>2 DEF Open, Positions
  <2>4. QED BY <1>6, <2>3 DEF Sound, Informed
<1>9. QED BY <1>7, <1>8 DEF n, Sound

(* Who approves agrees to what is still open.                              *)
LEMMA ApprovedIsSound ==
  ASSUME NEW A, NEW r, Sound(r, A), r.status = "reviewing", NEW sel \in Label \cup {0}
  PROVE  Sound(Approved(r, sel), A \cup {r.feedback[i].item : i \in Open(r)})
<1> DEFINE n == Approved(r, sel)
<1>1. r \in Synthesis
  BY DEF Sound, Good
<1>2. (IF sel = 0 THEN r.rec ELSE sel) \in 0 .. MaxOptions
  BY <1>1 DEF Synthesis, Label
<1>3. /\ n \in Synthesis
      /\ n.options = r.options /\ n.rejected = r.rejected /\ n.total = r.total
      /\ n.feedback = r.feedback
  BY <1>1, <1>2 DEF Synthesis, Approved, Status
<1>4. Good(n)
  <2> HIDE DEF n
  <2>1. QED BY <1>3, SameOptionsAreGood, ReviewedIsSmall DEF Sound
<1>5. Informed(n, A \cup {r.feedback[i].item : i \in Open(r)})
  <2> HIDE DEF n
  <2>1. QED BY <1>3 DEF Informed, Open, Positions
<1>6. QED BY <1>4, <1>5 DEF Sound

(* A new option takes an unused label and the next number.                 *)
LEMMA OptionIsSound ==
  ASSUME NEW A, NEW r, Sound(r, A), r.status \in {"exploring", "feedback"}, r.total < MaxOptions,
         NEW l \in Label, ~Has(r, l), NEW tag \in {0, 1}, r.approaches + tag <= MinApproaches
  PROVE  Sound(WithOption(r, l, tag), A)
<1> DEFINE n == WithOption(r, l, tag)
           new == [label |-> l, design |-> r.total + 1, coverage |-> 0]
           seq == Append(r.options, new)
           P == 1 .. Len(r.options)
<1>1. /\ r \in Synthesis /\ r.options \in Seq(SynOption) /\ r.total \in 0 .. MaxOptions
      /\ r.approaches \in 0 .. MinApproaches /\ r.rejected \in SUBSET Design
      /\ Len(r.options) \in Nat /\ Len(r.options) <= r.total
  BY DEF Sound, Good, Synthesis, SynOption
<1>2. new \in SynOption
  BY <1>1 DEF SynOption, Design
<1>3. /\ seq \in Seq(SynOption) /\ Len(seq) = Len(r.options) + 1
      /\ \A i \in P : seq[i] = r.options[i]
      /\ seq[Len(r.options) + 1] = new
  <2> HIDE DEF SynOption, new
  <2>1. QED BY <1>1, <1>2
<1>4. /\ r.total + 1 \in 0 .. MaxOptions
      /\ r.approaches + tag \in 0 .. MinApproaches
  BY <1>1
<1> HIDE DEF seq
<1>5. n = [[[r EXCEPT !.options = seq] EXCEPT !.total = r.total + 1] EXCEPT !.approaches = r.approaches + tag]
  BY <1>1 DEF WithOption, seq, Synthesis
<1> HIDE DEF n
<1>6. /\ n \in Synthesis
      /\ n.options = seq /\ n.rejected = r.rejected /\ n.total = r.total + 1
      /\ n.feedback = r.feedback /\ n.status = r.status
  BY <1>1, <1>3, <1>4, <1>5 DEF Synthesis, SynOption
<1>7. OptionsAddUpIn(n)
  <2>1. Positions(n.options) = P \cup {Len(r.options) + 1}
    BY <1>1, <1>3, <1>6 DEF Positions
  <2>2. /\ \A i \in P : r.options[i].label # l /\ r.options[i].label = seq[i].label
      /\ \A i \in P : r.options[i].design = seq[i].design
    BY <1>3 DEF Has, Positions
  <2>3. \A d \in r.rejected \cup {r.options[i].design : i \in P} : d \in 1 .. r.total
    BY DEF Sound, Good, OptionsAddUpIn, Positions
  <2> /\ \A i \in P : r.options[i].design # r.total + 1
      /\ n.options[Len(r.options) + 1].label = l
      /\ n.options[Len(r.options) + 1].design = r.total + 1
      /\ \A i \in P : n.options[i] = r.options[i]
    <3>1. \A i \in P : r.options[i].design # r.total + 1
      <4>1. r.total + 1 \notin 1 .. r.total
        BY <1>1
      <4>2. QED BY <2>3, <4>1, Zenon
    <3>2. QED BY <1>3, <1>6, <3>1
  <2>4. ASSUME NEW i \in Positions(n.options), NEW j \in Positions(n.options), i # j
        PROVE  n.options[i].label # n.options[j].label /\ n.options[i].design # n.options[j].design
    <3>1. CASE i \in P /\ j \in P
      <4>1. r.options[i].label # r.options[j].label /\ r.options[i].design # r.options[j].design
        BY <2>4, <3>1 DEF Sound, Good, OptionsAddUpIn, Positions
      <4>2. n.options[i] = r.options[i] /\ n.options[j] = r.options[j]
        BY <3>1
      <4>3. QED BY <4>1, <4>2
    <3>2. CASE i \in P /\ j = Len(r.options) + 1
      BY <2>2, <3>2
    <3>3. CASE i = Len(r.options) + 1 /\ j \in P
      BY <2>2, <3>3
    <3>4. QED BY <2>1, <2>4, <3>1, <3>2, <3>3
  <2>5. 1 .. n.total = n.rejected \cup {n.options[i].design : i \in Positions(n.options)}
    <3>1. 1 .. n.total = (1 .. r.total) \cup {r.total + 1}
      BY <1>1, <1>6
    <3>2. {n.options[i].design : i \in Positions(n.options)}
            = {r.options[i].design : i \in P} \cup {r.total + 1}
      <4> DEFINE q == Len(r.options) + 1
      <4>1. /\ Positions(n.options) = P \cup {q}
            /\ n.options[q].design = r.total + 1
            /\ \A i \in P : n.options[i].design = r.options[i].design
        BY <2>1
      <4> DEFINE D == {n.options[i].design : i \in Positions(n.options)}
                 E == {r.options[i].design : i \in P}
      <4>2. ASSUME NEW d \in D PROVE d \in E \cup {r.total + 1}
        <5>1. PICK i \in P \cup {q} : d = n.options[i].design
          BY <4>1
        <5> HIDE DEF q, P
        <5>2. CASE i \in P
          BY <4>1, <5>1, <5>2
        <5>3. CASE i = q
          BY <4>1, <5>1, <5>3
        <5>4. QED BY <5>1, <5>2, <5>3
      <4>3. ASSUME NEW i \in P PROVE r.options[i].design \in D
        BY <4>1
      <4>4. r.total + 1 \in D
        BY <4>1
      <4> HIDE DEF D
      <4>5. D = E \cup {r.total + 1}
        BY <4>2, <4>3, <4>4
      <4>6. QED BY <4>5 DEF D
    <3>3. 1 .. r.total = r.rejected \cup {r.options[i].design : i \in P}
      BY DEF Sound, Good, OptionsAddUpIn, Positions
    <3>4. QED BY <1>6, <3>1, <3>2, <3>3
  <2>6. ASSUME NEW i \in Positions(n.options)
        PROVE  n.options[i].design \notin n.rejected
    <3>1. CASE i \in P
      BY <1>6, <2>2, <3>1 DEF Sound, Good, OptionsAddUpIn, Positions
    <3>2. CASE i = Len(r.options) + 1
      BY <1>1, <1>3, <1>6, <2>3, <3>2
    <3>3. QED BY <2>1, <3>1, <3>2
  <2>7. n.status \notin {"synthesized", "reviewing", "approved"}
    BY <1>6
  <2>8. QED BY <2>4, <2>5, <2>6, <2>7 DEF OptionsAddUpIn
<1>8. Good(n)
  BY <1>1, <1>3, <1>6, <1>7 DEF Good
<1>9. Informed(n, A)
  BY <1>6, SameFeedbackIsInformed DEF Sound
<1>10. QED BY <1>8, <1>9 DEF n, Sound

(* Coverage is the only thing marking it changes.                          *)
LEMMA CoverageIsSound ==
  ASSUME NEW A, NEW r, Sound(r, A), NEW k \in Positions(r.options), NEW c \in 0 .. MaxCaps
  PROVE  Sound(WithCoverage(r, k, c), A)
<1> DEFINE n == WithCoverage(r, k, c)
           g == [r.options[k] EXCEPT !.coverage = c]
           h == [r.options EXCEPT ![k] = g]
<1>1. r \in Synthesis /\ r.options \in Seq(SynOption) /\ k \in 1 .. Len(r.options)
  BY DEF Sound, Good, Synthesis, SynOption, Positions
<1>2. r.options[k] \in SynOption
  <2> HIDE DEF SynOption
  <2>1. QED BY <1>1
<1>3. g \in SynOption /\ g.label = r.options[k].label /\ g.design = r.options[k].design
  BY <1>2 DEF SynOption
<1>4. /\ h \in Seq(SynOption) /\ Len(h) = Len(r.options)
      /\ \A i \in 1 .. Len(r.options) : h[i] = IF i = k THEN g ELSE r.options[i]
  <2> HIDE DEF SynOption, g
  <2>1. QED BY <1>1, <1>3
<1>5. n = [r EXCEPT !.options = h]
  BY <1>1 DEF WithCoverage, Synthesis
<1> HIDE DEF h, g, n
<1>6. /\ n \in Synthesis
      /\ n.options = h /\ n.rejected = r.rejected /\ n.total = r.total
      /\ n.feedback = r.feedback /\ n.status = r.status
  BY <1>1, <1>4, <1>5 DEF Synthesis, SynOption
<1>7. \A i \in 1 .. Len(r.options) : /\ n.options[i].label = r.options[i].label
                                     /\ n.options[i].design = r.options[i].design
  BY <1>3, <1>4, <1>6
<1>8. Positions(n.options) = 1 .. Len(r.options) /\ Len(n.options) = Len(r.options)
  BY <1>4, <1>6 DEF Positions
<1>9. OptionsAddUpIn(n)
  <2>1. OptionsAddUpIn(r)
    BY DEF Sound, Good
  <2>2. {n.options[i].design : i \in Positions(n.options)} = {r.options[i].design : i \in Positions(r.options)}
    BY <1>7, <1>8 DEF Positions
  <2>3. QED BY <1>6, <1>7, <1>8, <2>1, <2>2 DEF OptionsAddUpIn, Positions
<1>10. Good(n)
  BY <1>6, <1>8, <1>9 DEF Sound, Good
<1>11. Informed(n, A)
  BY <1>6, SameFeedbackIsInformed DEF Sound
<1>12. QED BY <1>10, <1>11 DEF n, Sound

(* The order synthesize puts the options in is a permutation: as many      *)
(* different positions as there are positions are all of them.             *)
LEMMA OrdersPermute ==
  ASSUME NEW r, r.options \in Seq(SynOption), NEW o \in Orders(r)
  PROVE  /\ o \in [Positions(r.options) -> Positions(r.options)]
         /\ \A i, j \in Positions(r.options) : i # j => o[i] # o[j]
         /\ \A k \in Positions(r.options) : \E i \in Positions(r.options) : o[i] = k
<1> DEFINE P == Positions(r.options)
<1>1. CASE Len(r.options) <= Top
  BY <1>1 DEF Orders
<1>2. CASE ~(Len(r.options) <= Top)
  <2>1. o \in [P -> P] /\ \A i, j \in P : i < j => o[i] # o[j]
    BY <1>2 DEF Orders
  <2>2. P = 1 .. Len(r.options) /\ Len(r.options) \in Nat
    <3> HIDE DEF SynOption
    <3>1. QED BY DEF Positions
  <2>3. \A i, j \in P : i # j => o[i] # o[j]
    <3> SUFFICES ASSUME NEW i \in P, NEW j \in P, i # j PROVE o[i] # o[j]
      OBVIOUS
    <3>1. i < j \/ j < i
      <4> i \in Nat /\ j \in Nat
        BY <2>2
      <4>1. QED OBVIOUS
    <3>2. QED BY <2>1, <3>1
  <2> HIDE DEF P
  <2>4. o \in Injection(P, P)
    BY <2>1, <2>3 DEF Injection, IsInjective
  <2>5. IsFiniteSet(P)
    BY <2>2, FS_Interval
  <2>6. o \in Surjection(P, P)
    BY <2>4, <2>5, FS_Injection
  <2>7. \A k \in P : \E i \in P : o[i] = k
    BY <2>6 DEF Surjection
  <2>8. QED BY <2>1, <2>3, <2>7 DEF P
<1>3. QED BY <1>1, <1>2

(* Synthesis keeps at most Top options, gives them new labels, and puts    *)
(* every other one on record as rejected.                                  *)
LEMMA SynthesizedIsSound ==
  ASSUME NEW A, NEW r, Sound(r, A), NEW o \in Orders(r)
  PROVE  Sound(Synthesized(r, o), A)
<1> DEFINE n == Synthesized(r, o)
           P == 1 .. Len(r.options)
           K == Kept(r)
           seq == [i \in 1 .. K |-> [r.options[o[i]] EXCEPT !.label = i]]
           lost == {r.options[o[i]].design : i \in K + 1 .. Len(r.options)}
<1>1. /\ r \in Synthesis /\ r.options \in Seq(SynOption) /\ r.total \in 0 .. MaxOptions
      /\ r.rejected \in SUBSET Design
      /\ Len(r.options) \in Nat /\ Len(r.options) <= r.total
  BY DEF Sound, Good, Synthesis, SynOption
<1>2. /\ o \in [P -> P]
      /\ \A i, j \in P : i # j => o[i] # o[j]
      /\ \A k \in P : \E i \in P : o[i] = k
  BY <1>1, OrdersPermute DEF Positions
<1>3. K \in Nat /\ K <= Len(r.options) /\ K <= Top
  BY <1>1 DEF Kept
<1>4. 1 .. K \subseteq P /\ K + 1 .. Len(r.options) \subseteq P
  BY <1>1, <1>3
<1>5. \A i \in P : r.options[i] \in SynOption
  <2> HIDE DEF SynOption
  <2>1. QED BY <1>1
<1>6. ASSUME NEW i \in 1 .. K
      PROVE  /\ seq[i] \in SynOption /\ seq[i].label = i
             /\ seq[i].design = r.options[o[i]].design
  <2>1. i \in Label
    BY <1>1, <1>3 DEF Label
  <2>2. r.options[o[i]] \in SynOption
    BY <1>2, <1>4, <1>5
  <2>3. QED BY <2>1, <2>2 DEF SynOption
<1>7. seq \in Seq(SynOption) /\ Len(seq) = K
  <2> HIDE DEF SynOption, K
  <2> DEFINE e(i) == [r.options[o[i]] EXCEPT !.label = i]
  <2>1. \A i \in 1 .. K : e(i) \in SynOption
    BY <1>6
  <2> HIDE DEF e
  <2>2. [i \in 1 .. K |-> e(i)] \in Seq(SynOption) /\ Len([i \in 1 .. K |-> e(i)]) = K
    BY <1>3, <2>1
  <2>3. QED BY <2>2 DEF e
<1>8. lost \subseteq Design
  <2>1. \A i \in P : r.options[i].design \in Design
    BY <1>5 DEF SynOption
  <2>2. QED BY <1>2, <1>4, <2>1
<1>9. (IF r.options = <<>> THEN r.rec ELSE 1) \in 0 .. MaxOptions
  <2>1. CASE r.options = <<>>
    BY <1>1, <2>1 DEF Synthesis
  <2>2. CASE r.options # <<>>
    <3>1. Len(r.options) # 0
      <4> HIDE DEF SynOption
      <4>1. QED BY <1>1, <2>2
    <3>2. QED BY <1>1, <2>2, <3>1
  <2>3. QED BY <2>1, <2>2
<1> DEFINE rec == IF r.options = <<>> THEN r.rec ELSE 1
<1>10. n = [[[[r EXCEPT !.options = seq] EXCEPT !.rejected = r.rejected \cup lost]
               EXCEPT !.rec = rec] EXCEPT !.status = "synthesized"]
  BY <1>1 DEF Synthesized, Synthesis
<1>11. \A i \in 1 .. K : seq[i].label = i /\ seq[i].design = r.options[o[i]].design
  BY <1>6
<1> HIDE DEF seq, lost, rec, n, K
<1>12. /\ n \in Synthesis
       /\ n.options = seq /\ n.rejected = r.rejected \cup lost /\ n.total = r.total
       /\ n.status = "synthesized"
  <2>1. rec \in 0 .. MaxOptions
    BY <1>9 DEF rec
  <2>2. r.rejected \cup lost \in SUBSET Design
    BY <1>1, <1>8
  <2>3. QED BY <1>1, <1>7, <1>10, <2>1, <2>2 DEF Synthesis, SynOption, Status
<1>13. Positions(n.options) = 1 .. K
  BY <1>7, <1>12 DEF Positions
<1>14. OptionsAddUpIn(n)
  <2> USE DEF Positions
  <2>1. /\ \A i, j \in P : i # j => r.options[i].design # r.options[j].design
        /\ 1 .. r.total = r.rejected \cup {r.options[i].design : i \in P}
        /\ \A i \in P : r.options[i].design \notin r.rejected
    BY DEF Sound, Good, OptionsAddUpIn
  <2>2. \A i, j \in 1 .. K : i # j => n.options[i].label # n.options[j].label
    BY <1>11, <1>12
  <2>3. ASSUME NEW i \in 1 .. K, NEW j \in 1 .. K, i # j
        PROVE  n.options[i].design # n.options[j].design
    <3>1. o[i] \in P /\ o[j] \in P /\ o[i] # o[j]
      BY <1>2, <1>4, <2>3
    <3>2. n.options[i].design = r.options[o[i]].design /\ n.options[j].design = r.options[o[j]].design
      BY <1>11, <1>12
    <3>3. QED BY <2>1, <3>1, <3>2
  <2>4. 1 .. n.total = n.rejected \cup {n.options[i].design : i \in 1 .. K}
    <3> DEFINE kept == {n.options[i].design : i \in 1 .. K}
    <3>1. kept \cup lost = {r.options[i].design : i \in P}
      <4>1. ASSUME NEW d \in kept \cup lost
            PROVE  d \in {r.options[i].design : i \in P}
        <5>1. PICK i \in (1 .. K) \cup (K + 1 .. Len(r.options)) : d = r.options[o[i]].design
          BY <1>11, <1>12 DEF lost
        <5>2. o[i] \in P
          BY <1>2, <1>4
        <5>3. QED BY <5>1, <5>2
      <4>2. ASSUME NEW k \in P
            PROVE  r.options[k].design \in kept \cup lost
        <5>1. PICK i \in P : o[i] = k
          BY <1>2
        <5>2. i \in 1 .. K \/ i \in K + 1 .. Len(r.options)
          BY <1>1, <1>3
        <5>3. QED BY <1>11, <1>12, <5>1, <5>2 DEF lost
      <4> HIDE DEF kept
      <4>3. QED BY <4>1, <4>2
    <3> HIDE DEF kept
    <3>2. 1 .. n.total = n.rejected \cup kept
      BY <1>12, <2>1, <3>1
    <3>3. QED BY <3>2 DEF kept
  <2>5. ASSUME NEW i \in 1 .. K
        PROVE  n.options[i].design \notin n.rejected
    <3>1. n.options[i].design = r.options[o[i]].design /\ o[i] \in P
      BY <1>2, <1>4, <1>11, <1>12
    <3>2. n.options[i].design \notin r.rejected
      BY <2>1, <3>1
    <3>3. \A j \in K + 1 .. Len(r.options) : r.options[o[j]].design # n.options[i].design
      <4> SUFFICES ASSUME NEW j \in K + 1 .. Len(r.options)
                   PROVE  r.options[o[j]].design # n.options[i].design
        OBVIOUS
      <4>1. i # j
        BY <1>1, <1>3
      <4>2. o[i] # o[j] /\ o[j] \in P
        BY <1>2, <1>4, <4>1
      <4>3. QED BY <2>1, <3>1, <4>2
    <3>4. QED BY <1>12, <3>2, <3>3 DEF lost
  <2>6. Len(n.options) <= Top
    BY <1>3, <1>7, <1>12
  <2> HIDE DEF Positions
  <2>7. QED BY <1>13, <2>2, <2>3, <2>4, <2>5, <2>6 DEF OptionsAddUpIn
<1>15. Good(n)
  BY <1>1, <1>3, <1>7, <1>12, <1>14 DEF Good
<1>16. Informed(n, A)
  BY <1>12 DEF Informed
<1>17. QED BY <1>15, <1>16 DEF n, Sound
-----------------------------------------------------------------------------
(* The steps.                                                              *)

LEMMA InitInv == Init => Inv
<1> SUFFICES ASSUME Init PROVE Inv
  OBVIOUS
<1>1. syn = Nothing /\ out = [p \in Proc |-> Nothing] /\ accepted = {}
  BY DEF Init
<1>2. Sound(Nothing, {})
  BY NewIsSound DEF Nothing, Status
<1>3. Nothing \in Synthesis
  BY <1>2 DEF Sound, Good
<1>4. out \in [Proc -> Synthesis] /\ Sound(syn, accepted) /\ \A p \in Proc : Sound(out[p], accepted)
  BY <1>1, <1>2, <1>3
<1>5. RestTypes
  <2>1. /\ comment = FALSE /\ approvals = FALSE /\ cut = FALSE /\ overlapped = FALSE
        /\ wireframe = [l \in Label |-> 0] /\ pc = [p \in Proc |-> "idle"]
        /\ trouble = 0 /\ told = {} /\ accepted = {}
    BY DEF Init
  <2>2. 0 \in 0 .. MaxOptions /\ 0 \in 0 .. MaxTrouble
    OBVIOUS
  <2>3. comment \in BOOLEAN /\ approvals \in BOOLEAN /\ cut \in BOOLEAN /\ overlapped \in BOOLEAN
    BY <2>1, Zenon
  <2>4. wireframe \in [Label -> 0 .. MaxOptions] /\ trouble \in 0 .. MaxTrouble
    BY <2>1, <2>2
  <2>5. pc \in [Proc -> {"idle", "save", "approve", "comment"}]
    BY <2>1
  <2>6. told \subseteq Feedback /\ accepted \subseteq Feedback
    BY <2>1
  <2>7. QED BY <2>3, <2>4, <2>5, <2>6 DEF RestTypes
<1>6. QED BY <1>4, <1>5 DEF Inv

(* A command that begins with a sound synthesis.                           *)
LEMMA BeginInv ==
  ASSUME Inv, NEW p \in Proc, NEW r, NEW step \in {"save", "approve"}, Begin(p, r, step),
         Sound(r, accepted'), accepted \subseteq accepted', accepted' \subseteq Feedback,
         wireframe' \in [Label -> 0 .. MaxOptions]
  PROVE  Inv'
<1>1. /\ pc' = [pc EXCEPT ![p] = step] /\ out' = [out EXCEPT ![p] = r]
      /\ syn' = syn /\ comment' = comment /\ trouble' = trouble /\ told' = told
      /\ approvals' = approvals /\ cut' = cut
  BY DEF Begin
<1>2. overlapped' \in BOOLEAN
  <2>1. overlapped' = (overlapped \/ \E q \in Proc : pc[q] # "idle")
    BY DEF Begin
  <2>2. QED BY <2>1, Zenon
<1>3. r \in Synthesis
  BY DEF Sound, Good
<1>4. RestTypes'
  BY <1>1, <1>2 DEF Inv, RestTypes
<1>5. out' \in [Proc -> Synthesis]
  BY <1>1, <1>3 DEF Inv
<1>6. Sound(syn', accepted')
  BY <1>1, MoreAccepted DEF Inv
<1>7. ASSUME NEW q \in Proc PROVE Sound(out'[q], accepted')
  <2>1. out'[q] = IF q = p THEN r ELSE out[q]
    BY <1>1 DEF Inv
  <2>2. Sound(out[q], accepted')
    BY MoreAccepted DEF Inv
  <2>3. QED BY <2>1, <2>2
<1>8. QED BY <1>4, <1>5, <1>6, <1>7 DEF Inv

LEMMA WriteInv ==
  ASSUME Inv, NEW p \in Proc, NEW r, Write(p, r), Sound(r, accepted)
  PROVE  Inv'
<1>1. Begin(p, r, "save") /\ wireframe' = wireframe /\ accepted' = accepted
  BY DEF Write
<1>2. wireframe' \in [Label -> 0 .. MaxOptions] /\ accepted' \subseteq Feedback
  BY <1>1 DEF Inv, RestTypes
<1>3. Sound(r, accepted') /\ accepted \subseteq accepted'
  BY <1>1
<1>4. QED BY <1>1, <1>2, <1>3, BeginInv

LEMMA DiscoveryInitInv == ASSUME Inv, NEW p \in Proc, DiscoveryInit(p) PROVE Inv'
<1>1. PICK linked \in BOOLEAN : Begin(p, NewSynthesis("capabilities", linked), "save")
  BY DEF DiscoveryInit
<1>2. wireframe' = wireframe /\ accepted' = accepted
  BY DEF DiscoveryInit
<1>3. Sound(NewSynthesis("capabilities", linked), accepted')
  BY NewIsSound DEF Status
<1>4. wireframe' \in [Label -> 0 .. MaxOptions] /\ accepted' \subseteq Feedback
  BY <1>2 DEF Inv, RestTypes
<1>5. QED BY <1>1, <1>2, <1>3, <1>4, BeginInv

LEMMA CapabilitiesInv ==
  ASSUME Inv, NEW p \in Proc, AddCapability(p) \/ Confirm(p) \/ Explore(p) \/ TagApproach(p)
  PROVE  Inv'
<1>1. Sound(syn, accepted)
  BY DEF Inv
<1>2. CASE AddCapability(p)
  BY <1>1, <1>2, CapsAreSound, WriteInv DEF AddCapability
<1>3. CASE Confirm(p) \/ Explore(p)
  <2>1. Sound([syn EXCEPT !.status = "exploring"], accepted)
    BY <1>1, StatusIsSound DEF Status
  <2>2. QED BY <1>3, <2>1, WriteInv DEF Confirm, Explore
<1>4. CASE TagApproach(p)
  BY <1>1, <1>4, ApproachesAreSound, WriteInv DEF TagApproach
<1>5. QED BY <1>2, <1>3, <1>4

LEMMA AddOptionInv == ASSUME Inv, NEW p \in Proc, AddOption(p) PROVE Inv'
<1>1. PICK l \in Label, tag \in {0, 1} :
        ~Has(syn, l) /\ syn.approaches + tag <= MinApproaches /\ Write(p, WithOption(syn, l, tag))
  BY DEF AddOption
<1>2. Sound(WithOption(syn, l, tag), accepted)
  BY <1>1, OptionIsSound DEF AddOption, Inv
<1>3. QED BY <1>1, <1>2, WriteInv

LEMMA CoverInv == ASSUME Inv, NEW p \in Proc, Cover(p) PROVE Inv'
<1>1. PICK i \in Positions(syn.options) :
        \E n \in {syn.options[i].coverage + 1, 0, syn.caps} :
          n <= MaxCaps /\ Write(p, WithCoverage(syn, i, n))
  BY DEF Cover
<1>2. PICK n \in {syn.options[i].coverage + 1, 0, syn.caps} :
        n <= MaxCaps /\ Write(p, WithCoverage(syn, i, n))
  BY <1>1
<1>3. n \in 0 .. MaxCaps
  <2>1. syn.options \in Seq(SynOption) /\ syn.caps \in 0 .. MaxCaps /\ i \in 1 .. Len(syn.options)
    BY DEF Inv, Sound, Good, Synthesis, SynOption, Positions
  <2>2. syn.options[i] \in SynOption
    <3> HIDE DEF SynOption
    <3>1. QED BY <2>1
  <2>3. syn.options[i].coverage \in Nat
    BY <2>2 DEF SynOption
  <2>4. QED BY <1>2, <2>1, <2>3
<1>4. Sound(WithCoverage(syn, i, n), accepted)
  BY <1>3, CoverageIsSound DEF Inv
<1>5. QED BY <1>2, <1>4, WriteInv

LEMMA SynthesizeInv == ASSUME Inv, NEW p \in Proc, NEW force, Synthesize(p, force) PROVE Inv'
<1>1. PICK o \in Orders(syn) : Write(p, Synthesized(syn, o))
  BY DEF Synthesize
<1>2. Sound(Synthesized(syn, o), accepted)
  BY SynthesizedIsSound DEF Inv
<1>3. QED BY <1>1, <1>2, WriteInv

LEMMA ReviewInv == ASSUME Inv, NEW p \in Proc, Review(p) PROVE Inv'
<1>1. Len(syn.options) <= Top
  BY ReviewedIsSmall DEF Inv, Sound, Review
<1>2. Sound([syn EXCEPT !.status = "reviewing"], accepted)
  BY <1>1, StatusIsSound DEF Inv, Status
<1>3. QED BY <1>2, WriteInv DEF Review

LEMMA FeedbackInv ==
  ASSUME Inv, NEW p \in Proc, GiveFeedback(p) \/ Iterate(p) \/ Annotate(p)
  PROVE  Inv'
<1>1. Sound(syn, accepted)
  BY DEF Inv
<1>2. CASE GiveFeedback(p)
  <2>1. PICK f \in Feedback : Write(p, WithFeedback(syn, f))
    BY <1>2 DEF GiveFeedback
  <2>2. QED BY <1>1, <2>1, FeedbackIsSound, WriteInv
<1>3. CASE Iterate(p)
  <2>1. Sound([syn EXCEPT !.status = "exploring"], accepted)
    BY <1>1, StatusIsSound DEF Status
  <2>2. QED BY <1>3, <2>1, WriteInv DEF Iterate
<1>4. CASE Annotate(p)
  BY <1>1, <1>4, WriteInv DEF Annotate
<1>5. QED BY <1>2, <1>3, <1>4

LEMMA AddressInv ==
  ASSUME Inv, NEW p \in Proc, NEW i \in Positions(syn.feedback), Address(p, i)
  PROVE  Inv'
<1>1. Sound(WithAddressed(syn, i), accepted)
  BY AddressedIsSound DEF Inv
<1>2. QED BY <1>1, WriteInv DEF Address

LEMMA MockupInv == ASSUME Inv, NEW p \in Proc, Mockup(p) PROVE Inv'
<1>1. PICK l \in 1 .. MaxDrawn :
        \E d \in IF Has(syn, l)
                 THEN {syn.options[i].design : i \in {k \in Positions(syn.options) : syn.options[k].label = l}}
                 ELSE syn.rejected :
          wireframe' = [wireframe EXCEPT ![l] = d]
  BY DEF Mockup
<1>2. /\ syn.options \in Seq(SynOption) /\ syn.rejected \subseteq Design
  BY DEF Inv, Sound, Good, Synthesis, SynOption
<1>3. ASSUME NEW k \in Positions(syn.options) PROVE syn.options[k].design \in Design
  <2>1. syn.options[k] \in SynOption
    <3> HIDE DEF SynOption
    <3>1. QED BY <1>2 DEF Positions
  <2>2. QED BY <2>1 DEF SynOption
<1>4. PICK d \in Design : wireframe' = [wireframe EXCEPT ![l] = d]
  BY <1>1, <1>2, <1>3
<1>5. wireframe' \in [Label -> 0 .. MaxOptions]
  <2>1. d \in 0 .. MaxOptions
    BY DEF Design
  <2>2. QED BY <1>4, <2>1 DEF Inv, RestTypes
<1>6. Begin(p, syn, "save") /\ accepted' = accepted
  BY DEF Mockup
<1>7. Sound(syn, accepted') /\ accepted' \subseteq Feedback
  BY <1>6 DEF Inv, RestTypes
<1>8. QED BY <1>5, <1>6, <1>7, BeginInv

(* What is open in a synthesis is feedback.                                *)
LEMMA ItemsAreFeedback ==
  ASSUME NEW r \in Synthesis
  PROVE  /\ Items(r) \subseteq Feedback
         /\ {r.feedback[i].item : i \in Open(r)} \subseteq Feedback
<1>1. r.feedback \in Seq(Remark)
  BY DEF Synthesis, Remark
<1>2. ASSUME NEW i \in Positions(r.feedback) PROVE r.feedback[i].item \in Feedback
  <2>1. r.feedback[i] \in Remark
    <3> HIDE DEF Remark
    <3>1. QED BY <1>1 DEF Positions
  <2>2. QED BY <2>1 DEF Remark
<1>3. QED BY <1>2 DEF Items, Open

LEMMA ApproveInv == ASSUME Inv, NEW p \in Proc, NEW sel \in Label \cup {0}, Approve(p, sel) PROVE Inv'
<1>1. /\ Begin(p, Approved(syn, sel), "approve") /\ syn.status = "reviewing"
      /\ accepted' = accepted \cup {syn.feedback[i].item : i \in Open(syn)}
      /\ wireframe' = wireframe
  BY DEF Approve
<1>2. Sound(Approved(syn, sel), accepted')
  BY <1>1, ApprovedIsSound DEF Inv
<1>3. accepted' \subseteq Feedback /\ wireframe' \in [Label -> 0 .. MaxOptions]
  BY <1>1, ItemsAreFeedback DEF Inv, RestTypes, Sound, Good
<1>4. QED BY <1>1, <1>2, <1>3, BeginInv

(* A step of a command that leaves accepted and the wireframes alone and   *)
(* writes, at most, a sound synthesis.                                     *)
LEMMA GoOnInv ==
  ASSUME Inv, NEW p \in Proc, UNCHANGED <<wireframe, accepted, overlapped>>,
         Exit(p) \/ (pc' = [pc EXCEPT ![p] = "comment"] /\ UNCHANGED out),
         Sound(syn', accepted), told' \subseteq Feedback,
         comment' \in BOOLEAN, approvals' \in BOOLEAN, cut' \in BOOLEAN, trouble' \in 0 .. MaxTrouble
  PROVE  Inv'
<1>1. pc' \in [Proc -> {"idle", "save", "approve", "comment"}]
  BY DEF Inv, RestTypes, Exit
<1>2. RestTypes'
  BY <1>1 DEF Inv, RestTypes
<1>3. Sound(Nothing, accepted)
  BY NewIsSound DEF Nothing, Status
<1>4. Nothing \in Synthesis
  BY <1>3 DEF Sound, Good
<1>5. out' \in [Proc -> Synthesis]
  BY <1>4 DEF Inv, Exit
<1>6. ASSUME NEW q \in Proc PROVE Sound(out'[q], accepted)
  <2>1. out'[q] \in {Nothing, out[q]}
    BY DEF Inv, Exit
  <2>2. QED BY <1>3, <2>1 DEF Inv
<1>7. QED BY <1>2, <1>5, <1>6 DEF Inv

LEMMA FinishInv == ASSUME Inv, NEW p \in Proc, Finish(p) PROVE Inv'
<1>1. /\ told \subseteq Feedback /\ trouble \in 0 .. MaxTrouble
      /\ comment \in BOOLEAN /\ approvals \in BOOLEAN /\ cut \in BOOLEAN
      /\ Sound(syn, accepted) /\ Sound(out[p], accepted) /\ Items(out[p]) \subseteq Feedback
  BY ItemsAreFeedback DEF Inv, RestTypes
<1>2. CASE Save(p)
  BY <1>1, <1>2, GoOnInv DEF Save
<1>3. CASE SaveApproval(p)
  <2>1. /\ syn' = out[p] /\ approvals' = TRUE
        /\ UNCHANGED <<wireframe, comment, trouble, told, accepted, cut, overlapped>>
        /\ Exit(p) \/ (pc' = [pc EXCEPT ![p] = "comment"] /\ UNCHANGED out)
    BY <1>3 DEF SaveApproval
  <2>2. approvals' \in BOOLEAN
    BY <2>1, Zenon
  <2>3. QED BY <1>1, <2>1, <2>2, GoOnInv
<1>4. CASE AddComment(p)
  <2>1. /\ comment' = TRUE /\ Exit(p) /\ UNCHANGED <<syn, wireframe, trouble, aux>>
    BY <1>4 DEF AddComment
  <2>2. comment' \in BOOLEAN
    BY <2>1, Zenon
  <2>3. QED BY <1>1, <2>1, <2>2, GoOnInv DEF aux
<1>5. QED BY <1>2, <1>3, <1>4 DEF Finish

LEMMA StoppedInv == ASSUME Inv, NEW p \in Proc, Stopped(p) PROVE Inv'
<1>1. /\ Exit(p) /\ UNCHANGED <<wireframe, comment, accepted, approvals, overlapped>>
      /\ cut' = (cut \/ pc[p] = "comment")
      /\ trouble < MaxTrouble /\ trouble' = trouble + 1
  BY DEF Stopped, Trouble
<1>2. comment' \in BOOLEAN /\ approvals' \in BOOLEAN
  BY <1>1 DEF Inv, RestTypes
<1>3. cut' \in BOOLEAN
  BY <1>1, Zenon
<1>4. trouble' \in 0 .. MaxTrouble
  BY <1>1 DEF Inv, RestTypes
<1>5. Sound(NewSynthesis("torn", FALSE), accepted)
  BY NewIsSound DEF Status
<1>6. told' \subseteq Feedback /\ Sound(syn', accepted)
  BY <1>5 DEF Stopped, Inv, RestTypes
<1>7. QED BY <1>1, <1>2, <1>3, <1>4, <1>6, GoOnInv

LEMMA NextInv == Inv /\ [Next]_vars => Inv'
<1> SUFFICES ASSUME Inv, [Next]_vars PROVE Inv'
  OBVIOUS
<1>1. CASE UNCHANGED vars
  BY <1>1 DEF vars, aux, Inv, RestTypes
<1>2. CASE Next
  <2>1. PICK p \in Proc : Next!(p)
    BY <1>2 DEF Next
  <2>2. CASE \E force \in BOOLEAN : Synthesize(p, force)
    BY <2>2, SynthesizeInv
  <2>3. CASE \E sel \in Label \cup {0} : Approve(p, sel)
    BY <2>3, ApproveInv
  <2>4. CASE \E i \in Positions(syn.feedback) : Address(p, i)
    BY <2>4, AddressInv
  <2>5. QED BY <2>1, <2>2, <2>3, <2>4, DiscoveryInitInv, CapabilitiesInv, AddOptionInv, CoverInv,
           ReviewInv, FeedbackInv, MockupInv, FinishInv, StoppedInv
<1>3. QED BY <1>1, <1>2

LEMMA Invariance == Spec => []Inv
BY InitInv, NextInv, PTL DEF Spec

(* The file and what commands are about to write are syntheses: no label   *)
(* or recommendation that synthesize or approve hands out is out of range. *)
THEOREM TypeCorrect == Spec => []TypeOK
BY InvImplies, Invariance, PTL

(* Whatever commands overlap, are killed or are given out of order: every  *)
(* option explored is kept or on record as rejected, under a label of its  *)
(* own, and only what a synthesis kept is reviewed and approved.           *)
THEOREM NoOptionForgotten == Spec => []OptionsAddUp
BY InvImplies, Invariance, PTL

(* cmdDiscoveryApprove asks about what it has read; nothing that happens   *)
(* between its question and its save, or after, puts feedback under an     *)
(* approval that its user has not seen.                                    *)
THEOREM ApprovalsAreInformed == Spec => []ApprovalIsInformed
BY InvImplies, Invariance, PTL
-----------------------------------------------------------------------------
(* What commands keep of what they have read: the feedback and, unless     *)
(* they approve, the approval and its task.                                *)

OneId(r) ==
  \A i, j \in Positions(r.feedback) : r.feedback[i].item = r.feedback[j].item => i = j

SameFeedback(r) == r.feedback = syn.feedback

Keeps(r) ==
  /\ r.status \notin {"absent", "torn"}
  /\ told \subseteq Items(syn) /\ (~Loaded => told = {}) => told \subseteq Items(r)
  /\ OneId(syn) => OneId(r)

NoNewApproval(r) == r.status = "approved" /\ r.linked => syn.status = "approved" /\ syn.linked

(* A command has begun with a synthesis that keeps the feedback.           *)
Begun(p) ==
  \E step \in {"save", "approve"} : \E r :
    Begin(p, r, step) /\ Keeps(r) /\ (step = "save" => NoNewApproval(r))

LEMMA SameFeedbackIsKept ==
  ASSUME NEW r, SameFeedback(r), r.status \notin {"absent", "torn"}
  PROVE  Keeps(r)
BY DEF SameFeedback, Keeps, Items, OneId, Positions

LEMMA WriteBegins ==
  ASSUME NEW p \in Proc, NEW r, Write(p, r), SameFeedback(r),
         r.status \notin {"absent", "torn"}, NoNewApproval(r)
  PROVE  Begun(p)
BY SameFeedbackIsKept DEF Write, Begun

LEMMA SynIsSynthesis == Inv => syn \in Synthesis
BY DEF Inv, Sound, Good

(* A new synthesis has no feedback, but none was acknowledged either.      *)
LEMMA DiscoveryInitBegins == ASSUME NEW p \in Proc, DiscoveryInit(p) PROVE Begun(p)
<1>1. PICK linked \in BOOLEAN : Begin(p, NewSynthesis("capabilities", linked), "save")
  BY DEF DiscoveryInit
<1> DEFINE r == NewSynthesis("capabilities", linked)
<1>2. r.status = "capabilities" /\ r.feedback = <<>>
  BY DEF NewSynthesis
<1> HIDE DEF r
<1>3. Keeps(r) /\ NoNewApproval(r)
  BY <1>2 DEF Keeps, NoNewApproval, OneId, Positions, DiscoveryInit
<1>4. QED BY <1>1, <1>3 DEF Begun, r

LEMMA PlainBegins ==
  ASSUME Inv, NEW p \in Proc,
         \/ AddCapability(p) \/ Confirm(p) \/ Explore(p) \/ TagApproach(p)
         \/ Review(p) \/ Iterate(p) \/ Annotate(p) \/ Mockup(p)
  PROVE  Begun(p)
<1>1. syn \in Synthesis
  BY SynIsSynthesis
<1>2. SameFeedback(syn) /\ NoNewApproval(syn)
  BY DEF SameFeedback, NoNewApproval
<1>3. CASE AddCapability(p)
  <2> DEFINE r == [syn EXCEPT !.caps = @ + 1]
  <2>1. SameFeedback(r) /\ r.status = syn.status /\ r.linked = syn.linked
    BY <1>1 DEF SameFeedback, Synthesis
  <2>2. Write(p, r) /\ Loaded
    BY <1>3 DEF AddCapability, Write
  <2> HIDE DEF r
  <2>3. QED BY <2>1, <2>2, WriteBegins DEF NoNewApproval, Loaded
<1>4. CASE TagApproach(p)
  <2> DEFINE r == [syn EXCEPT !.approaches = @ + 1]
  <2>1. SameFeedback(r) /\ r.status = syn.status /\ r.linked = syn.linked
    BY <1>1 DEF SameFeedback, Synthesis
  <2>2. Write(p, r) /\ Loaded
    BY <1>4 DEF TagApproach, Write
  <2> HIDE DEF r
  <2>3. QED BY <2>1, <2>2, WriteBegins DEF NoNewApproval, Loaded
<1>5. ASSUME NEW s \in {"exploring", "reviewing"}, Write(p, [syn EXCEPT !.status = s])
      PROVE  Begun(p)
  <2> DEFINE r == [syn EXCEPT !.status = s]
  <2>1. SameFeedback(r) /\ r.status = s
    BY <1>1 DEF SameFeedback, Synthesis
  <2> HIDE DEF r
  <2>2. QED BY <1>5, <2>1, WriteBegins DEF NoNewApproval, r
<1>6. CASE Confirm(p) \/ Explore(p) \/ Review(p) \/ Iterate(p)
  BY <1>5, <1>6 DEF Confirm, Explore, Review, Iterate
<1>7. CASE Annotate(p)
  BY <1>2, <1>7, WriteBegins DEF Annotate, Write, Loaded
<1>8. CASE Mockup(p)
  BY <1>2, <1>8, SameFeedbackIsKept DEF Mockup, Loaded, Begun
<1>9. QED BY <1>3, <1>4, <1>6, <1>7, <1>8

LEMMA OptionsBegin ==
  ASSUME Inv, NEW p \in Proc, AddOption(p) \/ Cover(p) \/ \E force \in BOOLEAN : Synthesize(p, force)
  PROVE  Begun(p)
<1>1. syn \in Synthesis
  BY SynIsSynthesis
<1>2. CASE AddOption(p)
  <2>1. PICK l \in Label, tag \in {0, 1} : Write(p, WithOption(syn, l, tag))
    BY <1>2 DEF AddOption
  <2> DEFINE r == WithOption(syn, l, tag)
  <2>2. SameFeedback(r) /\ r.status = syn.status /\ r.linked = syn.linked
    BY <1>1 DEF SameFeedback, Synthesis, WithOption
  <2> HIDE DEF r
  <2>3. QED BY <2>1, <2>2, WriteBegins DEF NoNewApproval, Loaded, Write, r
<1>3. CASE Cover(p)
  <2>1. PICK i \in Positions(syn.options) :
          \E n \in {syn.options[i].coverage + 1, 0, syn.caps} :
            n <= MaxCaps /\ Write(p, WithCoverage(syn, i, n))
    BY <1>3 DEF Cover
  <2>2. PICK n \in {syn.options[i].coverage + 1, 0, syn.caps} : Write(p, WithCoverage(syn, i, n))
    BY <2>1
  <2> DEFINE r == WithCoverage(syn, i, n)
  <2>3. SameFeedback(r) /\ r.status = syn.status /\ r.linked = syn.linked
    BY <1>1 DEF SameFeedback, Synthesis, WithCoverage
  <2> HIDE DEF r
  <2>4. QED BY <2>2, <2>3, WriteBegins DEF NoNewApproval, Loaded, Write, r
<1>4. CASE \E force \in BOOLEAN : Synthesize(p, force)
  <2>1. PICK o \in Orders(syn) : Write(p, Synthesized(syn, o))
    BY <1>4 DEF Synthesize
  <2> DEFINE r == Synthesized(syn, o)
  <2>2. SameFeedback(r) /\ r.status = "synthesized"
    BY <1>1 DEF SameFeedback, Synthesis, Synthesized
  <2> HIDE DEF r
  <2>3. QED BY <2>1, <2>2, WriteBegins DEF NoNewApproval, r
<1>5. QED BY <1>2, <1>3, <1>4

(* A remark that is not on record yet joins those that are.                *)
LEMMA GiveFeedbackBegins == ASSUME Inv, NEW p \in Proc, GiveFeedback(p) PROVE Begun(p)
<1>1. PICK f \in Feedback \ (told \cup Items(syn)) : Write(p, WithFeedback(syn, f))
  BY DEF GiveFeedback
<1> DEFINE r == WithFeedback(syn, f)
           new == [item |-> f, addressed |-> FALSE]
           n == Len(syn.feedback)
<1>2. syn \in Synthesis /\ syn.feedback \in Seq(Remark)
  BY SynIsSynthesis DEF Synthesis, Remark
<1>3. /\ r.feedback = Append(syn.feedback, new) /\ r.status = "feedback"
  BY <1>2 DEF WithFeedback, Synthesis
<1>4. /\ n \in Nat /\ Len(Append(syn.feedback, new)) = n + 1
      /\ \A i \in 1 .. n : Append(syn.feedback, new)[i] = syn.feedback[i]
      /\ Append(syn.feedback, new)[n + 1] = new
  <2>1. new \in Remark
    BY DEF Remark
  <2> HIDE DEF new, Remark
  <2>2. QED BY <1>2, <2>1
<1> HIDE DEF r
<1>5. /\ Positions(r.feedback) = (1 .. n) \cup {n + 1}
      /\ \A i \in 1 .. n : r.feedback[i] = syn.feedback[i]
      /\ r.feedback[n + 1].item = f
  BY <1>3, <1>4 DEF Positions
<1>6. \A i \in 1 .. n : syn.feedback[i].item # f
  BY DEF Items, Positions
<1>7. Items(syn) \subseteq Items(r)
  BY <1>5 DEF Items, Positions
<1>8. ASSUME OneId(syn), NEW i \in Positions(r.feedback), NEW j \in Positions(r.feedback),
             r.feedback[i].item = r.feedback[j].item
      PROVE  i = j
  <2>1. CASE i \in 1 .. n /\ j \in 1 .. n
    BY <1>5, <1>8, <2>1 DEF OneId, Positions
  <2>2. CASE i \in 1 .. n /\ j = n + 1
    BY <1>5, <1>6, <1>8, <2>2
  <2>3. CASE i = n + 1 /\ j \in 1 .. n
    BY <1>5, <1>6, <1>8, <2>3
  <2>4. CASE i = n + 1 /\ j = n + 1
    BY <2>4
  <2>5. QED BY <1>5, <1>8, <2>1, <2>2, <2>3, <2>4
<1>9. Keeps(r) /\ NoNewApproval(r)
  BY <1>3, <1>7, <1>8 DEF Keeps, NoNewApproval, OneId
<1>10. QED BY <1>1, <1>9 DEF Begun, Write, r

(* To address a remark does not change what it says.                       *)
LEMMA AddressBegins ==
  ASSUME Inv, NEW p \in Proc, NEW k \in Positions(syn.feedback), Address(p, k)
  PROVE  Begun(p)
<1> DEFINE r == WithAddressed(syn, k)
<1>1. syn \in Synthesis /\ syn.feedback \in Seq(Remark) /\ k \in 1 .. Len(syn.feedback)
  BY SynIsSynthesis DEF Synthesis, Remark, Positions
<1>2. syn.feedback[k] \in Remark
  <2> HIDE DEF Remark
  <2>1. QED BY <1>1
<1> DEFINE g == [syn.feedback[k] EXCEPT !.addressed = TRUE]
           h == [syn.feedback EXCEPT ![k] = g]
<1>3. g \in Remark /\ g.item = syn.feedback[k].item
  BY <1>2 DEF Remark
<1>4. /\ Len(h) = Len(syn.feedback)
      /\ \A i \in 1 .. Len(syn.feedback) : h[i] = IF i = k THEN g ELSE syn.feedback[i]
  <2> HIDE DEF Remark, g
  <2>1. QED BY <1>1, <1>3
<1>5. r = [syn EXCEPT !.feedback = h]
  BY <1>1 DEF WithAddressed, Synthesis
<1> HIDE DEF h, g, r
<1>6. r.feedback = h /\ r.status = syn.status /\ r.linked = syn.linked
  BY <1>1, <1>5 DEF Synthesis
<1>7. /\ Positions(r.feedback) = Positions(syn.feedback)
      /\ \A i \in Positions(syn.feedback) : r.feedback[i].item = syn.feedback[i].item
  BY <1>3, <1>4, <1>6 DEF Positions
<1>8. Items(r) = Items(syn) /\ (OneId(syn) => OneId(r))
  BY <1>7 DEF Items, OneId
<1>9. Write(p, r) /\ Loaded
  BY DEF Address, Write, r
<1>10. Keeps(r) /\ NoNewApproval(r)
  BY <1>6, <1>8, <1>9 DEF Keeps, NoNewApproval, Loaded
<1>11. QED BY <1>9, <1>10 DEF Begun, Write

LEMMA ApproveBegins ==
  ASSUME Inv, NEW p \in Proc, NEW sel \in Label \cup {0}, Approve(p, sel)
  PROVE  Begun(p)
<1> DEFINE r == Approved(syn, sel)
<1>1. SameFeedback(r) /\ r.status = "approved"
  BY SynIsSynthesis DEF SameFeedback, Synthesis, Approved
<1>2. Begin(p, r, "approve")
  BY DEF Approve
<1> HIDE DEF r
<1>3. QED BY <1>1, <1>2, SameFeedbackIsKept DEF Begun

LEMMA EveryStep ==
  ASSUME Inv, Next
  PROVE  \E p \in Proc : Begun(p) \/ Finish(p) \/ Stopped(p)
<1>1. PICK p \in Proc : Next!(p)
  BY DEF Next
<1>2. CASE \E sel \in Label \cup {0} : Approve(p, sel)
  BY <1>2, ApproveBegins
<1>3. CASE \E i \in Positions(syn.feedback) : Address(p, i)
  BY <1>3, AddressBegins
<1>4. QED BY <1>1, <1>2, <1>3, DiscoveryInitBegins, PlainBegins, OptionsBegin, GiveFeedbackBegins
-----------------------------------------------------------------------------
(* The gate.  Once a linked design is approved, its comment is there, is   *)
(* about to be added, or was cut off; that stays so, and therefore holds   *)
(* of every copy of it that a command is about to write back.              *)

Settled == comment \/ cut \/ \E p \in Proc : pc[p] = "comment"

Owed(r) == r.status = "approved" /\ r.linked

GateInv ==
  /\ comment \/ (\E p \in Proc : pc[p] = "comment") => approvals
  /\ Owed(syn) => Settled
  /\ \A p \in Proc : pc[p] = "save" /\ Owed(out[p]) => Settled

LEMMA GateInvImplies == GateInv => GateFollowsApproval
BY DEF GateInv, GateFollowsApproval, Settled, Owed

LEMMA GateInit == Init => GateInv
BY DEF Init, GateInv, Owed, Nothing, NewSynthesis

LEMMA BegunGate == ASSUME Inv, GateInv, NEW p \in Proc, Begun(p) PROVE GateInv'
<1>0. PICK step \in {"save", "approve"} :
        \E r : Begin(p, r, step) /\ Keeps(r) /\ (step = "save" => NoNewApproval(r))
  BY DEF Begun
<1>1. PICK r : Begin(p, r, step) /\ Keeps(r) /\ (step = "save" => NoNewApproval(r))
  BY <1>0
<1>2. /\ pc[p] = "idle" /\ pc' = [pc EXCEPT ![p] = step] /\ out' = [out EXCEPT ![p] = r]
      /\ syn' = syn /\ comment' = comment /\ approvals' = approvals /\ cut' = cut
  BY <1>1 DEF Begin
<1>3. /\ pc \in [Proc -> {"idle", "save", "approve", "comment"}] /\ out \in [Proc -> Synthesis]
  BY DEF Inv, RestTypes
<1>4. \A q \in Proc : pc'[q] = "comment" <=> pc[q] = "comment"
  BY <1>2, <1>3
<1>5. Settled' <=> Settled
  BY <1>2, <1>4 DEF Settled
<1>6. Owed(syn)' <=> Owed(syn)
  BY <1>2 DEF Owed
<1>7. ASSUME NEW q \in Proc, pc'[q] = "save", Owed(out'[q]) PROVE Settled
  <2>1. CASE q = p
    <3>1. step = "save" /\ out'[q] = r
      BY <1>2, <1>3, <1>7, <2>1
    <3>2. Owed(syn)
      BY <1>1, <1>7, <3>1 DEF NoNewApproval, Owed
    <3>3. QED BY <3>2 DEF GateInv
  <2>2. CASE q # p
    BY <1>2, <1>3, <1>7, <2>2 DEF GateInv
  <2>3. QED BY <2>1, <2>2
<1>8. QED BY <1>2, <1>4, <1>5, <1>6, <1>7 DEF GateInv, Owed

LEMMA FinishGate == ASSUME Inv, GateInv, NEW p \in Proc, Finish(p) PROVE GateInv'
<1>1. /\ pc \in [Proc -> {"idle", "save", "approve", "comment"}] /\ out \in [Proc -> Synthesis]
  BY DEF Inv, RestTypes
<1>2. CASE Save(p)
  <2>1. /\ pc[p] = "save" /\ syn' = out[p]
        /\ pc' = [pc EXCEPT ![p] = "idle"] /\ out' = [out EXCEPT ![p] = Nothing]
        /\ comment' = comment /\ approvals' = approvals /\ cut' = cut
    BY <1>2 DEF Save, Exit
  <2>2. \A q \in Proc : pc'[q] = "comment" <=> pc[q] = "comment"
    BY <1>1, <2>1
  <2>3. Settled' <=> Settled
    BY <2>1, <2>2 DEF Settled
  <2>4. \A q \in Proc : pc'[q] = "save" => pc[q] = "save" /\ out'[q] = out[q]
    BY <1>1, <2>1
  <2>5. QED BY <2>1, <2>2, <2>3, <2>4 DEF GateInv, Owed
<1>3. CASE SaveApproval(p)
  <2>1. /\ pc[p] = "approve" /\ syn' = out[p] /\ approvals' = TRUE
        /\ comment' = comment /\ cut' = cut
    BY <1>3 DEF SaveApproval
  <2>2. CASE out[p].linked
    <3>1. pc' = [pc EXCEPT ![p] = "comment"] /\ out' = out
      BY <1>3, <2>2 DEF SaveApproval
    <3>2. Settled'
      BY <1>1, <3>1 DEF Settled
    <3>3. QED BY <2>1, <3>2 DEF GateInv
  <2>3. CASE ~ out[p].linked
    <3>1. pc' = [pc EXCEPT ![p] = "idle"] /\ out' = [out EXCEPT ![p] = Nothing]
      BY <1>3, <2>3 DEF SaveApproval, Exit
    <3>2. \A q \in Proc : pc'[q] = "comment" <=> pc[q] = "comment"
      BY <1>1, <2>1, <3>1
    <3>3. Settled' <=> Settled
      BY <2>1, <3>2 DEF Settled
    <3>4. \A q \in Proc : pc'[q] = "save" => pc[q] = "save" /\ out'[q] = out[q]
      BY <1>1, <2>1, <3>1
    <3>5. ~ Owed(syn')
      BY <2>1, <2>3 DEF Owed
    <3>6. QED BY <2>1, <3>3, <3>4, <3>5 DEF GateInv, Owed
  <2>4. QED BY <2>2, <2>3
<1>4. CASE AddComment(p)
  <2>1. comment' = TRUE /\ approvals' = approvals /\ pc[p] = "comment"
    BY <1>4 DEF AddComment, aux
  <2>2. Settled'
    BY <2>1 DEF Settled
  <2>3. QED BY <2>1, <2>2 DEF GateInv
<1>5. QED BY <1>2, <1>3, <1>4 DEF Finish

LEMMA StoppedGate == ASSUME Inv, GateInv, NEW p \in Proc, Stopped(p) PROVE GateInv'
<1>1. /\ pc \in [Proc -> {"idle", "save", "approve", "comment"}] /\ out \in [Proc -> Synthesis]
  BY DEF Inv, RestTypes
<1>2. /\ pc' = [pc EXCEPT ![p] = "idle"] /\ out' = [out EXCEPT ![p] = Nothing]
      /\ comment' = comment /\ approvals' = approvals
      /\ cut' = (cut \/ pc[p] = "comment")
      /\ syn' = syn \/ syn' = NewSynthesis("torn", FALSE)
  BY DEF Stopped, Exit
<1>3. \A q \in Proc : pc'[q] = "comment" => pc[q] = "comment"
  BY <1>1, <1>2
<1>4. Settled => Settled'
  <2>1. ASSUME NEW q \in Proc, pc[q] = "comment" PROVE cut' \/ pc'[q] = "comment"
    BY <1>1, <1>2, <2>1
  <2>2. QED BY <1>2, <2>1 DEF Settled
<1>5. Owed(syn') => Owed(syn)
  BY <1>2 DEF Owed, NewSynthesis
<1>6. \A q \in Proc : pc'[q] = "save" => pc[q] = "save" /\ out'[q] = out[q]
  BY <1>1, <1>2
<1>7. QED BY <1>2, <1>3, <1>4, <1>5, <1>6 DEF GateInv, Owed

LEMMA GateNext == Inv /\ GateInv /\ [Next]_vars => GateInv'
<1> SUFFICES ASSUME Inv, GateInv, [Next]_vars PROVE GateInv'
  OBVIOUS
<1>1. CASE UNCHANGED vars
  BY <1>1 DEF vars, aux, GateInv, Settled, Owed
<1>2. CASE Next
  BY <1>2, EveryStep, BegunGate, FinishGate, StoppedGate
<1>3. QED BY <1>1, <1>2

(* cmdDiscoveryApprove writes the file before it comments on the task, and *)
(* a command that read the approved file may write it back much later: the *)
(* gate's comment is there only after an approval, and is never missing    *)
(* once the approval has gone through.                                     *)
THEOREM TheGateOpens == Spec => []GateFollowsApproval
BY GateInit, GateNext, GateInvImplies, Invariance, PTL DEF Spec
-----------------------------------------------------------------------------
(* Feedback.  As long as commands do not overlap, the one that runs has    *)
(* read all that was acknowledged, and an id names one remark.             *)

FeedbackInvariant ==
  ~overlapped =>
    /\ \A p, q \in Proc : pc[p] # "idle" /\ pc[q] # "idle" => p = q
    /\ told \subseteq Items(syn) /\ OneId(syn)
    /\ ~Loaded => told = {}
    /\ \A p \in Proc : pc[p] \in {"save", "approve"} =>
         told \subseteq Items(out[p]) /\ OneId(out[p]) /\ out[p].status \notin {"absent", "torn"}

LEMMA FeedbackInvImplies == FeedbackInvariant => FeedbackIsKept
BY DEF FeedbackInvariant, FeedbackIsKept, OneId

LEMMA FeedbackInit == Init => FeedbackInvariant
BY DEF Init, FeedbackInvariant, OneId, Positions, Nothing, NewSynthesis

LEMMA BegunFeedback ==
  ASSUME Inv, FeedbackInvariant, NEW p \in Proc, Begun(p)
  PROVE  FeedbackInvariant'
<1> SUFFICES ASSUME ~overlapped' PROVE FeedbackInvariant'
  BY DEF FeedbackInvariant
<1>0. PICK step \in {"save", "approve"} : \E r : Begin(p, r, step) /\ Keeps(r)
  BY DEF Begun
<1>1. PICK r : Begin(p, r, step) /\ Keeps(r)
  BY <1>0
<1>2. /\ pc' = [pc EXCEPT ![p] = step] /\ out' = [out EXCEPT ![p] = r]
      /\ syn' = syn /\ told' = told
      /\ ~overlapped /\ \A q \in Proc : pc[q] = "idle"
  BY <1>1 DEF Begin
<1>3. /\ pc \in [Proc -> {"idle", "save", "approve", "comment"}] /\ out \in [Proc -> Synthesis]
  BY DEF Inv, RestTypes
<1>4. \A q \in Proc : pc'[q] # "idle" => q = p
  BY <1>2, <1>3
<1>5. told \subseteq Items(syn) /\ OneId(syn) /\ (~Loaded => told = {})
  BY <1>2 DEF FeedbackInvariant
<1>6. told \subseteq Items(r) /\ OneId(r) /\ r.status \notin {"absent", "torn"}
  BY <1>1, <1>5 DEF Keeps
<1>7. out'[p] = r
  BY <1>2, <1>3
<1>8. /\ \A q \in Proc : pc'[q] \in {"save", "approve"} =>
           told' \subseteq Items(out'[q]) /\ OneId(out'[q]) /\ out'[q].status \notin {"absent", "torn"}
      /\ \A q, s \in Proc : pc'[q] # "idle" /\ pc'[s] # "idle" => q = s
  <2>1. \A q \in Proc : pc'[q] \in {"save", "approve"} => q = p
    BY <1>4
  <2>2. QED BY <1>2, <1>4, <1>6, <1>7, <2>1
<1>9. /\ told' \subseteq Items(syn') /\ OneId(syn')
      /\ syn'.status \in {"absent", "torn"} => told' = {}
  BY <1>2, <1>5 DEF Loaded
<1>10. QED BY <1>8, <1>9 DEF FeedbackInvariant, Loaded, OneId, Items, Positions

(* A step of the one command that runs, after which it has nothing more    *)
(* to save.                                                                *)
LEMMA NothingLeftToSave ==
  ASSUME Inv, FeedbackInvariant, ~overlapped, NEW p \in Proc, pc[p] # "idle",
         Exit(p) \/ (pc' = [pc EXCEPT ![p] = "comment"] /\ UNCHANGED out),
         told' \subseteq Items(syn'), OneId(syn'),
         syn'.status \in {"absent", "torn"} => told' = {}
  PROVE  FeedbackInvariant'
<1>1. /\ pc \in [Proc -> {"idle", "save", "approve", "comment"}] /\ out \in [Proc -> Synthesis]
  BY DEF Inv, RestTypes
<1>2. \A q \in Proc : q # p => pc[q] = "idle"
  BY DEF FeedbackInvariant
<1>3. \A q \in Proc : pc'[q] = "idle" \/ (q = p /\ pc'[q] = "comment")
  BY <1>1, <1>2 DEF Exit
<1>4. QED BY <1>3 DEF FeedbackInvariant, Loaded, OneId, Items, Positions

LEMMA FinishFeedback ==
  ASSUME Inv, FeedbackInvariant, NEW p \in Proc, Finish(p) \/ Stopped(p)
  PROVE  FeedbackInvariant'
<1>1. overlapped' = overlapped
  BY DEF Finish, Save, SaveApproval, AddComment, Stopped, aux
<1> SUFFICES ASSUME ~overlapped PROVE FeedbackInvariant'
  BY <1>1 DEF FeedbackInvariant
<1>2. told \subseteq Items(syn) /\ OneId(syn) /\ (syn.status \in {"absent", "torn"} => told = {})
  BY DEF FeedbackInvariant, Loaded
<1>3. CASE Save(p)
  <2>1. pc[p] = "save" /\ syn' = out[p] /\ told' = told \cup Items(out[p]) /\ Exit(p)
    BY <1>3 DEF Save
  <2>2. told \subseteq Items(out[p]) /\ OneId(out[p]) /\ out[p].status \notin {"absent", "torn"}
    BY <2>1 DEF FeedbackInvariant
  <2>3. told' \subseteq Items(syn') /\ OneId(syn') /\ syn'.status \notin {"absent", "torn"}
    BY <2>1, <2>2
  <2>4. pc[p] # "idle"
    BY <2>1
  <2>5. QED BY <2>1, <2>3, <2>4, NothingLeftToSave
<1>4. CASE SaveApproval(p)
  <2>1. /\ pc[p] = "approve" /\ syn' = out[p] /\ told' = told
        /\ Exit(p) \/ (pc' = [pc EXCEPT ![p] = "comment"] /\ UNCHANGED out)
    BY <1>4 DEF SaveApproval
  <2>2. told \subseteq Items(out[p]) /\ OneId(out[p]) /\ out[p].status \notin {"absent", "torn"}
    BY <2>1 DEF FeedbackInvariant
  <2>3. told' \subseteq Items(syn') /\ OneId(syn') /\ syn'.status \notin {"absent", "torn"}
    BY <2>1, <2>2
  <2>4. pc[p] # "idle"
    BY <2>1
  <2>5. QED BY <2>1, <2>3, <2>4, NothingLeftToSave
<1>5. CASE AddComment(p)
  <2>1. pc[p] = "comment" /\ Exit(p) /\ syn' = syn /\ told' = told
    BY <1>5 DEF AddComment, aux
  <2>2. told' \subseteq Items(syn') /\ OneId(syn') /\ (syn'.status \in {"absent", "torn"} => told' = {})
    BY <1>2, <2>1
  <2>3. pc[p] # "idle"
    BY <2>1
  <2>4. QED BY <2>1, <2>2, <2>3, NothingLeftToSave
<1>6. CASE Stopped(p)
  <2>1. /\ pc[p] # "idle" /\ Exit(p)
        /\ \/ syn' = syn /\ told' = told
           \/ syn' = NewSynthesis("torn", FALSE) /\ told' = {}
    BY <1>6 DEF Stopped
  <2>2. OneId(NewSynthesis("torn", FALSE))
    BY DEF OneId, NewSynthesis, Positions
  <2>3. told' \subseteq Items(syn') /\ OneId(syn') /\ (syn'.status \in {"absent", "torn"} => told' = {})
    BY <1>2, <2>1, <2>2
  <2>4. QED BY <2>1, <2>3, NothingLeftToSave
<1>7. QED BY <1>3, <1>4, <1>5, <1>6 DEF Finish

LEMMA FeedbackNext == Inv /\ FeedbackInvariant /\ [Next]_vars => FeedbackInvariant'
<1> SUFFICES ASSUME Inv, FeedbackInvariant, [Next]_vars PROVE FeedbackInvariant'
  OBVIOUS
<1>1. CASE UNCHANGED vars
  BY <1>1 DEF vars, aux, FeedbackInvariant, Loaded, OneId, Items, Positions
<1>2. CASE Next
  BY <1>2, EveryStep, BegunFeedback, FinishFeedback
<1>3. QED BY <1>1, <1>2

(* Every command rewrites the whole file from what it has read: run one    *)
(* after the other, killed or not, they lose none of the feedback pt has   *)
(* acknowledged and never use an id twice.                                 *)
THEOREM FeedbackStaysOnRecord == Spec => []FeedbackIsKept
BY FeedbackInit, FeedbackNext, FeedbackInvImplies, Invariance, PTL DEF Spec
-----------------------------------------------------------------------------
(* The hints.  What the command that pt discovery status names would save. *)
Proposed(r) ==
  \/ syn.status = "torn" /\ \E linked \in BOOLEAN : r = NewSynthesis("capabilities", linked)
  \/ syn.status = "capabilities" /\ syn.caps = 0 /\ 0 < MaxCaps /\ r = [syn EXCEPT !.caps = @ + 1]
  \/ /\ (syn.status = "capabilities" /\ syn.caps > 0) \/ (syn.status = "feedback" /\ Open(syn) = {})
     /\ r = [syn EXCEPT !.status = "exploring"]
  \/ /\ syn.status = "exploring" /\ syn.total < MinOptions /\ syn.total < MaxOptions
     /\ \E l \in Label, tag \in {0, 1} :
          ~Has(syn, l) /\ syn.approaches + tag <= MinApproaches /\ r = WithOption(syn, l, tag)
  \/ /\ syn.status = "exploring" /\ syn.total >= MinOptions /\ syn.approaches < MinApproaches
     /\ r = [syn EXCEPT !.approaches = @ + 1]
  \/ syn.status = "exploring" /\ GatePassed /\ \E o \in Orders(syn) : r = Synthesized(syn, o)
  \/ syn.status = "synthesized" /\ r = [syn EXCEPT !.status = "reviewing"]
  \/ syn.status \in {"reviewing", "feedback"} /\ \E i \in Open(syn) : r = WithAddressed(syn, i)
  \/ syn.status = "reviewing" /\ Open(syn) = {} /\ r = Approved(syn, 0)

Hinted(p) ==
  \/ Restart(p) \/ HintCapabilities(p) \/ HintExploring(p)
  \/ Review(p) \/ HintReviewing(p) \/ HintFeedback(p)

\* Process p has begun to save r, and changed nothing else.
Proposes(p, r) ==
  /\ Begin(p, r, IF r.status = "approved" THEN "approve" ELSE "save")
  /\ UNCHANGED <<wireframe, accepted>>

(* How many hints there are from a synthesis to its approval, at most.     *)
Lacking(r) == (IF r.total < MinOptions THEN MinOptions - r.total ELSE 0) + (MinApproaches - r.approaches)

Stages(r) ==
  CASE r.status = "approved" -> 0
    [] r.status = "reviewing" -> 1
    [] r.status = "synthesized" -> 2
    [] r.status = "exploring" -> 3 + Lacking(r)
    [] r.status = "feedback" -> 4 + Lacking(r)
    [] r.status = "capabilities" -> 4 + Lacking(r) + (IF r.caps = 0 THEN 1 ELSE 0)
    [] OTHER -> 6 + MinOptions + MinApproaches

Distance(r) == Cardinality(Open(r)) + Stages(r)

LEMMA LeastNumber ==
  ASSUME NEW T, T \subseteq Nat, T # {}
  PROVE  \E x \in T : \A y \in T : x <= y
<1> DEFINE R == {ss \in Nat \X Nat : ss[1] < ss[2]}
<1>1. IsWellFoundedOn(R, Nat)
  BY NatLessThanWellFounded DEF OpToRel
<1>2. PICK x \in T : \A y \in T : <<y, x>> \notin R
  <2> HIDE DEF R
  <2> QED BY <1>1, WFMin
<1>3. ASSUME NEW y \in T PROVE x <= y
  <2>1. x \in Nat /\ y \in Nat /\ <<y, x>> \in Nat \X Nat
    OBVIOUS
  <2>2. ~ y < x
    BY <1>2, <2>1
  <2> QED BY <2>1, <2>2
<1> QED BY <1>3

(* The n marks c can be put in descending order.                           *)
Sorts(n, c, o) == \A i, j \in 1 .. n : i < j => o[i] # o[j] /\ c[o[i]] >= c[o[j]]

(* By the least number of marks that cannot be sorted: put the lowest mark *)
(* last, the last one in its place, and sort what is before.               *)
LEMMA Sortable ==
  ASSUME NEW n \in Nat, NEW c \in [1 .. n -> Nat]
  PROVE  \E o \in [1 .. n -> 1 .. n] : Sorts(n, c, o)
<1> DEFINE Bad == {k \in Nat : \E d \in [1 .. k -> Nat] : \A o \in [1 .. k -> 1 .. k] : ~Sorts(k, d, o)}
<1>1. SUFFICES ASSUME Bad # {} PROVE FALSE
  OBVIOUS
<1>2. PICK k \in Bad : \A j \in Bad : k <= j
  BY <1>1, LeastNumber
<1>3. PICK d \in [1 .. k -> Nat] : \A o \in [1 .. k -> 1 .. k] : ~Sorts(k, d, o)
  BY <1>2
<1>4. k \in Nat /\ k # 0
  <2>1. ASSUME k = 0 PROVE FALSE
    <3>1. 1 .. k = {}
      BY <2>1
    <3>2. [i \in 1 .. k |-> i] \in [1 .. k -> 1 .. k]
      OBVIOUS
    <3>3. Sorts(k, d, [i \in 1 .. k |-> i])
      BY <3>1 DEF Sorts
    <3> QED BY <1>3, <3>2, <3>3
  <2> QED BY <1>2, <2>1
<1>5. k - 1 \in Nat /\ k - 1 \notin Bad
  <2>1. ~(k <= k - 1)
    BY <1>4
  <2> HIDE DEF Bad
  <2>2. k - 1 \in Nat
    BY <1>4
  <2> QED BY <1>2, <2>1, <2>2
<1> HIDE DEF Bad
<1>6. PICK i \in 1 .. k : \A j \in 1 .. k : d[i] <= d[j]
  <2> DEFINE T == {d[j] : j \in 1 .. k}
  <2>1. T \subseteq Nat /\ d[1] \in T
    BY <1>3, <1>4
  <2>2. PICK x \in T : \A y \in T : x <= y
    BY <2>1, LeastNumber
  <2> QED BY <2>2
<1> DEFINE e == [j \in 1 .. k - 1 |-> IF j = i THEN d[k] ELSE d[j]]
<1>7. e \in [1 .. k - 1 -> Nat] /\ k \in 1 .. k /\ 1 .. k - 1 \subseteq 1 .. k
  <2>1. k \in 1 .. k /\ 1 .. k - 1 \subseteq 1 .. k
    BY <1>4
  <2>2. \A j \in 1 .. k : d[j] \in Nat
    BY <1>3
  <2> QED BY <2>1, <2>2
<1>8. PICK q \in [1 .. k - 1 -> 1 .. k - 1] : Sorts(k - 1, e, q)
  BY <1>5, <1>7 DEF Bad
<1> DEFINE o == [j \in 1 .. k |-> IF j = k THEN i ELSE IF q[j] = i THEN k ELSE q[j]]
<1>9. ASSUME NEW j \in 1 .. k, j # k
      PROVE  /\ j \in 1 .. k - 1 /\ q[j] \in 1 .. k - 1 /\ q[j] # k
             /\ o[j] = (IF q[j] = i THEN k ELSE q[j])
             /\ o[j] \in 1 .. k /\ o[j] # i /\ d[o[j]] = e[q[j]]
  <2>1. j \in 1 .. k - 1
    BY <1>4, <1>9
  <2>2. q[j] \in 1 .. k - 1 /\ q[j] \in 1 .. k /\ q[j] # k
    <3>1. q[j] \in 1 .. k - 1
      BY <1>8, <2>1
    <3>2. 1 .. k - 1 \subseteq 1 .. k /\ k \notin 1 .. k - 1
      BY <1>4
    <3> QED BY <3>1, <3>2
  <2>3. o[j] = (IF q[j] = i THEN k ELSE q[j])
    BY <1>9
  <2> QED BY <1>7, <2>1, <2>2, <2>3
<1>10. o \in [1 .. k -> 1 .. k] /\ o[k] = i
  BY <1>7, <1>9
<1>11. ASSUME NEW j \in 1 .. k, NEW l \in 1 .. k, j < l
       PROVE  o[j] # o[l] /\ d[o[j]] >= d[o[l]]
  <2>1. j # k
    BY <1>4, <1>11
  <2>2. CASE l = k
    <3>1. d[o[j]] \in Nat /\ d[i] \in Nat
      BY <1>3, <1>9, <2>1
    <3> HIDE DEF o, e
    <3> QED BY <1>6, <1>9, <1>10, <2>1, <2>2, <3>1
  <2>3. CASE l # k
    <3>1. j \in 1 .. k - 1 /\ l \in 1 .. k - 1
      BY <1>9, <2>1, <2>3
    <3>2. q[j] # q[l] /\ e[q[j]] >= e[q[l]]
      BY <1>8, <1>11, <3>1 DEF Sorts
    <3> HIDE DEF e
    <3>3. d[o[j]] >= d[o[l]]
      <4>1. d[o[j]] = e[q[j]] /\ d[o[l]] = e[q[l]]
        BY <1>9, <2>1, <2>3
      <4> QED BY <3>2, <4>1
    <3>4. o[j] # o[l]
      BY <1>9, <2>1, <2>3, <3>2
    <3> QED BY <3>3, <3>4
  <2> QED BY <2>2, <2>3
<1> HIDE DEF o
<1> QED BY <1>3, <1>10, <1>11 DEF Sorts

\* Synthesize finds an order, however the options are marked.
LEMMA SomeOrder == ASSUME NEW r \in Synthesis PROVE Orders(r) # {}
<1> DEFINE P == Positions(r.options)
           c == [i \in P |-> r.options[i].coverage]
<1>1. r.options \in Seq(SynOption)
  BY DEF Synthesis, SynOption
<1>2. Len(r.options) \in Nat /\ P = 1 .. Len(r.options) /\ \A i \in P : r.options[i] \in SynOption
  <2> HIDE DEF SynOption
  <2> QED BY <1>1 DEF Positions
<1>3. c \in [1 .. Len(r.options) -> Nat]
  BY <1>2 DEF SynOption
<1>4. PICK o \in [P -> P] : Sorts(Len(r.options), c, o)
  <2> HIDE DEF c
  <2> QED BY <1>2, <1>3, Sortable
<1>5. \A i, j \in P : i < j => /\ o[i] # o[j]
                               /\ r.options[o[i]].coverage >= r.options[o[j]].coverage
  BY <1>2, <1>4 DEF Sorts
<1> QED BY <1>5 DEF Orders

\* As long as options may be added, a label is free.
LEMMA FreeLabel ==
  ASSUME NEW r, Good(r), r.total < MaxOptions
  PROVE  \E l \in Label : ~Has(r, l)
<1> SUFFICES ASSUME \A l \in Label : Has(r, l) PROVE FALSE
  OBVIOUS
<1> DEFINE n == Len(r.options)
           f == [i \in 1 .. n |-> r.options[i].label]
<1>1. r.options \in Seq(SynOption) /\ r.total \in Nat /\ n <= r.total
  BY DEF Good, Synthesis, SynOption
<1>2. n \in Nat /\ \A i \in 1 .. n : r.options[i] \in SynOption
  <2> HIDE DEF SynOption
  <2> QED BY <1>1
<1>3. f \in [1 .. n -> Label] /\ \A l \in Label : \E i \in 1 .. n : f[i] = l
  <2>1. \A i \in 1 .. n : r.options[i].label \in Label
    BY <1>2 DEF SynOption
  <2>2. ASSUME NEW l \in Label PROVE \E i \in 1 .. n : r.options[i].label = l
    BY <1>1 DEF Has, Positions
  <2> QED BY <2>1, <2>2
<1>4. Cardinality(Label) <= n
  <2> HIDE DEF f
  <2>1. ExistsSurjection(1 .. n, Label)
    BY <1>3 DEF ExistsSurjection, Surjection
  <2> QED BY <1>2, <2>1, FS_SurjCardinalityBound
<1>5. Cardinality(Label) = MaxOptions
  BY FS_Interval DEF Label
<1> HIDE DEF n
<1> QED BY <1>1, <1>2, <1>4, <1>5

LEMMA SynTypes ==
  ASSUME Inv
  PROVE  /\ syn \in Synthesis /\ syn.total \in Nat /\ syn.caps \in Nat /\ syn.approaches \in Nat
         /\ syn.approaches <= MinApproaches /\ syn.status \in Status
<1>1. syn \in Synthesis
  BY SynIsSynthesis
<1> QED BY <1>1 DEF Synthesis

\* What pt discovery status says while options are explored.
LEMMA ExploringHint ==
  ASSUME Inv, NEW p \in Proc
  PROVE  HintExploring(p) <=>
           /\ syn.status = "exploring"
           /\ \/ syn.total < MinOptions /\ AddOption(p)
              \/ syn.total >= MinOptions /\ syn.approaches < MinApproaches /\ TagApproach(p)
              \/ GatePassed /\ Synthesize(p, FALSE)
<1>1. syn.total \in Nat /\ syn.approaches \in Nat
  BY SynTypes
<1>2. CASE syn.total < MinOptions
  <2>1. ~(syn.total >= MinOptions) /\ ~GatePassed
    BY <1>1, <1>2 DEF GatePassed
  <2>2. HintExploring(p) <=> syn.status = "exploring" /\ AddOption(p)
    BY <1>2, <2>1 DEF HintExploring
  <2> QED BY <1>2, <2>1, <2>2
<1>3. CASE syn.total >= MinOptions /\ syn.approaches < MinApproaches
  <2>1. ~(syn.total < MinOptions) /\ ~GatePassed
    BY <1>1, <1>3 DEF GatePassed
  <2>2. HintExploring(p) <=> syn.status = "exploring" /\ TagApproach(p)
    BY <1>3, <2>1 DEF HintExploring
  <2> QED BY <1>3, <2>1, <2>2
<1>4. CASE GatePassed
  <2>1. ~(syn.total < MinOptions) /\ ~(syn.total >= MinOptions /\ syn.approaches < MinApproaches)
    BY <1>1, <1>4 DEF GatePassed
  <2>2. HintExploring(p) <=> syn.status = "exploring" /\ Synthesize(p, FALSE)
    BY <2>1 DEF HintExploring
  <2> QED BY <1>4, <2>1, <2>2
<1>5. syn.total < MinOptions \/ (syn.total >= MinOptions /\ syn.approaches < MinApproaches) \/ GatePassed
  BY <1>1 DEF GatePassed
<1> QED BY <1>2, <1>3, <1>4, <1>5

LEMMA OpenIsFinite ==
  ASSUME NEW r \in Synthesis
  PROVE  IsFiniteSet(Open(r)) /\ Cardinality(Open(r)) \in Nat
<1>1. r.feedback \in Seq(Remark)
  BY DEF Synthesis, Remark
<1>2. Len(r.feedback) \in Nat
  <2> HIDE DEF Remark
  <2> QED BY <1>1
<1>3. IsFiniteSet(1 .. Len(r.feedback)) /\ Open(r) \subseteq 1 .. Len(r.feedback)
  BY <1>2, FS_Interval DEF Open, Positions
<1> QED BY <1>3, FS_Subset, FS_CardinalityType

LEMMA DistanceType ==
  ASSUME NEW r \in Synthesis
  PROVE  Lacking(r) \in Nat /\ Stages(r) \in Nat /\ Distance(r) \in Nat
<1>1. Cardinality(Open(r)) \in Nat
  BY OpenIsFinite
<1>2. r.total \in Nat /\ r.approaches \in Nat /\ r.approaches <= MinApproaches
  BY DEF Synthesis
<1>3. Lacking(r) \in Nat
  BY <1>2 DEF Lacking
<1>4. Stages(r) \in Nat
  BY <1>3 DEF Stages
<1> QED BY <1>1, <1>3, <1>4 DEF Distance

\* The same feedback, and a stage further.
LEMMA StageNearer ==
  ASSUME NEW r \in Synthesis, NEW s \in Synthesis, s.feedback = r.feedback, Stages(s) < Stages(r)
  PROVE  Distance(s) < Distance(r)
<1>1. Open(s) = Open(r)
  BY DEF Open, Positions
<1> QED BY <1>1, OpenIsFinite, DistanceType DEF Distance

\* One remark the fewer, and everything else the same.
LEMMA AddressedNearer ==
  ASSUME NEW r \in Synthesis, NEW i \in Open(r), WithAddressed(r, i) \in Synthesis
  PROVE  Distance(WithAddressed(r, i)) < Distance(r)
<1> DEFINE s == WithAddressed(r, i)
<1>1. /\ s.total = r.total /\ s.approaches = r.approaches /\ s.caps = r.caps /\ s.status = r.status
      /\ s.feedback = [r.feedback EXCEPT ![i].addressed = TRUE]
  BY DEF WithAddressed, Synthesis
<1>2. Stages(s) = Stages(r)
  BY <1>1 DEF Stages, Lacking
<1>3. r.feedback \in Seq(Remark) /\ i \in 1 .. Len(r.feedback)
  BY DEF Synthesis, Remark, Open, Positions
<1>4. /\ Len(s.feedback) = Len(r.feedback)
      /\ \A j \in 1 .. Len(r.feedback) :
           s.feedback[j].addressed = (IF j = i THEN TRUE ELSE r.feedback[j].addressed)
  <2> DEFINE g == [r.feedback[i] EXCEPT !.addressed = TRUE]
             h == [r.feedback EXCEPT ![i] = g]
  <2>1. r.feedback[i] \in Remark
    <3> HIDE DEF Remark
    <3> QED BY <1>3
  <2>2. g \in Remark /\ g.addressed = TRUE
    BY <2>1 DEF Remark
  <2>3. s.feedback = h
    BY <1>1
  <2>4. /\ Len(h) = Len(r.feedback)
        /\ \A j \in 1 .. Len(r.feedback) : h[j] = IF j = i THEN g ELSE r.feedback[j]
    <3> HIDE DEF Remark, g
    <3> QED BY <1>3, <2>2
  <2> HIDE DEF h, g, s
  <2> QED BY <2>2, <2>3, <2>4
<1>5. Open(s) = Open(r) \ {i}
  BY <1>3, <1>4 DEF Open, Positions
<1> HIDE DEF s
<1>6. Cardinality(Open(s)) = Cardinality(Open(r)) - 1
  BY <1>5, OpenIsFinite, FS_RemoveElement
<1> QED BY <1>2, <1>6, OpenIsFinite, DistanceType DEF Distance, s

LEMMA SoundIsSynthesis == ASSUME NEW A, NEW r, Sound(r, A) PROVE r \in Synthesis
BY DEF Sound, Good

\* Whatever a hint proposes is a synthesis nearer to its approval.
LEMMA ProposalsAreNearer ==
  ASSUME Inv, NEW r, Proposed(r)
  PROVE  r \in Synthesis /\ Distance(r) < Distance(syn)
<1>1. Sound(syn, accepted) /\ Good(syn) /\ syn \in Synthesis
  BY DEF Inv, Sound, Good
<1>2. /\ syn.total \in Nat /\ syn.caps \in Nat /\ syn.approaches \in Nat
      /\ syn.approaches <= MinApproaches
  BY <1>1 DEF Synthesis
<1>3. Lacking(syn) \in Nat /\ Cardinality(Open(syn)) \in Nat
  BY <1>1, DistanceType, OpenIsFinite
<1>4. CASE syn.status = "torn" /\ \E linked \in BOOLEAN : r = NewSynthesis("capabilities", linked)
  <2>1. PICK linked \in BOOLEAN : r = NewSynthesis("capabilities", linked)
    BY <1>4
  <2>2. r \in Synthesis
    BY <2>1, NewIsSound, SoundIsSynthesis DEF Status
  <2>3. /\ r.status = "capabilities" /\ r.total = 0 /\ r.approaches = 0 /\ r.caps = 0
        /\ Open(r) = {}
    BY <2>1 DEF NewSynthesis, Open, Positions
  <2>4. Lacking(r) = MinOptions + MinApproaches
    BY <2>3 DEF Lacking
  <2>5. Stages(r) = 5 + MinOptions + MinApproaches
    BY <2>3, <2>4 DEF Stages
  <2>6. Stages(syn) = 6 + MinOptions + MinApproaches
    BY <1>4 DEF Stages
  <2>7. Cardinality(Open(r)) = 0
    BY <2>3, FS_EmptySet
  <2> QED BY <1>3, <2>2, <2>5, <2>6, <2>7 DEF Distance
<1>5. CASE syn.status = "capabilities" /\ syn.caps = 0 /\ 0 < MaxCaps /\ r = [syn EXCEPT !.caps = @ + 1]
  <2>1. r \in Synthesis
    BY <1>1, <1>5, CapsAreSound, SoundIsSynthesis
  <2>2. /\ r.status = "capabilities" /\ r.caps = 1 /\ r.feedback = syn.feedback
        /\ r.total = syn.total /\ r.approaches = syn.approaches
    BY <1>1, <1>5 DEF Synthesis
  <2>3. Stages(r) < Stages(syn)
    BY <1>3, <1>5, <2>2 DEF Stages, Lacking
  <2> QED BY <1>1, <2>1, <2>2, <2>3, StageNearer
<1>6. ASSUME NEW s \in {"exploring", "reviewing"}, r = [syn EXCEPT !.status = s]
      PROVE  /\ r.status = s /\ r.caps = syn.caps /\ r.feedback = syn.feedback
             /\ r.total = syn.total /\ r.approaches = syn.approaches /\ Lacking(r) = Lacking(syn)
             /\ r \in Synthesis
  BY <1>1, <1>6 DEF Synthesis, Lacking, Status
<1>7. CASE /\ (syn.status = "capabilities" /\ syn.caps > 0) \/ (syn.status = "feedback" /\ Open(syn) = {})
           /\ r = [syn EXCEPT !.status = "exploring"]
  <2>1. Stages(r) < Stages(syn)
    BY <1>2, <1>3, <1>6, <1>7 DEF Stages
  <2> QED BY <1>1, <1>6, <1>7, <2>1, StageNearer
<1>8. CASE /\ syn.status = "exploring" /\ syn.total < MinOptions /\ syn.total < MaxOptions
           /\ \E l \in Label, tag \in {0, 1} :
                ~Has(syn, l) /\ syn.approaches + tag <= MinApproaches /\ r = WithOption(syn, l, tag)
  <2>1. PICK l \in Label, tag \in {0, 1} :
          ~Has(syn, l) /\ syn.approaches + tag <= MinApproaches /\ r = WithOption(syn, l, tag)
    BY <1>8
  <2>2. r \in Synthesis
    BY <1>1, <1>8, <2>1, OptionIsSound, SoundIsSynthesis
  <2>3. /\ r.status = "exploring" /\ r.feedback = syn.feedback
        /\ r.total = syn.total + 1 /\ r.approaches = syn.approaches + tag
    BY <1>1, <1>8, <2>1 DEF Synthesis, WithOption
  <2>4. Lacking(r) < Lacking(syn)
    BY <1>2, <1>8, <2>1, <2>3 DEF Lacking
  <2>5. Lacking(r) \in Nat
    BY <2>2, DistanceType
  <2>6. Stages(r) = 3 + Lacking(r) /\ Stages(syn) = 3 + Lacking(syn)
    BY <1>8, <2>3 DEF Stages
  <2>7. Stages(r) < Stages(syn)
    BY <1>3, <2>4, <2>5, <2>6
  <2> QED BY <1>1, <2>2, <2>3, <2>7, StageNearer
<1>9. CASE /\ syn.status = "exploring" /\ syn.total >= MinOptions /\ syn.approaches < MinApproaches
           /\ r = [syn EXCEPT !.approaches = @ + 1]
  <2>1. r \in Synthesis
    BY <1>1, <1>9, ApproachesAreSound, SoundIsSynthesis
  <2>2. /\ r.status = "exploring" /\ r.feedback = syn.feedback
        /\ r.total = syn.total /\ r.approaches = syn.approaches + 1
    BY <1>1, <1>9 DEF Synthesis
  <2>3. Stages(r) < Stages(syn)
    BY <1>2, <1>9, <2>2 DEF Stages, Lacking
  <2> QED BY <1>1, <2>1, <2>2, <2>3, StageNearer
<1>10. CASE syn.status = "exploring" /\ GatePassed /\ \E o \in Orders(syn) : r = Synthesized(syn, o)
  <2>1. r \in Synthesis
    BY <1>1, <1>10, SynthesizedIsSound, SoundIsSynthesis
  <2>2. r.status = "synthesized" /\ r.feedback = syn.feedback
    BY <1>1, <1>10 DEF Synthesis, Synthesized
  <2>3. Stages(r) < Stages(syn)
    BY <1>3, <1>10, <2>2 DEF Stages
  <2> QED BY <1>1, <2>1, <2>2, <2>3, StageNearer
<1>11. CASE syn.status = "synthesized" /\ r = [syn EXCEPT !.status = "reviewing"]
  <2>1. Stages(r) < Stages(syn)
    BY <1>6, <1>11 DEF Stages
  <2> QED BY <1>1, <1>6, <1>11, <2>1, StageNearer
<1>12. CASE syn.status \in {"reviewing", "feedback"} /\ \E i \in Open(syn) : r = WithAddressed(syn, i)
  <2>1. PICK i \in Open(syn) : r = WithAddressed(syn, i)
    BY <1>12
  <2>2. r \in Synthesis
    BY <1>1, <2>1, AddressedIsSound, SoundIsSynthesis DEF Open
  <2> QED BY <1>1, <2>1, <2>2, AddressedNearer
<1>13. CASE syn.status = "reviewing" /\ Open(syn) = {} /\ r = Approved(syn, 0)
  <2>1. r \in Synthesis
    BY <1>1, <1>13, ApprovedIsSound, SoundIsSynthesis
  <2>2. r.status = "approved" /\ r.feedback = syn.feedback
    BY <1>1, <1>13 DEF Synthesis, Approved
  <2>3. Stages(r) < Stages(syn)
    BY <1>13, <2>2 DEF Stages
  <2> QED BY <1>1, <2>1, <2>2, <2>3, StageNearer
<1> QED BY <1>4, <1>5, <1>7, <1>8, <1>9, <1>10, <1>11, <1>12, <1>13 DEF Proposed

\* The hints do not run out before the approval.
LEMMA SomethingProposed ==
  ASSUME Inv, MinOptions <= MaxOptions, 0 < MaxCaps, syn.status \notin {"absent", "approved"}
  PROVE  \E r : Proposed(r)
<1>1. Good(syn) /\ syn \in Synthesis
  BY DEF Inv, Sound, Good
<1>2. /\ syn.total \in Nat /\ syn.caps \in Nat /\ syn.approaches \in Nat
      /\ syn.approaches <= MinApproaches /\ syn.status \in Status
  BY SynTypes
<1>3. CASE syn.status = "torn"
  BY <1>3 DEF Proposed
<1>4. CASE syn.status = "capabilities"
  <2>1. CASE syn.caps = 0
    BY <1>4, <2>1 DEF Proposed
  <2>2. CASE syn.caps > 0
    <3>1. Proposed([syn EXCEPT !.status = "exploring"])
      BY <1>4, <2>2 DEF Proposed
    <3> QED BY <3>1
  <2> QED BY <1>2, <2>1, <2>2
<1>5. CASE syn.status = "exploring"
  <2>1. CASE syn.total < MinOptions
    <3>1. PICK l \in Label : ~Has(syn, l)
      BY <1>1, <1>2, <2>1, FreeLabel
    <3>2. syn.approaches + 0 <= MinApproaches /\ syn.total < MaxOptions
      BY <1>2, <2>1
    <3>3. Proposed(WithOption(syn, l, 0))
      BY <1>5, <2>1, <3>1, <3>2 DEF Proposed
    <3> QED BY <3>3
  <2>2. CASE syn.total >= MinOptions /\ syn.approaches < MinApproaches
    BY <1>5, <2>2 DEF Proposed
  <2>3. CASE GatePassed
    <3>1. PICK o \in Orders(syn) : TRUE
      BY <1>1, SomeOrder
    <3> QED BY <1>5, <2>3, <3>1 DEF Proposed
  <2> QED BY <1>2, <2>1, <2>2, <2>3 DEF GatePassed
<1>6. CASE syn.status = "synthesized"
  BY <1>6 DEF Proposed
<1>7. CASE syn.status \in {"reviewing", "feedback"} /\ Open(syn) # {}
  BY <1>7 DEF Proposed
<1>8. CASE syn.status \in {"reviewing", "feedback"} /\ Open(syn) = {}
  BY <1>8 DEF Proposed
<1> QED BY <1>2, <1>3, <1>4, <1>5, <1>6, <1>7, <1>8 DEF Status

\* What a hint begins to save is a proposal ...
LEMMA HintsPropose ==
  ASSUME Inv, NEW p \in Proc, Hinted(p) PROVE \E r : Proposed(r) /\ Proposes(p, r)
<1>1. syn \in Synthesis /\ syn.total \in Nat /\ syn.caps \in Nat /\ syn.approaches \in Nat
  BY SynTypes
<1>2. CASE Restart(p)
  <2>1. PICK linked \in BOOLEAN : Begin(p, NewSynthesis("capabilities", linked), "save")
    BY <1>2 DEF Restart, DiscoveryInit
  <2>2. Proposed(NewSynthesis("capabilities", linked))
    BY <1>2 DEF Restart, Proposed
  <2>3. NewSynthesis("capabilities", linked).status = "capabilities"
    BY DEF NewSynthesis
  <2> QED BY <1>2, <2>1, <2>2, <2>3 DEF Restart, DiscoveryInit, Proposes
<1>3. ASSUME NEW r, Proposed(r), r.status # "approved", Write(p, r)
      PROVE  \E s : Proposed(s) /\ Proposes(p, s)
  BY <1>3 DEF Write, Proposes
<1>4. CASE HintCapabilities(p)
  <2>1. CASE syn.caps = 0
    <3> DEFINE r == [syn EXCEPT !.caps = @ + 1]
    <3>1. Proposed(r) /\ Write(p, r)
      BY <1>4, <2>1 DEF HintCapabilities, AddCapability, Proposed
    <3>2. r.status = "capabilities"
      BY <1>1, <1>4 DEF Synthesis, HintCapabilities
    <3> QED BY <1>3, <3>1, <3>2
  <2>2. CASE syn.caps # 0
    <3> DEFINE r == [syn EXCEPT !.status = "exploring"]
    <3>1. Write(p, r) /\ syn.status = "capabilities" /\ syn.caps > 0
      BY <1>1, <1>4, <2>2 DEF HintCapabilities, Explore
    <3>2. Proposed(r)
      BY <3>1 DEF Proposed
    <3>3. r.status = "exploring"
      BY <1>1 DEF Synthesis
    <3> QED BY <1>3, <3>1, <3>2, <3>3
  <2> QED BY <2>1, <2>2
<1>5. CASE HintExploring(p)
  <2>1. CASE syn.total < MinOptions /\ AddOption(p)
    <3>1. PICK l \in Label, tag \in {0, 1} :
            /\ ~Has(syn, l) /\ syn.approaches + tag <= MinApproaches
            /\ Write(p, WithOption(syn, l, tag))
      BY <2>1 DEF AddOption
    <3> DEFINE r == WithOption(syn, l, tag)
    <3>2. syn.total < MaxOptions /\ syn.status = "exploring"
      BY <1>5, <2>1, ExploringHint DEF AddOption
    <3>3. Proposed(r)
      BY <2>1, <3>1, <3>2 DEF Proposed
    <3>4. r.status = "exploring"
      BY <1>1, <3>2 DEF Synthesis, WithOption
    <3> QED BY <1>3, <3>1, <3>3, <3>4
  <2>2. CASE syn.total >= MinOptions /\ syn.approaches < MinApproaches /\ TagApproach(p)
    <3> DEFINE r == [syn EXCEPT !.approaches = @ + 1]
    <3>1. Write(p, r) /\ syn.status = "exploring"
      BY <1>5, <2>2, ExploringHint DEF TagApproach
    <3>2. Proposed(r) /\ r.status = "exploring"
      BY <1>1, <2>2, <3>1 DEF Synthesis, Proposed
    <3> QED BY <1>3, <3>1, <3>2
  <2>3. CASE GatePassed /\ Synthesize(p, FALSE)
    <3>1. PICK o \in Orders(syn) : Write(p, Synthesized(syn, o))
      BY <2>3 DEF Synthesize
    <3>2. Proposed(Synthesized(syn, o))
      BY <1>5, <2>3, ExploringHint DEF Proposed
    <3>3. Synthesized(syn, o).status = "synthesized"
      BY <1>1 DEF Synthesis, Synthesized
    <3> QED BY <1>3, <3>1, <3>2, <3>3
  <2> QED BY <1>5, <2>1, <2>2, <2>3, ExploringHint
<1>6. CASE Review(p)
  <2> DEFINE r == [syn EXCEPT !.status = "reviewing"]
  <2>1. Proposed(r) /\ Write(p, r)
    BY <1>6 DEF Review, Proposed
  <2>2. r.status = "reviewing"
    BY <1>1 DEF Synthesis
  <2> QED BY <1>3, <2>1, <2>2
<1>7. ASSUME NEW i \in Open(syn), Address(p, i), syn.status \in {"reviewing", "feedback"}
      PROVE  \E s : Proposed(s) /\ Proposes(p, s)
  <2>1. Proposed(WithAddressed(syn, i))
    BY <1>7 DEF Proposed
  <2>2. WithAddressed(syn, i).status = syn.status
    BY <1>1 DEF Synthesis, WithAddressed
  <2> QED BY <1>3, <1>7, <2>1, <2>2 DEF Address
<1>8. CASE HintReviewing(p)
  <2>1. CASE Open(syn) = {}
    <3>1. /\ Begin(p, Approved(syn, 0), "approve") /\ UNCHANGED wireframe
          /\ accepted' = accepted \cup {syn.feedback[i].item : i \in Open(syn)}
      BY <1>8, <2>1 DEF HintReviewing, Approve
    <3>2. UNCHANGED accepted
      BY <2>1, <3>1
    <3>3. Proposed(Approved(syn, 0))
      BY <1>8, <2>1 DEF HintReviewing, Proposed
    <3>4. Approved(syn, 0).status = "approved"
      BY <1>1 DEF Synthesis, Approved
    <3> QED BY <3>1, <3>2, <3>3, <3>4 DEF Proposes
  <2>2. CASE Open(syn) # {}
    BY <1>7, <1>8, <2>2 DEF HintReviewing
  <2> QED BY <2>1, <2>2
<1>9. CASE HintFeedback(p)
  <2>1. CASE Open(syn) = {}
    <3> DEFINE r == [syn EXCEPT !.status = "exploring"]
    <3>1. Proposed(r) /\ Write(p, r)
      BY <1>9, <2>1 DEF HintFeedback, Iterate, Proposed
    <3>2. r.status = "exploring"
      BY <1>1 DEF Synthesis
    <3> QED BY <1>3, <3>1, <3>2
  <2>2. CASE Open(syn) # {}
    BY <1>7, <1>9, <2>2 DEF HintFeedback
  <2> QED BY <2>1, <2>2
<1> QED BY <1>2, <1>4, <1>5, <1>6, <1>8, <1>9 DEF Hinted

\* ... and to begin to save a proposal is what a hint says.
LEMMA ProposalsAreHinted ==
  ASSUME Inv, NEW p \in Proc, NEW r, Proposed(r), Proposes(p, r) PROVE Hinted(p)
<1>1. syn \in Synthesis /\ syn.total \in Nat /\ syn.caps \in Nat /\ syn.approaches \in Nat
  BY SynTypes
<1>2. UNCHANGED <<wireframe, accepted>>
  BY DEF Proposes
<1>3. r.status # "approved" => Begin(p, r, "save")
  BY DEF Proposes
<1>4. r.status # "approved" /\ Loaded => Write(p, r)
  BY <1>2, <1>3 DEF Write
<1>5. CASE syn.status = "torn" /\ \E linked \in BOOLEAN : r = NewSynthesis("capabilities", linked)
  <2>1. r.status = "capabilities"
    BY <1>5 DEF NewSynthesis
  <2> QED BY <1>2, <1>3, <1>5, <2>1 DEF Hinted, Restart, DiscoveryInit, Loaded
<1>6. CASE syn.status = "capabilities" /\ syn.caps = 0 /\ 0 < MaxCaps /\ r = [syn EXCEPT !.caps = @ + 1]
  <2>1. r.status = "capabilities"
    BY <1>1, <1>6 DEF Synthesis
  <2> QED BY <1>4, <1>6, <2>1 DEF Hinted, HintCapabilities, AddCapability, Loaded
<1>7. CASE /\ (syn.status = "capabilities" /\ syn.caps > 0) \/ (syn.status = "feedback" /\ Open(syn) = {})
           /\ r = [syn EXCEPT !.status = "exploring"]
  <2>1. r.status = "exploring"
    BY <1>1, <1>7 DEF Synthesis
  <2>2. Write(p, r)
    BY <1>4, <1>7, <2>1 DEF Loaded
  <2>3. CASE syn.status = "capabilities" /\ syn.caps > 0
    BY <1>1, <1>7, <2>2, <2>3 DEF Hinted, HintCapabilities, Explore
  <2>4. CASE syn.status = "feedback" /\ Open(syn) = {}
    BY <1>7, <2>2, <2>4 DEF Hinted, HintFeedback, Iterate
  <2> QED BY <1>7, <2>3, <2>4
<1>8. CASE /\ syn.status = "exploring" /\ syn.total < MinOptions /\ syn.total < MaxOptions
           /\ \E l \in Label, tag \in {0, 1} :
                ~Has(syn, l) /\ syn.approaches + tag <= MinApproaches /\ r = WithOption(syn, l, tag)
  <2>1. r.status = "exploring"
    BY <1>1, <1>8 DEF Synthesis, WithOption
  <2>2. AddOption(p)
    BY <1>4, <1>8, <2>1 DEF AddOption, Loaded
  <2> QED BY <1>8, <2>2, ExploringHint DEF Hinted
<1>9. CASE /\ syn.status = "exploring" /\ syn.total >= MinOptions /\ syn.approaches < MinApproaches
           /\ r = [syn EXCEPT !.approaches = @ + 1]
  <2>1. r.status = "exploring"
    BY <1>1, <1>9 DEF Synthesis
  <2>2. TagApproach(p)
    BY <1>4, <1>9, <2>1 DEF TagApproach, Loaded
  <2> QED BY <1>9, <2>2, ExploringHint DEF Hinted
<1>10. CASE syn.status = "exploring" /\ GatePassed /\ \E o \in Orders(syn) : r = Synthesized(syn, o)
  <2>1. r.status = "synthesized"
    BY <1>1, <1>10 DEF Synthesis, Synthesized
  <2>2. Synthesize(p, FALSE)
    BY <1>4, <1>10, <2>1 DEF Synthesize, Loaded
  <2> QED BY <1>10, <2>2, ExploringHint DEF Hinted
<1>11. CASE syn.status = "synthesized" /\ r = [syn EXCEPT !.status = "reviewing"]
  <2>1. r.status = "reviewing"
    BY <1>1, <1>11 DEF Synthesis
  <2> QED BY <1>4, <1>11, <2>1 DEF Hinted, Review, Loaded
<1>12. CASE syn.status \in {"reviewing", "feedback"} /\ \E i \in Open(syn) : r = WithAddressed(syn, i)
  <2>1. PICK i \in Open(syn) : r = WithAddressed(syn, i)
    BY <1>12
  <2>2. r.status = syn.status
    BY <1>1, <2>1 DEF Synthesis, WithAddressed
  <2>3. Address(p, i)
    BY <1>4, <1>12, <2>1, <2>2 DEF Address, Loaded
  <2> QED BY <1>12, <2>1, <2>3 DEF Hinted, HintReviewing, HintFeedback
<1>13. CASE syn.status = "reviewing" /\ Open(syn) = {} /\ r = Approved(syn, 0)
  <2>1. r.status = "approved"
    BY <1>1, <1>13 DEF Synthesis, Approved
  <2>2. Begin(p, r, "approve")
    BY <2>1 DEF Proposes
  <2>3. accepted' = accepted \cup {syn.feedback[i].item : i \in Open(syn)}
    BY <1>2, <1>13
  <2>4. Approve(p, 0)
    BY <1>2, <1>13, <2>2, <2>3 DEF Approve
  <2> QED BY <1>13, <2>4 DEF Hinted, HintReviewing
<1> QED BY <1>5, <1>6, <1>7, <1>8, <1>9, <1>10, <1>11, <1>12, <1>13 DEF Proposed

(* Until the approval the hints always propose something, and everything   *)
(* they propose is nearer to the approval: whoever is not disturbed gets   *)
(* there by hints alone, from any state, in as many as Distance says.      *)
THEOREM HintsNeverRunOut ==
  ASSUME MinOptions <= MaxOptions, 0 < MaxCaps
  PROVE  Spec => [](/\ Distance(syn) \in Nat
                    /\ syn.status \notin {"absent", "approved"} => \E r : Proposed(r)
                    /\ \A r : Proposed(r) => Distance(r) \in Nat /\ Distance(r) < Distance(syn))
<1>1. ASSUME Inv
      PROVE  /\ Distance(syn) \in Nat
             /\ syn.status \notin {"absent", "approved"} => \E r : Proposed(r)
             /\ \A r : Proposed(r) => Distance(r) \in Nat /\ Distance(r) < Distance(syn)
  BY <1>1, SynIsSynthesis, DistanceType, SomethingProposed, ProposalsAreNearer
<1> QED BY <1>1, Invariance, PTL

(* The proposals are what the hints do, neither more nor less: a process   *)
(* follows a hint exactly when it begins to save one of them.              *)
THEOREM HintsAreTheProposals ==
  Spec => [][\A p \in Proc : Hinted(p) <=> \E r : Proposed(r) /\ Proposes(p, r)]_vars
<1>1. ASSUME Inv, NEW p \in Proc PROVE Hinted(p) <=> \E r : Proposed(r) /\ Proposes(p, r)
  BY <1>1, HintsPropose, ProposalsAreHinted
<1>2. Inv => \A p \in Proc : Hinted(p) <=> \E r : Proposed(r) /\ Proposes(p, r)
  BY <1>1
<1> QED BY <1>2, Invariance, PTL
=============================================================================
