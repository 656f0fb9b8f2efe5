------------------------------ MODULE UxProofs ------------------------------
(***************************************************************************)
(* Ux, for any number of processes, goals, labels, packets and kills.  Each*)
(* command makes a sound record of a sound one; what is sound stays so as  *)
(* files are added; and whoever works alone works on what is in the store. *)
(***************************************************************************)
EXTENDS Ux, TLAPS

USE UxAssumption

(* What a record promises, as long as it was not rebuilt (u: by an update).*)
Promised(r, u) == u \/ r.criteria \subseteq Promises(r)

(* The mockups it lists are among the files F.                             *)
Drawn(r, F) == \A l \in Label : r.mockups[l] # "none" => <<l, r.mockups[l]>> \in F

(* A preflight left a packet (k: there is one).                            *)
Packed(r, k) == r.preflight => k

(* The gate of manifest m, unless the record was rebuilt (b).              *)
Vetted(r, m, b) ==
  m.ux = "web" /\ ~b =>
    /\ r.ux = "web" /\ r.hard = m.hard
    /\ r.claim = "plain" => r.preflight
    /\ r.claim = "forced" => ~m.hard

Sound(r, F, k, u, m, b) ==
  r \in Task /\ Promised(r, u) /\ Drawn(r, F) /\ Packed(r, k) /\ Vetted(r, m, b)

Packets == packet # 0 \/ archive # {}
Rebuilt == synced \/ updated

SoundHere(r) == Sound(r, files, Packets, updated, manifest, Rebuilt)

RestTypes ==
  /\ manifest \in [listed : BOOLEAN, ux : UxType, hard : BOOLEAN]
  /\ files \subseteq Label \X Fidelity
  /\ written \in 0 .. MaxPackets /\ packet \in 0 .. written /\ archive \subseteq 1 .. written
  /\ pc \in [Proc -> {"idle", "loaded", "enabled", "drawn", "archived", "packed", "linking", "override"}]
  /\ trouble \in 0 .. MaxTrouble
  /\ told \subseteq Goal
  /\ \A flag \in {overlapped, hasty, synced, updated, cut} : flag \in BOOLEAN

Records ==
  /\ DOMAIN mem = Proc /\ mem = [p \in Proc |-> mem[p]]
  /\ SoundHere(task)
  /\ \A p \in Proc :
       mem[p] \in Task /\ (pc[p] # "idle" => SoundHere(mem[p])) /\ (pc[p] = "packed" => Packets)

(* What holds as long as every process has worked alone.                   *)
OneAtATime == \A p, q \in Proc : pc[p] # "idle" /\ pc[q] # "idle" => p = q

SameHistory(r, s) == r.claim = s.claim /\ r.override = s.override /\ r.cases = s.cases
InStep == \A p \in Proc : pc[p] # "idle" => SameHistory(mem[p], task)

Audited ==
  task.claim = "forced" => task.override \/ cut \/ \E p \in Proc : pc[p] = "override"

Kept == ~Rebuilt => told \subseteq Range(task.cases)

Stored ==
  /\ ~hasty => 1 .. written = archive \cup ({packet} \ {0})
  /\ \A p \in Proc : pc[p] = "archived" => packet = 0

Alone == OneAtATime /\ InStep /\ Audited /\ Kept /\ Stored

Inv == RestTypes /\ Records /\ (~overlapped => Alone)
-----------------------------------------------------------------------------
(* The invariant gives the properties.                                     *)
LEMMA InvImplies ==
  Inv => TypeOK /\ CriteriaAreUseCases /\ UseCasesAreKept /\ MockupsHaveFiles /\ PacketsAreKept
           /\ ClaimsAreVetted
<1> SUFFICES ASSUME Inv PROVE TypeOK /\ CriteriaAreUseCases /\ UseCasesAreKept /\ MockupsHaveFiles
                                /\ PacketsAreKept /\ ClaimsAreVetted
  OBVIOUS
<1>1. TypeOK
  <2>1. mem \in [Proc -> Task] /\ task \in Task
    BY DEF Inv, Records, SoundHere, Sound
  <2>2. QED BY <2>1 DEF Inv, RestTypes, TypeOK
<1>2. CriteriaAreUseCases
  BY DEF Inv, Records, SoundHere, Sound, Promised, CriteriaAreUseCases
<1>3. UseCasesAreKept
  BY DEF Inv, Alone, Kept, Rebuilt, UseCasesAreKept
<1>4. MockupsHaveFiles
  BY DEF Inv, Records, SoundHere, Sound, Drawn, MockupsHaveFiles
<1>5. PacketsAreKept
  <2>1. task.preflight => packet # 0 \/ archive # {}
    BY DEF Inv, Records, SoundHere, Sound, Packed, Packets
  <2>2. ~(overlapped \/ hasty) => 1 .. written = archive \cup ({packet} \ {0})
    BY DEF Inv, Alone, Stored
  <2>3. QED BY <2>1, <2>2, Zenon DEF PacketsAreKept
<1>6. ClaimsAreVetted
  <2>1. manifest.ux = "web" /\ ~synced /\ ~updated =>
          /\ task.claim = "plain" => task.preflight
          /\ task.claim = "forced" => ~manifest.hard
    BY DEF Inv, Records, SoundHere, Sound, Vetted, Rebuilt
  <2>2. task.claim = "forced" /\ ~overlapped /\ ~cut /\ (\A p \in Proc : pc[p] # "override")
          => task.override
    BY DEF Inv, Alone, Audited
  <2>3. QED BY <2>1, <2>2, Zenon DEF ClaimsAreVetted
<1>7. QED BY <1>1, <1>2, <1>3, <1>4, <1>5, <1>6
-----------------------------------------------------------------------------
(* What a command makes of a sound record is sound.                        *)

(* A new task is sound, whatever its manifest, if nothing is asked of it.  *)
LEMMA NewIsSound ==
  ASSUME NEW ux \in UxType, NEW hard \in BOOLEAN, NEW F, NEW k, NEW u, NEW m, NEW b,
         m.ux = "web" /\ ~b => ux = "web" /\ hard = m.hard
  PROVE  Sound(NewTask(ux, hard), F, k, u, m, b)
<1> DEFINE n == NewTask(ux, hard)
<1>1. n \in Task
  <2>1. /\ <<>> \in Seq(Goal) /\ 0 \in 0 .. MaxOptions /\ 0 \in 0 .. Enforced + 1
        /\ {} \in SUBSET (Label \X Case) /\ {} \in SUBSET (Case \X Goal)
    BY DEF Enforced
  <2>2. [l \in Label |-> "none"] \in [Label -> Fidelity \cup {"none"}]
    OBVIOUS
  <2>3. QED BY <2>1, <2>2, Zenon DEF NewTask, Task, Status
<1>2. /\ n.criteria = {} /\ n.mockups = [l \in Label |-> "none"] /\ n.preflight = FALSE
      /\ n.ux = ux /\ n.hard = hard /\ n.claim = "no"
  BY DEF NewTask
<1> HIDE DEF n
<1>3. Promised(n, u) /\ Drawn(n, F) /\ Packed(n, k) /\ Vetted(n, m, b)
  BY <1>2 DEF Promised, Drawn, Packed, Vetted
<1>4. QED BY <1>1, <1>3 DEF n, Sound

(* More files, a packet and a rebuilding do no harm.                       *)
LEMMA MoreIsSound ==
  ASSUME NEW F, NEW G, F \subseteq G, NEW k, NEW k2, k => k2, NEW u, NEW u2, u => u2,
         NEW b, NEW b2, b => b2, NEW m, NEW r, Sound(r, F, k, u, m, b)
  PROVE  Sound(r, G, k2, u2, m, b2)
<1>1. Promised(r, u2)
  BY DEF Sound, Promised
<1>2. Drawn(r, G)
  BY DEF Sound, Drawn
<1>3. Packed(r, k2) /\ Vetted(r, m, b2)
  BY DEF Sound, Packed, Vetted
<1>4. QED BY <1>1, <1>2, <1>3 DEF Sound

(* Status, options, iterations, selection and coverage are not asked about.*)
LEMMA SameFieldsAreSound ==
  ASSUME NEW F, NEW k, NEW u, NEW m, NEW b, NEW r, Sound(r, F, k, u, m, b), NEW s \in Task,
         s.cases = r.cases, s.criteria = r.criteria, s.mockups = r.mockups,
         s.preflight = r.preflight, s.ux = r.ux, s.hard = r.hard, s.claim = r.claim
  PROVE  Sound(s, F, k, u, m, b)
<1>1. Promised(s, u)
  BY DEF Sound, Promised, Promises
<1>2. Drawn(s, F) /\ Packed(s, k) /\ Vetted(s, m, b)
  BY DEF Sound, Drawn, Packed, Vetted
<1>3. QED BY <1>1, <1>2 DEF Sound

LEMMA StartedIsSound ==
  ASSUME NEW F, NEW k, NEW u, NEW m, NEW b, NEW r, Sound(r, F, k, u, m, b)
  PROVE  Sound(Started(r), F, k, u, m, b) /\ SameHistory(Started(r), r)
<1> DEFINE n == [r EXCEPT !.status = "pending"]
<1>1. r \in Task
  BY DEF Sound
<1>2. /\ n \in Task
      /\ n.cases = r.cases /\ n.criteria = r.criteria /\ n.mockups = r.mockups
      /\ n.preflight = r.preflight /\ n.ux = r.ux /\ n.hard = r.hard /\ n.claim = r.claim
      /\ n.override = r.override
  BY <1>1 DEF Task, Status
<1> HIDE DEF n
<1>3. Sound(n, F, k, u, m, b)
  BY <1>2, SameFieldsAreSound
<1>4. QED BY <1>2, <1>3 DEF n, Started, SameHistory

(* Confirming and exploring set the status.                                *)
LEMMA ConfirmedIsSound ==
  ASSUME NEW F, NEW k, NEW u, NEW m, NEW b, NEW r, Sound(r, F, k, u, m, b)
  PROVE  Sound(Confirmed(r), F, k, u, m, b) /\ SameHistory(Confirmed(r), r)
<1> DEFINE n == Confirmed(r)
<1>1. r \in Task
  BY DEF Sound
<1>2. /\ n \in Task
      /\ n.cases = r.cases /\ n.criteria = r.criteria /\ n.mockups = r.mockups
      /\ n.preflight = r.preflight /\ n.ux = r.ux /\ n.hard = r.hard /\ n.claim = r.claim
      /\ n.override = r.override
  BY <1>1 DEF Task, Status, Confirmed
<1> HIDE DEF n
<1>3. Sound(n, F, k, u, m, b) /\ SameHistory(n, r)
  BY <1>2, SameFieldsAreSound DEF SameHistory
<1>4. QED BY <1>3 DEF n

(* The same of exploring.                                                  *)
LEMMA ExploredIsSound ==
  ASSUME NEW F, NEW k, NEW u, NEW m, NEW b, NEW r, Sound(r, F, k, u, m, b)
  PROVE  Sound(Explored(r), F, k, u, m, b) /\ SameHistory(Explored(r), r)
<1> DEFINE n == Explored(r)
<1>1. r \in Task
  BY DEF Sound
<1>2. /\ n \in Task
      /\ n.cases = r.cases /\ n.criteria = r.criteria /\ n.mockups = r.mockups
      /\ n.preflight = r.preflight /\ n.ux = r.ux /\ n.hard = r.hard /\ n.claim = r.claim
      /\ n.override = r.override
  BY <1>1 DEF Task, Status, Explored
<1> HIDE DEF n
<1>3. Sound(n, F, k, u, m, b) /\ SameHistory(n, r)
  BY <1>2, SameFieldsAreSound DEF SameHistory
<1>4. QED BY <1>3 DEF n

(* A further option.                                                       *)
LEMMA OptionIsSound ==
  ASSUME NEW F, NEW k, NEW u, NEW m, NEW b, NEW r, Sound(r, F, k, u, m, b), r.options < MaxOptions
  PROVE  Sound(WithOption(r), F, k, u, m, b) /\ SameHistory(WithOption(r), r)
<1> DEFINE n == WithOption(r)
<1>1. r \in Task
  BY DEF Sound
<1>2. /\ n \in Task
      /\ n.cases = r.cases /\ n.criteria = r.criteria /\ n.mockups = r.mockups
      /\ n.preflight = r.preflight /\ n.ux = r.ux /\ n.hard = r.hard /\ n.claim = r.claim
      /\ n.override = r.override
  <2>1. r.options \in 0 .. MaxOptions
    BY <1>1 DEF Task
  <2>2. r.options + 1 \in 0 .. MaxOptions
    BY <2>1
  <2>3. QED BY <1>1, <2>2 DEF Task, WithOption
<1> HIDE DEF n
<1>3. Sound(n, F, k, u, m, b) /\ SameHistory(n, r)
  BY <1>2, SameFieldsAreSound DEF SameHistory
<1>4. QED BY <1>3 DEF n

(* An iteration.                                                           *)
LEMMA IteratedIsSound ==
  ASSUME NEW F, NEW k, NEW u, NEW m, NEW b, NEW r, Sound(r, F, k, u, m, b), r.iterations <= Enforced
  PROVE  Sound(Iterated(r), F, k, u, m, b) /\ SameHistory(Iterated(r), r)
<1> DEFINE n == Iterated(r)
<1>1. r \in Task
  BY DEF Sound
<1>2. /\ n \in Task
      /\ n.cases = r.cases /\ n.criteria = r.criteria /\ n.mockups = r.mockups
      /\ n.preflight = r.preflight /\ n.ux = r.ux /\ n.hard = r.hard /\ n.claim = r.claim
      /\ n.override = r.override
  <2>1. r.iterations \in 0 .. Enforced + 1 /\ Enforced \in Nat /\ 0 \in 0 .. MaxOptions
    BY <1>1 DEF Task, Enforced
  <2>2. r.iterations + 1 \in 0 .. Enforced + 1
    BY <2>1
  <2> DEFINE x == [[r EXCEPT !.iterations = r.iterations + 1] EXCEPT !.status = "escalate"]
             y == [[[r EXCEPT !.iterations = r.iterations + 1] EXCEPT !.status = "cases"] EXCEPT !.options = 0]
  <2>3. n = x \/ n = y
    BY <1>1 DEF Iterated, Task
  <2>4. /\ x \in Task
        /\ x.cases = r.cases /\ x.criteria = r.criteria /\ x.mockups = r.mockups
        /\ x.preflight = r.preflight /\ x.ux = r.ux /\ x.hard = r.hard /\ x.claim = r.claim
        /\ x.override = r.override
    BY <1>1, <2>2 DEF Task, Status
  <2>5. /\ y \in Task
        /\ y.cases = r.cases /\ y.criteria = r.criteria /\ y.mockups = r.mockups
        /\ y.preflight = r.preflight /\ y.ux = r.ux /\ y.hard = r.hard /\ y.claim = r.claim
        /\ y.override = r.override
    BY <1>1, <2>1, <2>2 DEF Task, Status
  <2> HIDE DEF x, y, n
  <2>6. QED BY <2>3, <2>4, <2>5
<1> HIDE DEF n
<1>3. Sound(n, F, k, u, m, b) /\ SameHistory(n, r)
  BY <1>2, SameFieldsAreSound DEF SameHistory
<1>4. QED BY <1>3 DEF n

(* Coverage.                                                               *)
LEMMA CoveredIsSound ==
  ASSUME NEW F, NEW k, NEW u, NEW m, NEW b, NEW r, Sound(r, F, k, u, m, b), NEW l \in Label, NEW C,
         C \in {1 .. Len(r.cases)} \cup {{c} : c \in 1 .. Len(r.cases)}
  PROVE  Sound(Covered(r, l, C), F, k, u, m, b) /\ SameHistory(Covered(r, l, C), r)
<1> DEFINE n == Covered(r, l, C)
<1>1. r \in Task
  BY DEF Sound
<1>2. /\ n \in Task
      /\ n.cases = r.cases /\ n.criteria = r.criteria /\ n.mockups = r.mockups
      /\ n.preflight = r.preflight /\ n.ux = r.ux /\ n.hard = r.hard /\ n.claim = r.claim
      /\ n.override = r.override
  <2>1. r.cases \in Seq(Goal) /\ r.coverage \subseteq Label \X Case
    BY <1>1 DEF Task
  <2>2. C \subseteq Case
    BY <2>1 DEF Case
  <2>3. r.coverage \cup ({l} \X C) \in SUBSET (Label \X Case)
    BY <2>1, <2>2
  <2> HIDE DEF Label, Case
  <2>4. QED BY <1>1, <2>3 DEF Task, Covered
<1> HIDE DEF n
<1>3. Sound(n, F, k, u, m, b) /\ SameHistory(n, r)
  BY <1>2, SameFieldsAreSound DEF SameHistory
<1>4. QED BY <1>3 DEF n

(* More use cases: those there were keep their numbers.                    *)
LEMMA AppendedIsSound ==
  ASSUME NEW F, NEW k, NEW u, NEW m, NEW b, NEW r, Sound(r, F, k, u, m, b),
         NEW gs \in Seq(Goal), NEW s \in Task, s.cases = r.cases \o gs,
         s.criteria = r.criteria, s.mockups = r.mockups, s.preflight = r.preflight,
         s.ux = r.ux, s.hard = r.hard, s.claim = r.claim
  PROVE  Sound(s, F, k, u, m, b)
<1>1. r \in Task /\ r.cases \in Seq(Goal)
  BY DEF Sound, Task
<1>2. Promises(r) \subseteq Promises(s)
  <2>1. /\ Len(r.cases) \in Nat /\ Len(s.cases) \in Nat /\ Len(s.cases) >= Len(r.cases)
        /\ \A i \in 1 .. Len(r.cases) : s.cases[i] = r.cases[i]
    BY <1>1
  <2>2. \A i \in 1 .. Len(r.cases) : i \in 1 .. Len(s.cases)
    BY <2>1
  <2>3. ASSUME NEW c \in Promises(r) PROVE c \in Promises(s)
    <3>1. PICK i \in 1 .. Len(r.cases) : c = <<i, r.cases[i]>>
      BY DEF Promises
    <3>2. i \in 1 .. Len(s.cases) /\ c = <<i, s.cases[i]>>
      BY <2>1, <2>2, <3>1
    <3>3. QED BY <3>2, Zenon DEF Promises
  <2>4. QED BY <2>3
<1>3. Promised(s, u)
  BY <1>2 DEF Sound, Promised
<1>4. Drawn(s, F) /\ Packed(s, k) /\ Vetted(s, m, b)
  BY DEF Sound, Drawn, Packed, Vetted
<1>5. QED BY <1>3, <1>4 DEF Sound

LEMMA CaseIsSound ==
  ASSUME NEW F, NEW k, NEW u, NEW m, NEW b, NEW r, Sound(r, F, k, u, m, b), NEW g \in Goal
  PROVE  Sound(WithCase(r, g), F, k, u, m, b)
<1> DEFINE t == Started(r)
           n == WithCase(r, g)
<1>1. Sound(t, F, k, u, m, b)
  BY StartedIsSound
<1>2. t \in Task /\ t.cases \in Seq(Goal)
  BY <1>1 DEF Sound, Task
<1> HIDE DEF t
<1>3. /\ <<g>> \in Seq(Goal) /\ Append(t.cases, g) = t.cases \o <<g>>
      /\ Append(t.cases, g) \in Seq(Goal)
  BY <1>2
<1>4. n = [t EXCEPT !.cases = Append(t.cases, g)]
  BY <1>2 DEF WithCase, t, Task
<1> HIDE DEF n
<1>5. /\ n \in Task /\ n.cases = t.cases \o <<g>>
      /\ n.criteria = t.criteria /\ n.mockups = t.mockups
      /\ n.preflight = t.preflight /\ n.ux = t.ux /\ n.hard = t.hard /\ n.claim = t.claim
  BY <1>2, <1>3, <1>4 DEF Task
<1>6. Sound(n, F, k, u, m, b)
  BY <1>1, <1>3, <1>5, AppendedIsSound
<1>7. QED BY <1>6 DEF n

LEMMA DiscoveredIsSound ==
  ASSUME NEW F, NEW k, NEW u, NEW m, NEW b, NEW r, Sound(r, F, k, u, m, b), NEW gs \in Seq(Goal)
  PROVE  Sound(Discovered(r, gs), F, k, u, m, b)
<1> DEFINE t == Started(r)
           n == Discovered(r, gs)
<1>1. Sound(t, F, k, u, m, b)
  BY StartedIsSound
<1>2. t \in Task /\ t.cases \in Seq(Goal)
  BY <1>1 DEF Sound, Task
<1> HIDE DEF t
<1>3. t.cases \o gs \in Seq(Goal)
  BY <1>2
<1>4. n = [[t EXCEPT !.cases = t.cases \o gs] EXCEPT !.status = "cases"]
  BY <1>2 DEF Discovered, t, Task
<1> HIDE DEF n
<1>5. /\ n \in Task /\ n.cases = t.cases \o gs
      /\ n.criteria = t.criteria /\ n.mockups = t.mockups
      /\ n.preflight = t.preflight /\ n.ux = t.ux /\ n.hard = t.hard /\ n.claim = t.claim
  BY <1>2, <1>3, <1>4 DEF Task, Status
<1>6. Sound(n, F, k, u, m, b)
  BY <1>1, <1>5, AppendedIsSound
<1>7. QED BY <1>6 DEF n

(* What a selection adds to the criteria are promises.                     *)
LEMMA SelectedIsSound ==
  ASSUME NEW F, NEW k, NEW u, NEW m, NEW b, NEW r, Sound(r, F, k, u, m, b), NEW l \in Label
  PROVE  Sound(Selected(r, l), F, k, u, m, b) /\ SameHistory(Selected(r, l), r)
<1> DEFINE n == Selected(r, l)
           c == r.criteria \cup Promises(r)
<1>1. r \in Task /\ r.cases \in Seq(Goal) /\ r.criteria \in SUBSET (Case \X Goal)
  BY DEF Sound, Task
<1>2. Promises(r) \in SUBSET (Case \X Goal)
  <2>1. \A i \in 1 .. Len(r.cases) : i \in Case /\ r.cases[i] \in Goal
    BY <1>1 DEF Case
  <2>2. ASSUME NEW x \in Promises(r) PROVE x \in Case \X Goal
    <3>1. PICK i \in 1 .. Len(r.cases) : x = <<i, r.cases[i]>>
      BY DEF Promises
    <3>2. QED BY <2>1, <3>1
  <2>3. QED BY <2>2
<1>3. c \in SUBSET (Case \X Goal) /\ l \in 0 .. MaxOptions
  BY <1>1, <1>2 DEF Label
<1>4. n = [[[r EXCEPT !.selection = l] EXCEPT !.status = "selected"] EXCEPT !.criteria = c]
  BY <1>1 DEF Selected, Task
<1> HIDE DEF n, c
<1>5. /\ n \in Task /\ n.criteria = c
      /\ n.cases = r.cases /\ n.mockups = r.mockups /\ n.preflight = r.preflight
      /\ n.ux = r.ux /\ n.hard = r.hard /\ n.claim = r.claim /\ n.override = r.override
  BY <1>1, <1>3, <1>4 DEF Task, Status
<1>6. Promised(n, u)
  BY <1>5 DEF Sound, Promised, Promises, c
<1>7. Drawn(n, F) /\ Packed(n, k) /\ Vetted(n, m, b) /\ SameHistory(n, r)
  BY <1>5 DEF Sound, Drawn, Packed, Vetted, SameHistory
<1>8. QED BY <1>5, <1>6, <1>7 DEF n, Sound

(* A mockup listed after its file was written.                             *)
LEMMA ListedIsSound ==
  ASSUME NEW F, NEW k, NEW u, NEW m, NEW b, NEW r, Sound(r, F, k, u, m, b),
         NEW l \in Label, NEW f \in Fidelity \cup {"none"}, NEW G,
         F \cup {<<l, f>>} \subseteq G,
         NEW s \in Task, s.mockups = [r.mockups EXCEPT ![l] = f],
         s.cases = r.cases, s.criteria = r.criteria, s.preflight = r.preflight,
         s.ux = r.ux, s.hard = r.hard, s.claim = r.claim
  PROVE  Sound(s, G, k, u, m, b)
<1>1. r.mockups \in [Label -> Fidelity \cup {"none"}]
  BY DEF Sound, Task
<1>2. Drawn(s, G)
  BY <1>1 DEF Sound, Drawn
<1>3. Promised(s, u)
  BY DEF Sound, Promised, Promises
<1>4. Packed(s, k) /\ Vetted(s, m, b)
  BY DEF Sound, Packed, Vetted
<1>5. QED BY <1>2, <1>3, <1>4 DEF Sound

LEMMA MockupIsSound ==
  ASSUME NEW F, NEW k, NEW u, NEW m, NEW b, NEW r, Sound(r, F, k, u, m, b), NEW l \in Label
  PROVE  Sound(WithMockup(r, l), F \cup {<<l, "ascii">>}, k, u, m, b) /\ SameHistory(WithMockup(r, l), r)
<1> DEFINE t == Started(r)
           f == IF t.mockups[l] = "none" THEN "ascii" ELSE t.mockups[l]
           n == WithMockup(r, l)
<1>1. Sound(t, F, k, u, m, b) /\ SameHistory(t, r)
  BY StartedIsSound
<1>2. t \in Task /\ t.mockups \in [Label -> Fidelity \cup {"none"}]
  BY <1>1 DEF Sound, Task
<1> HIDE DEF t
<1>3. f \in Fidelity \cup {"none"}
  BY <1>2 DEF Fidelity
<1>4. F \cup {<<l, f>>} \subseteq F \cup {<<l, "ascii">>}
  BY <1>1, <1>2 DEF Sound, Drawn
<1>5. n = [t EXCEPT !.mockups = [t.mockups EXCEPT ![l] = f]]
  BY <1>2 DEF WithMockup, t, Task
<1> HIDE DEF n, f
<1>6. [t.mockups EXCEPT ![l] = f] \in [Label -> Fidelity \cup {"none"}]
  BY <1>2, <1>3
<1>7. /\ n \in Task /\ n.mockups = [t.mockups EXCEPT ![l] = f]
      /\ n.cases = t.cases /\ n.criteria = t.criteria /\ n.preflight = t.preflight
      /\ n.ux = t.ux /\ n.hard = t.hard /\ n.claim = t.claim /\ n.override = t.override
  BY <1>2, <1>5, <1>6 DEF Task
<1>8. Sound(n, F \cup {<<l, "ascii">>}, k, u, m, b)
  BY <1>1, <1>3, <1>4, <1>7, ListedIsSound
<1>9. QED BY <1>1, <1>7, <1>8 DEF n, SameHistory

LEMMA UpgradedIsSound ==
  ASSUME NEW F, NEW k, NEW u, NEW m, NEW b, NEW r, Sound(r, F, k, u, m, b), NEW l \in Label, NEW f \in {"html", "styled"}
  PROVE  Sound(Upgraded(r, l, f), F \cup {<<l, f>>}, k, u, m, b) /\ SameHistory(Upgraded(r, l, f), r)
<1> DEFINE n == Upgraded(r, l, f)
<1>1. r \in Task /\ r.mockups \in [Label -> Fidelity \cup {"none"}]
  BY DEF Sound, Task
<1>2. n = [r EXCEPT !.mockups = [r.mockups EXCEPT ![l] = f]]
  BY <1>1 DEF Upgraded, Task
<1> HIDE DEF n
<1>3. f \in Fidelity \cup {"none"} /\ [r.mockups EXCEPT ![l] = f] \in [Label -> Fidelity \cup {"none"}]
  BY <1>1 DEF Fidelity
<1>4. /\ n \in Task /\ n.mockups = [r.mockups EXCEPT ![l] = f]
      /\ n.cases = r.cases /\ n.criteria = r.criteria /\ n.preflight = r.preflight
      /\ n.ux = r.ux /\ n.hard = r.hard /\ n.claim = r.claim /\ n.override = r.override
  BY <1>1, <1>2, <1>3 DEF Task
<1>5. Sound(n, F \cup {<<l, f>>}, k, u, m, b)
  BY <1>3, <1>4, ListedIsSound
<1>6. QED BY <1>4, <1>5 DEF n, SameHistory

(* A task is marked when there is a packet.                                *)
LEMMA PreflightedIsSound ==
  ASSUME NEW F, NEW k, NEW u, NEW m, NEW b, NEW r, Sound(r, F, k, u, m, b)
  PROVE  Sound(Preflighted(r), F, TRUE, u, m, b) /\ SameHistory(Preflighted(r), r)
<1> DEFINE t == Started(r)
           n == Preflighted(r)
<1>1. Sound(t, F, k, u, m, b) /\ SameHistory(t, r)
  BY StartedIsSound
<1>2. t \in Task
  BY <1>1 DEF Sound
<1> HIDE DEF t
<1>3. /\ n \in Task /\ n.preflight = TRUE /\ n.mockups = t.mockups
      /\ n.cases = t.cases /\ n.criteria = t.criteria
      /\ n.ux = t.ux /\ n.hard = t.hard /\ n.claim = t.claim /\ n.override = t.override
  BY <1>2 DEF Task, Preflighted, t
<1> HIDE DEF n
<1>4. Promised(n, u)
  BY <1>1, <1>3 DEF Sound, Promised, Promises
<1>5. Drawn(n, F) /\ Packed(n, TRUE) /\ Vetted(n, m, b)
  BY <1>1, <1>3 DEF Sound, Drawn, Packed, Vetted
<1>6. QED BY <1>1, <1>3, <1>4, <1>5 DEF n, Sound, SameHistory

(* UX is enabled where the manifest did not ask for it.                    *)
LEMMA EnabledIsSound ==
  ASSUME NEW F, NEW k, NEW u, NEW m, NEW b, NEW r, Sound(r, F, k, u, m, b), NEW type \in UxType, r.ux = "none"
  PROVE  Sound(Enabled(r, type), F, k, u, m, b) /\ SameHistory(Enabled(r, type), r)
<1> DEFINE n == Enabled(r, type)
<1>1. r \in Task
  BY DEF Sound
<1>2. /\ n \in Task
      /\ n.cases = r.cases /\ n.criteria = r.criteria /\ n.mockups = r.mockups
      /\ n.preflight = r.preflight /\ n.hard = r.hard /\ n.claim = r.claim
      /\ n.override = r.override
  BY <1>1 DEF Task, Enabled
<1> HIDE DEF n
<1>3. Promised(n, u)
  BY <1>2 DEF Sound, Promised, Promises
<1>4. Drawn(n, F) /\ Packed(n, k) /\ Vetted(n, m, b)
  BY <1>2 DEF Sound, Drawn, Packed, Vetted
<1>5. QED BY <1>2, <1>3, <1>4 DEF n, Sound, SameHistory

(* A claim that passes the gate, or overrides it where that is allowed.    *)
LEMMA ClaimedIsSound ==
  ASSUME NEW F, NEW k, NEW u, NEW m, NEW b, NEW r, Sound(r, F, k, u, m, b), NEW how \in {"plain", "forced"},
         how = "plain" => ~PreflightMissing(r), how = "forced" => ~r.hard
  PROVE  /\ Sound(Claimed(r, how), F, k, u, m, b)
         /\ Claimed(r, how).claim = how /\ Claimed(r, how).cases = r.cases
         /\ Claimed(r, how).override = r.override
<1> DEFINE n == Claimed(r, how)
<1>1. r \in Task
  BY DEF Sound
<1>2. /\ n \in Task /\ n.claim = how
      /\ n.cases = r.cases /\ n.criteria = r.criteria /\ n.mockups = r.mockups
      /\ n.preflight = r.preflight /\ n.ux = r.ux /\ n.hard = r.hard
      /\ n.override = r.override
  BY <1>1 DEF Task, Claimed
<1> HIDE DEF n
<1>3. Promised(n, u)
  BY <1>2 DEF Sound, Promised, Promises
<1>4. Drawn(n, F) /\ Packed(n, k) /\ Vetted(n, m, b)
  BY <1>2 DEF Sound, Drawn, Packed, Vetted, PreflightMissing
<1>5. QED BY <1>2, <1>3, <1>4 DEF n, Sound

LEMMA OverrideIsSound ==
  ASSUME NEW F, NEW k, NEW u, NEW m, NEW b, NEW r, Sound(r, F, k, u, m, b)
  PROVE  /\ Sound([r EXCEPT !.override = TRUE], F, k, u, m, b)
         /\ [r EXCEPT !.override = TRUE].cases = r.cases
         /\ [r EXCEPT !.override = TRUE].override
<1> DEFINE n == [r EXCEPT !.override = TRUE]
<1>1. r \in Task
  BY DEF Sound
<1>2. /\ n \in Task /\ n.claim = r.claim
      /\ n.cases = r.cases /\ n.criteria = r.criteria /\ n.mockups = r.mockups
      /\ n.preflight = r.preflight /\ n.ux = r.ux /\ n.hard = r.hard
      /\ n.override = TRUE
  BY <1>1 DEF Task
<1> HIDE DEF n
<1>3. Sound(n, F, k, u, m, b)
  BY <1>2, SameFieldsAreSound
<1>4. QED BY <1>2, <1>3 DEF n

(* A rebuilt record promises what its manifest makes it promise: nothing.  *)
LEMMA FreshIsTask ==
  ASSUME NEW r \in Task, NEW ux \in UxType, NEW hard \in BOOLEAN
  PROVE  /\ Fresh(r, ux, hard) \in Task
         /\ Fresh(r, ux, hard).mockups = [l \in Label |-> "none"]
         /\ Fresh(r, ux, hard).preflight = FALSE
         /\ Fresh(r, ux, hard).claim = r.claim /\ Fresh(r, ux, hard).override = r.override
<1> DEFINE t == NewTask(ux, hard)
           n == [t EXCEPT !.criteria = r.criteria, !.claim = r.claim, !.override = r.override]
<1>1. t \in Task
  <2>1. Sound(t, {}, FALSE, FALSE, [ux |-> ux, hard |-> hard], FALSE)
    BY NewIsSound
  <2>2. QED BY <2>1 DEF Sound
<1>2. t.mockups = [l \in Label |-> "none"] /\ t.preflight = FALSE
  BY DEF NewTask
<1> HIDE DEF t
<1>3. /\ n \in Task /\ n.mockups = t.mockups /\ n.preflight = t.preflight
      /\ n.claim = r.claim /\ n.override = r.override
  BY <1>1 DEF Task
<1>4. Fresh(r, ux, hard) = n
  BY DEF Fresh, t
<1> HIDE DEF n
<1>5. QED BY <1>2, <1>3, <1>4

LEMMA RebuildingKeepsTheClaim ==
  ASSUME NEW r \in Task, RestTypes
  PROVE  /\ RebuiltByUpdate(r).claim = r.claim /\ RebuiltByUpdate(r).override = r.override
         /\ RebuiltBySync(r).claim = r.claim /\ RebuiltBySync(r).override = r.override
<1> DEFINE t == Fresh(r, manifest.ux, manifest.hard)
<1>1. t \in Task /\ t.claim = r.claim /\ t.override = r.override
  <2>1. manifest.ux \in UxType /\ manifest.hard \in BOOLEAN
    BY DEF RestTypes
  <2>2. QED BY <2>1, FreshIsTask
<1>2. RebuiltBySync(r) = [t EXCEPT !.criteria = {}]
  BY DEF RebuiltBySync
<1> HIDE DEF t
<1>3. RebuiltBySync(r).claim = r.claim /\ RebuiltBySync(r).override = r.override
  BY <1>1, <1>2 DEF Task
<1>4. r.hard \in BOOLEAN /\ "none" \in UxType
  BY DEF Task, UxType
<1>5. QED BY <1>3, <1>4, FreshIsTask DEF RebuiltByUpdate

LEMMA UpdatedIsSound ==
  ASSUME NEW F, NEW k, NEW u, NEW m, NEW b, NEW r, Sound(r, F, k, u, m, b)
  PROVE  Sound(RebuiltByUpdate(r), F, k, TRUE, m, TRUE)
<1> DEFINE n == RebuiltByUpdate(r)
<1>1. /\ n \in Task /\ n.mockups = [l \in Label |-> "none"] /\ n.preflight = FALSE
      /\ n.claim = r.claim /\ n.override = r.override
  <2>1. r \in Task /\ r.hard \in BOOLEAN /\ "none" \in UxType
    BY DEF Sound, Task, UxType
  <2>2. QED BY <2>1, FreshIsTask DEF RebuiltByUpdate
<1> HIDE DEF n
<1>2. Promised(n, TRUE) /\ Drawn(n, F) /\ Packed(n, k) /\ Vetted(n, m, TRUE)
  BY <1>1 DEF Promised, Drawn, Packed, Vetted
<1>3. QED BY <1>1, <1>2 DEF n, Sound

LEMMA SyncedIsSound ==
  ASSUME NEW F, NEW k, NEW u, NEW m, NEW b, NEW r, Sound(r, F, k, u, m, b), RestTypes
  PROVE  Sound(RebuiltBySync(r), F, k, u, m, TRUE)
<1> DEFINE t == Fresh(r, manifest.ux, manifest.hard)
           n == RebuiltBySync(r)
<1>1. /\ t \in Task /\ t.mockups = [l \in Label |-> "none"] /\ t.preflight = FALSE
      /\ t.claim = r.claim /\ t.override = r.override
  <2>1. r \in Task /\ manifest.ux \in UxType /\ manifest.hard \in BOOLEAN
    BY DEF Sound, RestTypes
  <2>2. QED BY <2>1, FreshIsTask
<1>2. n = [t EXCEPT !.criteria = {}]
  BY DEF RebuiltBySync
<1> HIDE DEF t, n
<1>3. /\ n \in Task /\ n.mockups = [l \in Label |-> "none"] /\ n.preflight = FALSE
      /\ n.claim = r.claim /\ n.override = r.override /\ n.criteria = {}
  BY <1>1, <1>2 DEF Task
<1>4. Promised(n, u) /\ Drawn(n, F) /\ Packed(n, k) /\ Vetted(n, m, TRUE)
  BY <1>3 DEF Promised, Drawn, Packed, Vetted
<1>5. QED BY <1>3, <1>4 DEF n, Sound
-----------------------------------------------------------------------------
(* What every step has to show of the records, and of those who work alone.*)

SoundNext(r) == Sound(r, files', Packets', updated', manifest', Rebuilt')

\* Files and packets only come, a rebuilding stays one.
Grows ==
  /\ manifest' = manifest /\ files \subseteq files' /\ (Packets => Packets')
  /\ (updated => updated') /\ (Rebuilt => Rebuilt')

LEMMA StillSound ==
  ASSUME Grows, NEW r, SoundHere(r)
  PROVE  SoundNext(r)
<1>1. Sound(r, files', Packets', updated', manifest, Rebuilt')
  BY MoreIsSound DEF Grows, SoundHere
<1>2. QED BY <1>1 DEF SoundNext, Grows

\* One copy, and perhaps the store, is replaced by a sound record.
LEMMA RecordsKept ==
  ASSUME Records, RestTypes, Grows, NEW p \in Proc, NEW r \in Task, NEW step,
         pc' = [pc EXCEPT ![p] = step], mem' = [mem EXCEPT ![p] = r],
         step # "idle" => SoundNext(r), step = "packed" => Packets',
         SoundNext(task')
  PROVE  Records'
<1>1. /\ DOMAIN mem' = Proc /\ mem' = [q \in Proc |-> mem'[q]]
      /\ mem'[p] = r /\ \A q \in Proc \ {p} : mem'[q] = mem[q]
  BY DEF Records
<1>2. pc'[p] = step /\ \A q \in Proc \ {p} : pc'[q] = pc[q]
  BY DEF RestTypes
<1>3. ASSUME NEW q \in Proc
      PROVE  mem'[q] \in Task /\ (pc'[q] # "idle" => SoundNext(mem'[q])) /\ (pc'[q] = "packed" => Packets')
  <2>1. CASE q = p
    BY <2>1, <1>1, <1>2
  <2>2. CASE q # p
    <3>1. mem[q] \in Task /\ (pc[q] # "idle" => SoundHere(mem[q])) /\ (pc[q] = "packed" => Packets')
      BY DEF Records, Grows
    <3>2. pc[q] # "idle" => SoundNext(mem[q])
      BY <3>1, StillSound
    <3>3. QED BY <3>1, <3>2, <2>2, <1>1, <1>2
  <2>3. QED BY <2>1, <2>2
<1>4. QED BY <1>1, <1>3 DEF Records, SoundNext, SoundHere

LEMMA NothingIsTask == Nothing \in Task /\ Nothing.claim = "no"
<1>1. Sound(NewTask("none", FALSE), {}, FALSE, FALSE, [ux |-> "none", hard |-> FALSE], FALSE)
  BY NewIsSound DEF UxType
<1>2. NewTask("none", FALSE).claim = "no"
  BY DEF NewTask
<1>3. QED BY <1>1, <1>2 DEF Sound, Nothing

(* A command ends with a save of r.                                        *)
LEMMA SavesKeepsInv ==
  ASSUME Inv, NEW p \in Proc, NEW r, Saves(p, r), pc[p] # "idle",
         updated' \in BOOLEAN, synced' \in BOOLEAN, updated => updated', synced => synced',
         told' \subseteq Goal,
         Sound(r, files, Packets, updated', manifest, Rebuilt'),
         ~overlapped /\ r.claim = "forced" => r.override \/ cut,
         ~overlapped /\ ~Rebuilt' => told' \subseteq Range(r.cases)
  PROVE  Inv'
<1>1. RestTypes'
  BY DEF Inv, RestTypes, Saves, Leaves, disk
<1>2. Grows /\ SoundNext(task')
  <2>1. /\ UNCHANGED <<manifest, files, packet, archive>> /\ task' = r
    BY DEF Saves, disk
  <2>2. Packets' = Packets /\ (Rebuilt => Rebuilt')
    BY <2>1 DEF Packets, Rebuilt
  <2>3. QED BY <2>1, <2>2 DEF Grows, SoundNext
<1>3. Records'
  <2>1. pc' = [pc EXCEPT ![p] = "idle"] /\ mem' = [mem EXCEPT ![p] = Nothing]
    BY DEF Saves, Leaves
  <2>2. Records /\ RestTypes /\ Nothing \in Task
    BY NothingIsTask DEF Inv
  <2>3. ("idle" # "idle" => SoundNext(Nothing)) /\ ("idle" = "packed" => Packets')
    OBVIOUS
  <2>4. QED BY <1>2, <2>1, <2>2, <2>3, RecordsKept, Zenon
<1>4. ASSUME ~overlapped' PROVE Alone'
  <2>1. ~overlapped /\ Alone /\ UNCHANGED <<overlapped, hasty, cut, written, packet, archive>> /\ task' = r
    BY <1>4 DEF Saves, Inv, disk
  <2>2. \A q \in Proc : pc'[q] = "idle"
    BY <2>1 DEF Alone, OneAtATime, Saves, Leaves, Inv, RestTypes
  <2>3. OneAtATime' /\ InStep'
    BY <2>2 DEF OneAtATime, InStep
  <2>4. Audited'
    BY <2>1, <2>2 DEF Audited
  <2>5. Kept'
    BY <2>1 DEF Kept
  <2>6. Stored'
    BY <2>1, <2>2 DEF Stored, Alone
  <2>7. QED BY <2>3, <2>4, <2>5, <2>6 DEF Alone
<1>5. QED BY <1>1, <1>3, <1>4 DEF Inv

(* Most commands leave the history of the task as they found it.           *)
LEMMA EndsKeepsInv ==
  ASSUME Inv, NEW p \in Proc, NEW r, Ends(p, r), pc[p] # "idle", SoundHere(r),
         r.cases = mem[p].cases, r.claim = "forced" => r.override \/ (mem[p].claim = "forced" /\ r.override = mem[p].override /\ pc[p] # "override")
  PROVE  Inv'
<1>1. UNCHANGED <<told, synced, updated>> /\ Saves(p, r)
  BY DEF Ends, rebuilds
<1>2. ASSUME ~overlapped PROVE OneAtATime /\ SameHistory(mem[p], task) /\ Audited /\ Kept
  BY <1>2 DEF Inv, Alone, InStep
<1>3. ASSUME ~overlapped, r.claim = "forced" PROVE r.override \/ cut
  <2>1. CASE r.override
    BY <2>1
  <2>2. CASE mem[p].claim = "forced" /\ r.override = mem[p].override /\ pc[p] # "override"
    <3>1. task.claim = "forced" /\ task.override = mem[p].override
      BY <1>2, <1>3, <2>2 DEF SameHistory
    <3>2. \A q \in Proc : pc[q] # "override"
      BY <1>2, <1>3, <2>2 DEF OneAtATime
    <3>3. QED BY <1>2, <1>3, <3>1, <3>2, <2>2 DEF Audited
  <2>3. QED BY <1>3, <2>1, <2>2
<1>4. ASSUME ~overlapped, ~Rebuilt' PROVE told' \subseteq Range(r.cases)
  BY <1>1, <1>2, <1>4 DEF Kept, SameHistory, Rebuilt
<1>5. /\ updated' \in BOOLEAN /\ synced' \in BOOLEAN /\ told' \subseteq Goal
      /\ updated' = updated /\ Rebuilt' = Rebuilt
  BY <1>1 DEF Inv, RestTypes, Rebuilt
<1>6. Sound(r, files, Packets, updated', manifest, Rebuilt')
  BY <1>5 DEF SoundHere
<1>7. (updated => updated') /\ (synced => synced')
  BY <1>1
<1>8. QED BY <1>1, <1>3, <1>4, <1>5, <1>6, <1>7, SavesKeepsInv

\* The common case: nothing of the history changes.
LEMMA EndsInHistory ==
  ASSUME Inv, NEW p \in Proc, NEW r, Ends(p, r), pc[p] # "idle", pc[p] # "override", SoundHere(r),
         SameHistory(r, mem[p])
  PROVE  Inv'
BY EndsKeepsInv DEF SameHistory

(* A command saves r and goes on.                                          *)
LEMMA GoesOnKeepsInv ==
  ASSUME Inv, NEW p \in Proc, NEW r, NEW step \in {"enabled", "linking", "override"},
         SavesAndGoesOn(p, r, step), pc[p] # "idle", pc[p] # "override", SoundHere(r),
         r.cases = mem[p].cases,
         step # "override" => SameHistory(r, mem[p])
  PROVE  Inv'
<1>1. RestTypes'
  BY DEF Inv, RestTypes, SavesAndGoesOn, disk, rebuilds
<1>2. Grows /\ SoundNext(task') /\ task' = r
  BY DEF Grows, SavesAndGoesOn, Packets, Rebuilt, SoundNext, SoundHere, disk, rebuilds
<1>3. Records'
  <2>1. pc' = [pc EXCEPT ![p] = step] /\ mem' = [mem EXCEPT ![p] = r] /\ r \in Task
    BY DEF SavesAndGoesOn, SoundHere, Sound
  <2>2. QED BY <1>2, <2>1, RecordsKept DEF Inv
<1>4. ASSUME ~overlapped' PROVE Alone'
  <2>1. /\ ~overlapped /\ Alone
        /\ UNCHANGED <<overlapped, hasty, cut, written, packet, archive, told, synced, updated>>
    BY <1>4 DEF SavesAndGoesOn, Inv, disk, rebuilds
  <2>2. /\ pc'[p] = step /\ mem'[p] = r
        /\ \A q \in Proc \ {p} : pc[q] = "idle" /\ pc'[q] = "idle"
    BY <2>1 DEF Alone, OneAtATime, SavesAndGoesOn, Inv, RestTypes, Records
  <2>3. SameHistory(mem[p], task)
    BY <2>1 DEF Alone, InStep
  <2>4. OneAtATime'
    BY <2>2 DEF OneAtATime
  <2>5. InStep'
    BY <1>2, <2>2 DEF InStep, SameHistory
  <2>6. Audited'
    <3>1. CASE step = "override"
      BY <3>1, <2>2 DEF Audited
    <3>2. CASE step # "override"
      <4>1. task'.claim = task.claim /\ task'.override = task.override
        BY <1>2, <2>3, <3>2 DEF SameHistory
      <4>2. \A q \in Proc : pc[q] # "override"
        BY <2>2
      <4>3. QED BY <4>1, <4>2, <2>1 DEF Alone, Audited
    <3>3. QED BY <3>1, <3>2
  <2>7. Kept'
    BY <1>2, <2>1, <2>3 DEF Kept, Alone, SameHistory, Rebuilt
  <2>8. Stored'
    BY <2>1, <2>2 DEF Stored, Alone
  <2>9. QED BY <2>4, <2>5, <2>6, <2>7, <2>8 DEF Alone
<1>5. QED BY <1>1, <1>3, <1>4 DEF Inv
-----------------------------------------------------------------------------
(* The steps that do not save.                                             *)

LEMMA LoadKeepsInv ==
  ASSUME Inv, NEW p \in Proc, Load(p)
  PROVE  Inv'
<1>1. UNCHANGED <<task, manifest, files, packet, archive, written, trouble, told, hasty, synced, updated, cut>>
  BY DEF Load, disk, rebuilds
<1>2. pc' = [pc EXCEPT ![p] = "loaded"] /\ mem' = [mem EXCEPT ![p] = task]
  BY DEF Load
<1>3. RestTypes'
  BY <1>1, <1>2 DEF Load, Inv, RestTypes
<1>4. Grows
  BY <1>1 DEF Grows, Packets, Rebuilt
<1>5. SoundHere(task) /\ task \in Task
  BY DEF Inv, Records, SoundHere, Sound
<1>6. SoundNext(task')
  BY <1>1, <1>4, <1>5, StillSound
<1>7. Records'
  BY <1>1, <1>2, <1>4, <1>5, <1>6, RecordsKept DEF Inv
<1>8. ASSUME ~overlapped' PROVE Alone'
  <2>1. ~overlapped /\ Alone /\ \A q \in Proc : pc[q] = "idle"
    BY <1>8 DEF Load, Inv
  <2>2. pc'[p] = "loaded" /\ mem'[p] = task /\ \A q \in Proc \ {p} : pc'[q] = "idle"
    BY <1>2, <2>1 DEF Inv, RestTypes, Records
  <2>3. OneAtATime' /\ InStep'
    BY <1>1, <2>2 DEF OneAtATime, InStep, SameHistory
  <2>4. Audited' /\ Kept' /\ Stored'
    <3>1. Audited'
      BY <1>1, <2>1 DEF Audited, Alone
    <3>2. Kept'
      BY <1>1, <2>1 DEF Kept, Alone, Rebuilt
    <3>3. Stored'
      BY <1>1, <2>1, <2>2 DEF Stored, Alone
    <3>4. QED BY <3>1, <3>2, <3>3
  <2>5. QED BY <2>3, <2>4 DEF Alone
<1>9. QED BY <1>3, <1>7, <1>8 DEF Inv

LEMMA DrawsKeepsInv ==
  ASSUME Inv, NEW p \in Proc, Loaded(p), NEW r, NEW l \in Label, NEW f \in Fidelity, Draws(p, <<l, f>>, r),
         Sound(r, files \cup {<<l, f>>}, Packets, updated, manifest, Rebuilt),
         SameHistory(r, mem[p])
  PROVE  Inv'
<1>1. UNCHANGED <<task, manifest, packet, archive, written, trouble, told, overlapped, hasty, synced, updated, cut>>
  BY DEF Draws, rebuilds
<1>2. /\ pc' = [pc EXCEPT ![p] = "drawn"] /\ mem' = [mem EXCEPT ![p] = r]
      /\ files' = files \cup {<<l, f>>}
  BY DEF Draws
<1>3. RestTypes'
  BY <1>1, <1>2 DEF Inv, RestTypes
<1>4. Grows
  BY <1>1, <1>2 DEF Grows, Packets, Rebuilt
<1>5. SoundNext(r) /\ r \in Task
  <2>1. Packets' = Packets /\ Rebuilt' = Rebuilt
    BY <1>1 DEF Packets, Rebuilt
  <2>2. QED BY <1>1, <1>2, <2>1 DEF SoundNext, Sound
<1>6. SoundNext(task')
  BY <1>1, <1>4, StillSound DEF Inv, Records
<1>7. Records'
  <2>1. Records /\ RestTypes
    BY DEF Inv
  <2>2. ("drawn" # "idle" => SoundNext(r)) /\ ("drawn" = "packed" => Packets')
    BY <1>5
  <2>3. QED BY <1>2, <1>4, <1>5, <1>6, <2>1, <2>2, RecordsKept, Zenon
<1>8. ASSUME ~overlapped' PROVE Alone'
  <2>1. ~overlapped /\ Alone /\ SameHistory(mem[p], task)
    BY <1>1, <1>8 DEF Inv, Alone, InStep, Loaded
  <2>2. pc'[p] = "drawn" /\ mem'[p] = r /\ \A q \in Proc \ {p} : pc[q] = "idle" /\ pc'[q] = "idle"
    BY <1>2, <2>1 DEF Inv, RestTypes, Records, Alone, OneAtATime, Loaded
  <2>3. OneAtATime' /\ InStep'
    BY <1>1, <2>1, <2>2 DEF OneAtATime, InStep, SameHistory
  <2>4. Audited'
    BY <1>1, <2>1, <2>2 DEF Audited, Alone, Loaded
  <2>5. Kept' /\ Stored'
    <3>1. Kept'
      BY <1>1, <2>1 DEF Kept, Alone, Rebuilt
    <3>2. Stored'
      BY <1>1, <2>1, <2>2 DEF Stored, Alone
    <3>3. QED BY <3>1, <3>2
  <2>6. QED BY <2>3, <2>4, <2>5 DEF Alone
<1>9. QED BY <1>3, <1>7, <1>8 DEF Inv

\* What becomes of the copies of the store when packets come and go.
LEMMA PacketStepKeepsRecords ==
  ASSUME Inv, NEW p \in Proc, NEW step, pc[p] # "idle", pc' = [pc EXCEPT ![p] = step],
         UNCHANGED <<task, manifest, files, mem, synced, updated>>, Packets => Packets',
         step = "packed" => Packets'
  PROVE  Records'
<1>1. Grows
  BY DEF Grows, Rebuilt
<1>2. SoundHere(mem[p]) /\ mem[p] \in Task /\ SoundHere(task) /\ mem' = [mem EXCEPT ![p] = mem[p]]
  BY DEF Inv, Records
<1>3. SoundNext(mem[p]) /\ SoundNext(task')
  BY <1>1, <1>2, StillSound
<1>4. QED BY <1>1, <1>2, <1>3, RecordsKept DEF Inv

LEMMA ArchivePacketKeepsInv ==
  ASSUME Inv, NEW p \in Proc, ArchivePacket(p)
  PROVE  Inv'
<1>1. /\ UNCHANGED <<task, manifest, files, written, mem, trouble, told, overlapped, synced, updated, cut>>
      /\ pc' = [pc EXCEPT ![p] = "archived"] /\ packet' = 0 /\ pc[p] \in {"loaded", "enabled"}
  BY DEF ArchivePacket, rebuilds, Enabling
<1>2. /\ archive' \subseteq 1 .. written /\ hasty' \in BOOLEAN /\ (Packets => archive' # {})
      /\ ~hasty' => ~hasty /\ archive' = archive \cup ({packet} \ {0})
  <2>1. archive \subseteq 1 .. written /\ packet \in 0 .. written /\ hasty \in BOOLEAN /\ written \in Nat
    BY DEF Inv, RestTypes
  <2>2. CASE archive' = archive \cup ({packet} \ {0}) /\ hasty' = hasty
    BY <2>1, <2>2 DEF Packets
  <2>3. CASE packet # 0 /\ (\E k \in archive : archive' = (archive \ {k}) \cup {packet}) /\ hasty' = TRUE
    BY <2>1, <2>3 DEF Packets
  <2>4. QED BY <2>2, <2>3 DEF ArchivePacket
<1>3. RestTypes'
  BY <1>1, <1>2 DEF Inv, RestTypes
<1>4. Records'
  BY <1>1, <1>2, PacketStepKeepsRecords DEF Packets
<1>5. ASSUME ~overlapped' PROVE Alone'
  <2>1. ~overlapped /\ Alone
    BY <1>1, <1>5 DEF Inv
  <2>2. \A q \in Proc \ {p} : pc[q] = "idle" /\ pc'[q] = "idle"
    BY <1>1, <2>1 DEF Inv, RestTypes, Alone, OneAtATime
  <2>3. OneAtATime' /\ InStep'
    BY <1>1, <2>1, <2>2 DEF OneAtATime, InStep, Alone, SameHistory
  <2>4. Audited'
    BY <1>1, <2>1, <2>2 DEF Audited, Alone
  <2>5. Kept'
    BY <1>1, <2>1 DEF Kept, Alone, Rebuilt
  <2>6. Stored'
    BY <1>1, <1>2, <2>1 DEF Stored, Alone
  <2>7. QED BY <2>3, <2>4, <2>5, <2>6 DEF Alone
<1>6. QED BY <1>3, <1>4, <1>5 DEF Inv

LEMMA WritePacketKeepsInv ==
  ASSUME Inv, NEW p \in Proc, WritePacket(p)
  PROVE  Inv'
<1>1. /\ UNCHANGED <<task, manifest, files, archive, mem, trouble, told, overlapped, hasty, synced, updated, cut>>
      /\ pc' = [pc EXCEPT ![p] = "packed"] /\ pc[p] = "archived"
      /\ written' = written + 1 /\ packet' = written + 1 /\ written < MaxPackets
  BY DEF WritePacket, rebuilds
<1>2. RestTypes'
  BY <1>1 DEF Inv, RestTypes
<1>3. Packets'
  BY <1>1 DEF Packets, Inv, RestTypes
<1>4. Records'
  BY <1>1, <1>3, PacketStepKeepsRecords
<1>5. ASSUME ~overlapped' PROVE Alone'
  <2>1. ~overlapped /\ Alone /\ packet = 0
    BY <1>1, <1>5 DEF Inv, Alone, Stored
  <2>2. pc'[p] = "packed" /\ \A q \in Proc \ {p} : pc[q] = "idle" /\ pc'[q] = "idle"
    BY <1>1, <2>1 DEF Inv, RestTypes, Alone, OneAtATime
  <2>3. OneAtATime' /\ InStep'
    BY <1>1, <2>1, <2>2 DEF OneAtATime, InStep, Alone, SameHistory
  <2>4. Audited'
    BY <1>1, <2>1, <2>2 DEF Audited, Alone
  <2>5. Kept'
    BY <1>1, <2>1 DEF Kept, Alone, Rebuilt
  <2>6. Stored'
    <3>1. ~hasty' => 1 .. written' = archive' \cup ({packet'} \ {0})
      <4>1. ~hasty' => 1 .. written = archive
        BY <1>1, <2>1 DEF Alone, Stored
      <4>2. 1 .. written' = (1 .. written) \cup {written + 1} /\ packet' # 0
        BY <1>1 DEF Inv, RestTypes
      <4>3. QED BY <1>1, <4>1, <4>2
    <3>2. QED BY <2>2, <3>1 DEF Stored
  <2>7. QED BY <2>3, <2>4, <2>5, <2>6 DEF Alone
<1>6. QED BY <1>2, <1>4, <1>5 DEF Inv

\* A command stops without a save, or is killed.
LEMMA LeavesKeepsInv ==
  ASSUME Inv, NEW p \in Proc, Leaves(p), pc[p] # "idle",
         UNCHANGED <<task, manifest, files, packet, archive, written, told, overlapped, hasty, synced, updated>>,
         trouble' \in 0 .. MaxTrouble, cut' \in BOOLEAN, cut \/ pc[p] = "override" => cut'
  PROVE  Inv'
<1>1. pc' = [pc EXCEPT ![p] = "idle"] /\ mem' = [mem EXCEPT ![p] = Nothing]
  BY DEF Leaves
<1>2. RestTypes'
  BY <1>1 DEF Inv, RestTypes
<1>3. Grows
  BY DEF Grows, Packets, Rebuilt
<1>4. SoundNext(task')
  BY <1>3, StillSound DEF Inv, Records
<1>5. Records'
  <2>1. Records /\ RestTypes /\ Nothing \in Task
    BY NothingIsTask DEF Inv
  <2>2. ("idle" # "idle" => SoundNext(Nothing)) /\ ("idle" = "packed" => Packets')
    OBVIOUS
  <2>3. QED BY <1>1, <1>3, <1>4, <2>1, <2>2, RecordsKept, Zenon
<1>6. ASSUME ~overlapped' PROVE Alone'
  <2>1. ~overlapped /\ Alone
    BY <1>6 DEF Inv
  <2>2. \A q \in Proc : pc'[q] = "idle"
    BY <1>1, <2>1 DEF Inv, RestTypes, Alone, OneAtATime
  <2>3. OneAtATime' /\ InStep'
    BY <2>2 DEF OneAtATime, InStep
  <2>4. Audited'
    <3>1. \A q \in Proc : pc[q] = "override" => q = p
      BY <2>1 DEF Alone, OneAtATime
    <3>2. QED BY <2>1, <3>1 DEF Audited, Alone
  <2>5. Kept'
    BY <2>1 DEF Kept, Alone, Rebuilt
  <2>6. Stored'
    BY <2>1, <2>2 DEF Stored, Alone
  <2>7. QED BY <2>3, <2>4, <2>5, <2>6 DEF Alone
<1>7. QED BY <1>2, <1>5, <1>6 DEF Inv
-----------------------------------------------------------------------------
(* Every step preserves the invariant.                                     *)

LEMMA CopyIsSound ==
  ASSUME Inv, NEW p \in Proc, pc[p] # "idle"
  PROVE  SoundHere(mem[p]) /\ mem[p] \in Task /\ mem[p].cases \in Seq(Goal)
BY DEF Inv, Records, Task

LEMMA AppendHistory ==
  ASSUME NEW r \in Task, NEW gs \in Seq(Goal), NEW s, s.cases = r.cases \o gs
  PROVE  Range(s.cases) = Range(r.cases) \cup Range(gs)
<1>1. r.cases \in Seq(Goal)
  BY DEF Task
<1>2. Range(r.cases \o gs) = Range(r.cases) \cup Range(gs)
  <2>1. \A i \in 1 .. Len(r.cases) : i \in 1 .. Len(r.cases \o gs) /\ (r.cases \o gs)[i] = r.cases[i]
    BY <1>1
  <2>2. \A i \in 1 .. Len(gs) : Len(r.cases) + i \in 1 .. Len(r.cases \o gs) /\ (r.cases \o gs)[Len(r.cases) + i] = gs[i]
    BY <1>1
  <2>3. \A i \in 1 .. Len(r.cases \o gs) :
          \/ i \in 1 .. Len(r.cases) /\ (r.cases \o gs)[i] = r.cases[i]
          \/ i - Len(r.cases) \in 1 .. Len(gs) /\ (r.cases \o gs)[i] = gs[i - Len(r.cases)]
    BY <1>1
  <2>4. \A x \in Range(r.cases \o gs) : x \in Range(r.cases) \cup Range(gs)
    BY <2>3 DEF Range
  <2>5. \A x \in Range(r.cases) : x \in Range(r.cases \o gs)
    BY <2>1 DEF Range
  <2>6. \A x \in Range(gs) : x \in Range(r.cases \o gs)
    BY <2>2 DEF Range
  <2>7. QED BY <2>4, <2>5, <2>6
<1>3. QED BY <1>2

\* New use cases gs are saved and acknowledged.
LEMMA AcknowledgedKeepsInv ==
  ASSUME Inv, NEW p \in Proc, Enabling(p), NEW gs \in Seq(Goal), NEW r, SoundHere(r),
         r.cases = mem[p].cases \o gs, r.claim = mem[p].claim, r.override = mem[p].override,
         told' = told \cup Range(gs), Saves(p, r), UNCHANGED rebuilds
  PROVE  Inv'
<1>1. pc[p] # "idle" /\ pc[p] # "override" /\ mem[p] \in Task /\ mem[p].cases \in Seq(Goal)
  BY CopyIsSound DEF Enabling
<1>2. UNCHANGED <<synced, updated>> /\ Rebuilt' = Rebuilt /\ updated \in BOOLEAN /\ synced \in BOOLEAN
  BY DEF rebuilds, Rebuilt, Inv, RestTypes
<1>3. told' \subseteq Goal
  BY DEF Inv, RestTypes, Range
<1>4. ASSUME ~overlapped PROVE SameHistory(mem[p], task) /\ Audited /\ Kept /\ \A q \in Proc : pc[q] # "override"
  BY <1>1, <1>4 DEF Inv, Alone, InStep, OneAtATime
<1>5. ~overlapped /\ r.claim = "forced" => r.override \/ cut
  BY <1>4 DEF SameHistory, Audited
<1>6. ~overlapped /\ ~Rebuilt' => told' \subseteq Range(r.cases)
  <2>1. Range(r.cases) = Range(mem[p].cases) \cup Range(gs)
    BY <1>1, AppendHistory
  <2>2. QED BY <1>2, <1>4, <2>1 DEF Kept, SameHistory
<1>7. Sound(r, files, Packets, updated', manifest, Rebuilt')
  BY <1>2 DEF SoundHere
<1>8. QED BY <1>1, <1>2, <1>3, <1>5, <1>6, <1>7, SavesKeepsInv

LEMMA AddCaseKeepsInv ==
  ASSUME Inv, NEW p \in Proc, NEW g \in Goal, AddCase(p, g)
  PROVE  Inv'
<1> DEFINE t == Started(mem[p])
           r == WithCase(mem[p], g)
           gs == <<g>>
<1>1. Enabling(p) /\ told' = told \cup {g} /\ Saves(p, r) /\ UNCHANGED rebuilds
  BY DEF AddCase
<1>2. SoundHere(mem[p]) /\ mem[p] \in Task
  BY <1>1, CopyIsSound DEF Enabling
<1>3. Sound(t, files, Packets, updated, manifest, Rebuilt) /\ SameHistory(t, mem[p])
  BY <1>2, StartedIsSound DEF SoundHere
<1>4. t \in Task /\ t.cases \in Seq(Goal)
  BY <1>3 DEF Sound, Task
<1>5. r = [t EXCEPT !.cases = Append(t.cases, g)]
  BY <1>4 DEF WithCase, Task
<1> HIDE DEF t
<1>6. Append(t.cases, g) = t.cases \o gs /\ gs \in Seq(Goal) /\ Range(gs) = {g}
  BY <1>4 DEF Range
<1>7. r.cases = t.cases \o gs /\ r.claim = t.claim /\ r.override = t.override
  BY <1>4, <1>5, <1>6 DEF Task
<1>8. SoundHere(r)
  BY <1>2, CaseIsSound DEF SoundHere
<1> HIDE DEF r, gs
<1>9. QED BY <1>1, <1>3, <1>6, <1>7, <1>8, AcknowledgedKeepsInv DEF SameHistory

LEMMA DiscoverKeepsInv ==
  ASSUME Inv, NEW p \in Proc, NEW gs \in Seq(Goal), Discover(p, gs)
  PROVE  Inv'
<1> DEFINE t == Started(mem[p])
           r == Discovered(mem[p], gs)
<1>1. Enabling(p) /\ told' = told \cup Range(gs) /\ Saves(p, r) /\ UNCHANGED rebuilds
  BY DEF Discover
<1>2. SoundHere(mem[p]) /\ mem[p] \in Task
  BY <1>1, CopyIsSound DEF Enabling
<1>3. Sound(t, files, Packets, updated, manifest, Rebuilt) /\ SameHistory(t, mem[p])
  BY <1>2, StartedIsSound DEF SoundHere
<1>4. t \in Task /\ t.cases \in Seq(Goal)
  BY <1>3 DEF Sound, Task
<1>5. r = [t EXCEPT !.cases = t.cases \o gs, !.status = "cases"]
  BY <1>4 DEF Discovered, Task
<1> HIDE DEF t
<1>6. r.cases = t.cases \o gs /\ r.claim = t.claim /\ r.override = t.override
  BY <1>4, <1>5 DEF Task
<1>7. SoundHere(r)
  BY <1>2, DiscoveredIsSound DEF SoundHere
<1> HIDE DEF r
<1>8. QED BY <1>1, <1>3, <1>6, <1>7, AcknowledgedKeepsInv DEF SameHistory

LEMMA CasesKeepInv ==
  ASSUME Inv, NEW p \in Proc, Cases(p)
  PROVE  Inv'
<1>1. ASSUME NEW gs \in Answers PROVE gs \in Seq(Goal)
  <2>1. <<>> \in Seq(Goal) /\ (\A g \in Goal : <<g>> \in Seq(Goal)) /\ \A g, h \in Goal : <<g, h>> \in Seq(Goal)
    OBVIOUS
  <2>2. CASE gs = <<>>
    BY <2>1, <2>2
  <2>3. CASE \E g \in Goal : gs = <<g>>
    BY <2>1, <2>3
  <2>4. CASE \E g, h \in Goal : gs = <<g, h>>
    BY <2>1, <2>4
  <2>5. QED BY <2>2, <2>3, <2>4 DEF Answers
<1>2. CASE Confirm(p)
  <2>1. pc[p] # "idle" /\ pc[p] # "override" /\ Ends(p, Confirmed(mem[p]))
    BY <1>2 DEF Confirm, Enabling
  <2>2. SoundHere(Confirmed(mem[p])) /\ SameHistory(Confirmed(mem[p]), mem[p])
    BY <2>1, CopyIsSound, ConfirmedIsSound DEF SoundHere
  <2>3. QED BY <2>1, <2>2, EndsInHistory
<1>3. QED BY <1>1, <1>2, AddCaseKeepsInv, DiscoverKeepsInv DEF Cases

LEMMA OptionsKeepInv ==
  ASSUME Inv, NEW p \in Proc, Options(p)
  PROVE  Inv'
<1>1. Loaded(p) /\ pc[p] # "idle" /\ pc[p] # "override"
  BY DEF Options, Explore, AddOption, Iterate, Select, Cover, LoadedUx, Begun, Loaded
<1>2. Sound(mem[p], files, Packets, updated, manifest, Rebuilt)
  BY <1>1, CopyIsSound DEF SoundHere
<1>3. CASE Explore(p)
  <2>1. SoundHere(Explored(mem[p])) /\ SameHistory(Explored(mem[p]), mem[p])
    BY <1>2, ExploredIsSound DEF SoundHere
  <2>2. QED BY <1>1, <1>3, <2>1, EndsInHistory DEF Explore
<1>4. CASE AddOption(p)
  <2>1. mem[p].options < MaxOptions
    BY <1>4 DEF AddOption
  <2>2. SoundHere(WithOption(mem[p])) /\ SameHistory(WithOption(mem[p]), mem[p])
    BY <1>2, <2>1, OptionIsSound DEF SoundHere
  <2>3. QED BY <1>1, <1>4, <2>2, EndsInHistory DEF AddOption
<1>5. CASE Iterate(p)
  <2>1. mem[p].iterations <= Enforced
    BY <1>5 DEF Iterate
  <2>2. SoundHere(Iterated(mem[p])) /\ SameHistory(Iterated(mem[p]), mem[p])
    BY <1>2, <2>1, IteratedIsSound DEF SoundHere
  <2>3. QED BY <1>1, <1>5, <2>2, EndsInHistory DEF Iterate
<1>6. ASSUME NEW l \in Label, Select(p, l) PROVE Inv'
  <2>1. SoundHere(Selected(mem[p], l)) /\ SameHistory(Selected(mem[p], l), mem[p])
    BY <1>2, SelectedIsSound DEF SoundHere
  <2>2. QED BY <1>1, <1>6, <2>1, EndsInHistory DEF Select
<1>7. CASE Cover(p)
  <2>1. PICK l \in Label, C \in {1 .. Len(mem[p].cases)} \cup {{c} : c \in 1 .. Len(mem[p].cases)} :
          Ends(p, Covered(mem[p], l, C))
    BY <1>7 DEF Cover
  <2>2. SoundHere(Covered(mem[p], l, C)) /\ SameHistory(Covered(mem[p], l, C), mem[p])
    BY <1>2, CoveredIsSound DEF SoundHere
  <2>3. QED BY <1>1, <2>1, <2>2, EndsInHistory
<1>8. QED BY <1>3, <1>4, <1>5, <1>6, <1>7 DEF Options

LEMMA MockupsKeepInv ==
  ASSUME Inv, NEW p \in Proc, Mockups(p)
  PROVE  Inv'
<1>1. CASE CreateMockup(p)
  <2>1. PICK l \in Label : Draws(p, <<l, "ascii">>, WithMockup(mem[p], l))
    BY <1>1 DEF CreateMockup
  <2>2. Loaded(p) /\ Sound(mem[p], files, Packets, updated, manifest, Rebuilt)
    BY <1>1, CopyIsSound DEF CreateMockup, Loaded, SoundHere
  <2>3. /\ Sound(WithMockup(mem[p], l), files \cup {<<l, "ascii">>}, Packets, updated, manifest, Rebuilt)
        /\ SameHistory(WithMockup(mem[p], l), mem[p])
    BY <2>2, MockupIsSound
  <2>4. "ascii" \in Fidelity
    BY DEF Fidelity
  <2>5. QED BY <2>1, <2>2, <2>3, <2>4, DrawsKeepsInv
<1>2. CASE UpgradeMockup(p)
  <2>1. PICK l \in Label, f \in {"html", "styled"} : Draws(p, <<l, f>>, Upgraded(mem[p], l, f))
    BY <1>2 DEF UpgradeMockup
  <2>2. Loaded(p) /\ Sound(mem[p], files, Packets, updated, manifest, Rebuilt)
    BY <1>2, CopyIsSound DEF UpgradeMockup, Loaded, SoundHere
  <2>3. /\ Sound(Upgraded(mem[p], l, f), files \cup {<<l, f>>}, Packets, updated, manifest, Rebuilt)
        /\ SameHistory(Upgraded(mem[p], l, f), mem[p])
    BY <2>2, UpgradedIsSound
  <2>4. f \in Fidelity
    BY DEF Fidelity
  <2>5. QED BY <2>1, <2>2, <2>3, <2>4, DrawsKeepsInv
<1>3. CASE SaveMockup(p)
  <2>1. SoundHere(mem[p]) /\ pc[p] # "idle" /\ pc[p] # "override" /\ Ends(p, mem[p])
    BY <1>3, CopyIsSound DEF SaveMockup
  <2>2. SameHistory(mem[p], mem[p])
    BY DEF SameHistory
  <2>3. QED BY <2>1, <2>2, EndsInHistory
<1>4. QED BY <1>1, <1>2, <1>3 DEF Mockups

LEMMA PreflightKeepsInv ==
  ASSUME Inv, NEW p \in Proc, Preflight(p)
  PROVE  Inv'
<1>1. CASE MarkPreflight(p)
  <2>1. pc[p] = "packed" /\ SavesAndGoesOn(p, Preflighted(mem[p]), "linking")
    BY <1>1 DEF MarkPreflight
  <2>2. SoundHere(mem[p]) /\ Packets
    BY <2>1 DEF Inv, Records
  <2>3. /\ Sound(Preflighted(mem[p]), files, TRUE, updated, manifest, Rebuilt)
        /\ SameHistory(Preflighted(mem[p]), mem[p])
    BY <2>2, PreflightedIsSound DEF SoundHere
  <2>4. SoundHere(Preflighted(mem[p]))
    BY <2>2, <2>3, MoreIsSound DEF SoundHere
  <2>5. Preflighted(mem[p]).cases = mem[p].cases
    BY <2>3 DEF SameHistory
  <2>6. QED BY <2>1, <2>3, <2>4, <2>5, GoesOnKeepsInv
<1>2. CASE LinkPacket(p)
  <2>1. SoundHere(mem[p]) /\ pc[p] # "idle" /\ pc[p] # "override" /\ Ends(p, mem[p])
    BY <1>2, CopyIsSound DEF LinkPacket
  <2>2. SameHistory(mem[p], mem[p])
    BY DEF SameHistory
  <2>3. QED BY <2>1, <2>2, EndsInHistory
<1>3. QED BY <1>1, <1>2, ArchivePacketKeepsInv, WritePacketKeepsInv DEF Preflight

LEMMA ClaimsKeepInv ==
  ASSUME Inv, NEW p \in Proc, Claims(p)
  PROVE  Inv'
<1>1. CASE Claim(p)
  <2>1. Loaded(p) /\ pc[p] # "idle" /\ ~PreflightMissing(mem[p]) /\ Ends(p, Claimed(mem[p], "plain"))
    BY <1>1 DEF Claim, Loaded
  <2>2. Sound(mem[p], files, Packets, updated, manifest, Rebuilt)
    BY <2>1, CopyIsSound DEF SoundHere
  <2>3. /\ SoundHere(Claimed(mem[p], "plain")) /\ Claimed(mem[p], "plain").cases = mem[p].cases
        /\ Claimed(mem[p], "plain").claim = "plain"
    BY <2>1, <2>2, ClaimedIsSound DEF SoundHere
  <2>4. QED BY <2>1, <2>3, EndsKeepsInv
<1>2. CASE ClaimAnyway(p)
  <2>1. Loaded(p) /\ pc[p] # "idle" /\ pc[p] # "override" /\ ~mem[p].hard /\ SavesAndGoesOn(p, Claimed(mem[p], "forced"), "override")
    BY <1>2 DEF ClaimAnyway, Loaded
  <2>2. Sound(mem[p], files, Packets, updated, manifest, Rebuilt)
    BY <2>1, CopyIsSound DEF SoundHere
  <2>3. SoundHere(Claimed(mem[p], "forced")) /\ Claimed(mem[p], "forced").cases = mem[p].cases
    BY <2>1, <2>2, ClaimedIsSound DEF SoundHere
  <2>4. QED BY <2>1, <2>3, GoesOnKeepsInv
<1>3. CASE RecordOverride(p)
  <2> DEFINE r == [mem[p] EXCEPT !.override = TRUE]
  <2>1. pc[p] # "idle" /\ Ends(p, r)
    BY <1>3 DEF RecordOverride
  <2>2. Sound(mem[p], files, Packets, updated, manifest, Rebuilt)
    BY <2>1, CopyIsSound DEF SoundHere
  <2>3. SoundHere(r) /\ r.cases = mem[p].cases /\ r.override
    BY <2>2, OverrideIsSound DEF SoundHere
  <2> HIDE DEF r
  <2>4. QED BY <2>1, <2>3, EndsKeepsInv
<1>4. QED BY <1>1, <1>2, <1>3 DEF Claims

LEMMA SyncAgainKeepsInv ==
  ASSUME Inv, NEW p \in Proc, SyncAgain(p)
  PROVE  Inv'
<1> DEFINE r == RebuiltBySync(mem[p])
<1>1. Saves(p, r) /\ pc[p] = "loaded" /\ UNCHANGED <<told, updated>> /\ synced' = TRUE
  BY DEF SyncAgain, Loaded
<1>2. Sound(mem[p], files, Packets, updated, manifest, Rebuilt)
  BY <1>1, CopyIsSound DEF SoundHere
<1>3. Sound(r, files, Packets, updated, manifest, TRUE) /\ r.claim = mem[p].claim /\ r.override = mem[p].override
  <2>1. RestTypes
    BY DEF Inv
  <2>2. Sound(RebuiltBySync(mem[p]), files, Packets, updated, manifest, TRUE)
    BY <1>2, <2>1, SyncedIsSound, Zenon
  <2>3. mem[p] \in Task
    BY <1>2 DEF Sound
  <2>4. QED BY <2>1, <2>2, <2>3, RebuildingKeepsTheClaim
<1> HIDE DEF r
<1>4. Rebuilt' = TRUE /\ updated' \in BOOLEAN /\ synced' \in BOOLEAN /\ told' \subseteq Goal
  BY <1>1 DEF Rebuilt, Inv, RestTypes
<1>5. ASSUME ~overlapped PROVE SameHistory(mem[p], task) /\ Audited /\ \A q \in Proc : pc[q] # "override"
  BY <1>1, <1>5 DEF Inv, Alone, InStep, OneAtATime
<1>6. ~overlapped /\ r.claim = "forced" => r.override \/ cut
  BY <1>3, <1>5 DEF SameHistory, Audited
<1>7. Sound(r, files, Packets, updated', manifest, Rebuilt')
  BY <1>1, <1>3, <1>4
<1>8. QED BY <1>1, <1>4, <1>6, <1>7, SavesKeepsInv

LEMMA UpdateHandoffKeepsInv ==
  ASSUME Inv, NEW p \in Proc, UpdateHandoff(p)
  PROVE  Inv'
<1> DEFINE r == RebuiltByUpdate(mem[p])
<1>1. Saves(p, r) /\ pc[p] = "loaded" /\ UNCHANGED <<told, synced>> /\ updated' = TRUE
  BY DEF UpdateHandoff, Loaded
<1>2. Sound(mem[p], files, Packets, updated, manifest, Rebuilt)
  BY <1>1, CopyIsSound DEF SoundHere
<1>3. Sound(r, files, Packets, TRUE, manifest, TRUE) /\ r.claim = mem[p].claim /\ r.override = mem[p].override
  <2>1. Sound(RebuiltByUpdate(mem[p]), files, Packets, TRUE, manifest, TRUE)
    BY <1>2, UpdatedIsSound, Zenon
  <2>2. mem[p] \in Task
    BY <1>2 DEF Sound
  <2>3. RestTypes
    BY DEF Inv
  <2>4. QED BY <2>1, <2>2, <2>3, RebuildingKeepsTheClaim
<1> HIDE DEF r
<1>4. Rebuilt' = TRUE /\ updated' \in BOOLEAN /\ synced' \in BOOLEAN /\ told' \subseteq Goal
  BY <1>1 DEF Rebuilt, Inv, RestTypes
<1>5. ASSUME ~overlapped PROVE SameHistory(mem[p], task) /\ Audited /\ \A q \in Proc : pc[q] # "override"
  BY <1>1, <1>5 DEF Inv, Alone, InStep, OneAtATime
<1>6. ~overlapped /\ r.claim = "forced" => r.override \/ cut
  BY <1>3, <1>5 DEF SameHistory, Audited
<1>7. Sound(r, files, Packets, updated', manifest, Rebuilt')
  BY <1>1, <1>3, <1>4
<1>8. QED BY <1>1, <1>4, <1>6, <1>7, SavesKeepsInv

LEMMA EnableKeepsInv ==
  ASSUME Inv, NEW p \in Proc, Enable(p)
  PROVE  Inv'
<1>1. PICK type \in UxType : SavesAndGoesOn(p, Enabled(mem[p], type), "enabled")
  BY DEF Enable
<1>2. pc[p] # "idle" /\ pc[p] # "override" /\ mem[p].ux = "none"
  BY DEF Enable, Loaded
<1>3. Sound(mem[p], files, Packets, updated, manifest, Rebuilt)
  BY <1>2, CopyIsSound DEF SoundHere
<1>4. SoundHere(Enabled(mem[p], type)) /\ SameHistory(Enabled(mem[p], type), mem[p])
  BY <1>2, <1>3, EnabledIsSound DEF SoundHere
<1>5. Enabled(mem[p], type).cases = mem[p].cases
  BY <1>4 DEF SameHistory
<1>6. QED BY <1>1, <1>2, <1>4, <1>5, GoesOnKeepsInv

LEMMA QuitOrKilledKeepsInv ==
  ASSUME Inv, NEW p \in Proc, Quit(p) \/ Killed(p)
  PROVE  Inv'
<1>1. trouble \in 0 .. MaxTrouble /\ cut \in BOOLEAN
  BY DEF Inv, RestTypes
<1>2. CASE Quit(p)
  BY <1>1, <1>2, LeavesKeepsInv DEF Quit, disk, rebuilds
<1>3. CASE Killed(p)
  <2>1. /\ Leaves(p) /\ pc[p] # "idle" /\ cut' = (cut \/ pc[p] = "override")
        /\ UNCHANGED <<task, manifest, files, packet, archive, written, told, overlapped, hasty, synced, updated>>
        /\ trouble' = trouble + 1 /\ trouble < MaxTrouble
    BY <1>3 DEF Killed, disk, rebuilds
  <2>2. trouble' \in 0 .. MaxTrouble
    BY <1>1, <2>1
  <2>3. cut' \in BOOLEAN
    BY <1>1, <2>1
  <2>4. QED BY <2>1, <2>2, <2>3, LeavesKeepsInv
<1>4. QED BY <1>2, <1>3

LEMMA StutterKeepsInv ==
  ASSUME Inv, UNCHANGED vars
  PROVE  Inv'
<1>1. UNCHANGED <<task, manifest, files, packet, archive, written, pc, mem, trouble, told,
                  overlapped, hasty, synced, updated, cut>>
  BY DEF vars, disk, rebuilds
<1>2. RestTypes'
  BY <1>1 DEF Inv, RestTypes
<1>3. Packets' = Packets /\ Rebuilt' = Rebuilt
  BY <1>1 DEF Packets, Rebuilt
<1>4. Records'
  BY <1>1, <1>3 DEF Inv, Records, SoundHere
<1>5. ~overlapped' => Alone'
  BY <1>1, <1>3 DEF Inv, Alone, OneAtATime, InStep, Audited, Kept, Stored
<1>6. QED BY <1>2, <1>4, <1>5 DEF Inv

LEMMA InitInv == Init => Inv
<1> SUFFICES ASSUME Init PROVE Inv
  OBVIOUS
<1>1. RestTypes
  <2>1. overlapped = FALSE /\ hasty = FALSE /\ synced = FALSE /\ updated = FALSE /\ cut = FALSE
    BY DEF Init
  <2>2. \A flag \in {overlapped, hasty, synced, updated, cut} : flag \in BOOLEAN
    BY <2>1
  <2>3. QED BY <2>2 DEF Init, RestTypes
<1>2. task = NewTask(manifest.ux, manifest.hard) /\ task.claim = "no" /\ ~updated /\ ~Rebuilt
  BY DEF Init, NewTask, Rebuilt
<1>3. SoundHere(task)
  <2>1. manifest.ux \in UxType /\ manifest.hard \in BOOLEAN
    BY <1>1 DEF RestTypes
  <2>2. QED BY <1>2, <2>1, NewIsSound DEF SoundHere
<1>4. Records
  BY <1>3, NothingIsTask DEF Init, Records
<1>5. Alone
  <2>1. \A p \in Proc : pc[p] = "idle"
    BY DEF Init
  <2>2. OneAtATime /\ InStep
    BY <2>1 DEF OneAtATime, InStep
  <2>3. Audited /\ Kept
    BY <1>2 DEF Init, Audited, Kept
  <2>4. Stored
    BY <2>1 DEF Init, Stored
  <2>5. QED BY <2>2, <2>3, <2>4 DEF Alone
<1>6. QED BY <1>1, <1>4, <1>5 DEF Inv

LEMMA SpecInv == Spec => []Inv
<1>1. Inv /\ [Next]_vars => Inv'
  <2> SUFFICES ASSUME Inv, [Next]_vars PROVE Inv'
    OBVIOUS
  <2>1. ASSUME NEW p \in Proc,
               \/ Load(p) \/ Enable(p) \/ Cases(p) \/ Options(p) \/ Mockups(p) \/ Preflight(p) \/ Claims(p)
               \/ SyncAgain(p) \/ UpdateHandoff(p) \/ Quit(p) \/ Killed(p)
        PROVE  Inv'
    BY <2>1, LoadKeepsInv, EnableKeepsInv, CasesKeepInv, OptionsKeepInv, MockupsKeepInv,
       PreflightKeepsInv, ClaimsKeepInv, SyncAgainKeepsInv, UpdateHandoffKeepsInv, QuitOrKilledKeepsInv
  <2>2. QED BY <2>1, StutterKeepsInv DEF Next
<1>2. QED BY <1>1, InitInv, PTL DEF Spec
-----------------------------------------------------------------------------
(* Every state of the store, the files and the processes is well formed.   *)
THEOREM TypeCorrect == Spec => []TypeOK
BY SpecInv, InvImplies, PTL

(* The criteria "Satisfies UCn: ..." say what the use cases of these       *)
(* numbers say, for any number of racing and killed commands.              *)
THEOREM CriteriaStayUseCases == Spec => []CriteriaAreUseCases
BY SpecInv, InvImplies, PTL

(* Acknowledged use cases stay, unless commands overlap or the metadata is *)
(* rebuilt.                                                                *)
THEOREM UseCasesStay == Spec => []UseCasesAreKept
BY SpecInv, InvImplies, PTL

(* A listed mockup can be viewed.                                          *)
THEOREM MockupsStay == Spec => []MockupsHaveFiles
BY SpecInv, InvImplies, PTL

(* A preflight leaves a packet, and packets archived one at a time are all *)
(* kept.                                                                   *)
THEOREM PacketsStay == Spec => []PacketsAreKept
BY SpecInv, InvImplies, PTL

(* A claim has passed the preflight gate, or overridden it on record.      *)
THEOREM ClaimsStayVetted == Spec => []ClaimsAreVetted
BY SpecInv, InvImplies, PTL
-----------------------------------------------------------------------------
(* The hints.  Whoever works alone decides about what is in the store ...  *)
UpToDate ==
  ~overlapped => \A p \in Proc : pc[p] \notin {"idle", "drawn"} => mem[p] = task

LEMMA StaysUpToDate ==
  ASSUME Inv, UpToDate, NEW p \in Proc, pc[p] # "idle", overlapped' = overlapped,
         \A q \in Proc : q # p => pc'[q] = pc[q] /\ mem'[q] = mem[q],
         pc'[p] \in {"idle", "drawn"} \/ mem'[p] = task'
  PROVE  UpToDate'
<1> SUFFICES ASSUME ~overlapped, NEW q \in Proc, pc'[q] \notin {"idle", "drawn"}
             PROVE  mem'[q] = task'
  BY DEF UpToDate
<1>1. CASE q = p
  BY <1>1
<1>2. CASE q # p
  <2>1. pc[q] = "idle"
    BY <1>2 DEF Inv, Alone, OneAtATime
  <2> QED BY <1>2, <2>1
<1> QED BY <1>1, <1>2

LEMMA StepKeepsUpToDate ==
  ASSUME Inv, UpToDate, NEW p \in Proc,
         \/ Load(p) \/ Enable(p) \/ Cases(p) \/ Options(p) \/ Mockups(p) \/ Preflight(p) \/ Claims(p)
         \/ SyncAgain(p) \/ UpdateHandoff(p) \/ Quit(p) \/ Killed(p)
  PROVE  UpToDate'
<1>1. pc = [q \in Proc |-> pc[q]] /\ mem = [q \in Proc |-> mem[q]]
  BY DEF Inv, RestTypes, Records
<1>2. CASE Load(p)
  <2> SUFFICES ASSUME ~overlapped', NEW q \in Proc, pc'[q] \notin {"idle", "drawn"}
               PROVE  mem'[q] = task'
    BY DEF UpToDate
  <2>1. pc[q] = "idle"
    BY <1>2 DEF Load
  <2>2. q = p
    BY <1>1, <1>2, <2>1 DEF Load
  <2> QED BY <1>1, <1>2, <2>2 DEF Load
<1>3. ASSUME NEW r, Saves(p, r), pc[p] # "idle" PROVE UpToDate'
  <2>1. /\ pc'[p] = "idle" /\ overlapped' = overlapped
        /\ \A q \in Proc : q # p => pc'[q] = pc[q] /\ mem'[q] = mem[q]
    BY <1>1, <1>3 DEF Saves, Leaves
  <2> QED BY <1>3, <2>1, StaysUpToDate
<1>4. ASSUME NEW r, NEW step, SavesAndGoesOn(p, r, step), pc[p] # "idle" PROVE UpToDate'
  <2>1. /\ mem'[p] = task' /\ overlapped' = overlapped
        /\ \A q \in Proc : q # p => pc'[q] = pc[q] /\ mem'[q] = mem[q]
    BY <1>1, <1>4 DEF SavesAndGoesOn
  <2> QED BY <1>4, <2>1, StaysUpToDate
<1>5. ASSUME NEW file, NEW r, Draws(p, file, r), pc[p] # "idle" PROVE UpToDate'
  <2>1. /\ pc'[p] = "drawn" /\ overlapped' = overlapped
        /\ \A q \in Proc : q # p => pc'[q] = pc[q] /\ mem'[q] = mem[q]
    BY <1>1, <1>5 DEF Draws
  <2> QED BY <1>5, <2>1, StaysUpToDate
<1>6. CASE Enable(p)
  BY <1>4, <1>6 DEF Enable, Loaded
<1>7. CASE Cases(p)
  BY <1>3, <1>7 DEF Cases, AddCase, Discover, Confirm, Enabling, Ends
<1>8. CASE Options(p)
  BY <1>3, <1>8 DEF Options, Explore, AddOption, Iterate, Select, Cover, LoadedUx, Begun, Loaded, Ends
<1>9. CASE Mockups(p)
  BY <1>3, <1>5, <1>9 DEF Mockups, CreateMockup, UpgradeMockup, SaveMockup, Loaded, Ends
<1>10. ASSUME NEW step \in {"archived", "packed"}, pc' = [pc EXCEPT ![p] = step],
              UNCHANGED <<task, mem, overlapped>>, pc[p] \notin {"idle", "drawn"}
       PROVE  UpToDate'
  BY <1>1, <1>10 DEF UpToDate
<1>11. CASE Preflight(p)
  <2>1. CASE ArchivePacket(p)
    BY <1>10, <2>1 DEF ArchivePacket, Enabling
  <2>2. CASE WritePacket(p)
    BY <1>10, <2>2 DEF WritePacket
  <2>3. CASE MarkPreflight(p) \/ LinkPacket(p)
    BY <1>3, <1>4, <2>3 DEF MarkPreflight, LinkPacket, Ends
  <2> QED BY <1>11, <2>1, <2>2, <2>3 DEF Preflight
<1>12. CASE Claims(p)
  BY <1>3, <1>4, <1>12 DEF Claims, Claim, ClaimAnyway, RecordOverride, Loaded, Ends
<1>13. CASE SyncAgain(p) \/ UpdateHandoff(p)
  BY <1>3, <1>13 DEF SyncAgain, UpdateHandoff, Loaded
<1>14. CASE Quit(p) \/ Killed(p)
  <2>1. /\ pc'[p] = "idle" /\ overlapped' = overlapped /\ pc[p] # "idle"
        /\ \A q \in Proc : q # p => pc'[q] = pc[q] /\ mem'[q] = mem[q]
    BY <1>1, <1>14 DEF Quit, Killed, Leaves
  <2> QED BY <2>1, StaysUpToDate
<1> QED BY <1>2, <1>6, <1>7, <1>8, <1>9, <1>11, <1>12, <1>13, <1>14

LEMMA UpToDateInvariant == Spec => [](Inv /\ UpToDate)
<1>1. Init => UpToDate
  BY DEF Init, UpToDate
<1>2. ASSUME Inv, UpToDate, [Next]_vars PROVE UpToDate'
  <2>1. CASE UNCHANGED vars
    BY <1>2, <2>1 DEF UpToDate, vars
  <2> QED BY <1>2, <2>1, StepKeepsUpToDate DEF Next
<1> QED BY <1>1, <1>2, SpecInv, PTL DEF Spec

\* ... and would save one of these, when it follows pt ux-status.
Proposed(r) ==
  \/ task.ux = "none" /\ \E type \in UxType \ {"none"} : r = Enabled(task, type)
  \/ /\ task.ux # "none" /\ task.status \in {"none", "pending", "cases"} /\ task.cases = <<>>
     /\ 0 < MaxCases /\ \E g \in Goal : r = WithCase(task, g)
  \/ /\ task.ux # "none" /\ task.status \in {"none", "pending", "cases"} /\ task.cases # <<>>
     /\ r = Explored(task)
  \/ task.ux # "none" /\ task.status = "explore" /\ r = Selected(task, 1)
  \/ /\ task.ux # "none" /\ task.status = "explore" /\ task.iterations <= Enforced
     /\ r = Iterated(task)

Hinted(p) == HintEnable(p) \/ HintCases(p) \/ HintExplore(p)

(* Process p saves r, and acknowledges the use case r has and the store    *)
(* has not.                                                                *)
Proposes(p, r) ==
  IF task.ux = "none"
  THEN SavesAndGoesOn(p, r, "enabled")
  ELSE Saves(p, r) /\ told' = told \cup (Range(r.cases) \ Range(task.cases)) /\ UNCHANGED rebuilds

(* How many hints there are to the end of the exploration, at most: each   *)
(* iteration that is left takes a use case, if there is none, one look at  *)
(* the options and one decision.                                           *)
Rounds(r) == IF r.iterations < Enforced THEN Enforced - r.iterations ELSE 0

Steps(r) ==
  CASE r.status \in {"selected", "escalate"} -> 0
    [] r.status = "explore" -> 1 + 3 * Rounds(r)
    [] OTHER -> 2 + 3 * Rounds(r) + (IF r.cases = <<>> THEN 1 ELSE 0)

Distance(r) == Steps(r) + (IF r.ux = "none" THEN 1 ELSE 0)

LEMMA DistanceType ==
  ASSUME NEW r \in Task
  PROVE  Rounds(r) \in Nat /\ Steps(r) \in Nat /\ Distance(r) \in Nat
<1>1. r.iterations \in Nat /\ Enforced \in Nat
  BY DEF Task, Enforced
<1>2. Rounds(r) \in Nat
  BY <1>1 DEF Rounds
<1>3. Steps(r) \in Nat
  BY <1>2 DEF Steps
<1> QED BY <1>2, <1>3 DEF Distance

\* Whatever a hint proposes is a record nearer to the end of the exploration.
LEMMA ProposalsAreNearer ==
  ASSUME Inv, 0 < MaxOptions, NEW r, Proposed(r)
  PROVE  r \in Task /\ Distance(r) < Distance(task)
<1>1. task \in Task /\ SoundHere(task)
  BY DEF Inv, Records, SoundHere, Sound
<1>2. /\ Enforced \in Nat /\ task.iterations \in Nat /\ Rounds(task) \in Nat /\ Steps(task) \in Nat
      /\ task.status \in Status /\ task.cases \in Seq(Goal)
  BY <1>1, DistanceType DEF Task, Enforced
<1>3. ASSUME NEW s, SoundHere(s) PROVE s \in Task
  BY <1>3 DEF SoundHere, Sound
<1>4. CASE task.ux = "none" /\ \E type \in UxType \ {"none"} : r = Enabled(task, type)
  <2>1. PICK type \in UxType \ {"none"} : r = Enabled(task, type)
    BY <1>4
  <2>2. r \in Task
    BY <1>1, <1>3, <1>4, <2>1, EnabledIsSound DEF SoundHere
  <2>3. /\ r.ux = type /\ r.status = task.status /\ r.cases = task.cases
        /\ r.iterations = task.iterations
    BY <1>1, <2>1 DEF Enabled, Task
  <2>4. Steps(r) = Steps(task)
    BY <2>3 DEF Steps, Rounds
  <2> QED BY <1>2, <1>4, <2>1, <2>2, <2>3, <2>4 DEF Distance
<1>5. CASE /\ task.ux # "none" /\ task.status \in {"none", "pending", "cases"} /\ task.cases = <<>>
           /\ 0 < MaxCases /\ \E g \in Goal : r = WithCase(task, g)
  <2>1. PICK g \in Goal : r = WithCase(task, g)
    BY <1>5
  <2>2. r \in Task
    BY <1>1, <1>3, <2>1, CaseIsSound DEF SoundHere
  <2>3. /\ r.ux = task.ux /\ r.status \in {"pending", "cases"} /\ r.cases # <<>>
        /\ r.iterations = task.iterations
    BY <1>1, <1>2, <1>5, <2>1 DEF WithCase, Started, Task
  <2>4. Rounds(r) = Rounds(task)
    BY <2>3 DEF Rounds
  <2>5. Steps(r) = 2 + 3 * Rounds(task)
    BY <1>2, <2>3, <2>4 DEF Steps
  <2>6. Steps(task) = 3 + 3 * Rounds(task)
    BY <1>2, <1>5 DEF Steps
  <2> QED BY <1>2, <1>5, <2>2, <2>3, <2>5, <2>6 DEF Distance
<1>6. CASE /\ task.ux # "none" /\ task.status \in {"none", "pending", "cases"} /\ task.cases # <<>>
           /\ r = Explored(task)
  <2>1. r \in Task
    BY <1>1, <1>3, <1>6, ExploredIsSound DEF SoundHere
  <2>2. r.ux = task.ux /\ r.status = "explore" /\ r.iterations = task.iterations
    BY <1>1, <1>6 DEF Explored, Task
  <2>3. Steps(r) = 1 + 3 * Rounds(task)
    BY <2>2 DEF Steps, Rounds
  <2>4. Steps(task) = 2 + 3 * Rounds(task)
    BY <1>2, <1>6 DEF Steps
  <2> QED BY <1>2, <1>6, <2>1, <2>2, <2>3, <2>4 DEF Distance
<1>7. CASE task.ux # "none" /\ task.status = "explore" /\ r = Selected(task, 1)
  <2>1. 1 \in Label
    BY DEF Label
  <2>2. r \in Task
    BY <1>1, <1>3, <1>7, <2>1, SelectedIsSound DEF SoundHere
  <2>3. r.ux = task.ux /\ r.status = "selected"
    BY <1>1, <1>7 DEF Selected, Task
  <2>4. Steps(r) = 0 /\ Steps(task) = 1 + 3 * Rounds(task)
    BY <1>7, <2>3 DEF Steps
  <2> QED BY <1>2, <1>7, <2>2, <2>3, <2>4 DEF Distance
<1>8. CASE /\ task.ux # "none" /\ task.status = "explore" /\ task.iterations <= Enforced
           /\ r = Iterated(task)
  <2>1. r \in Task
    BY <1>1, <1>3, <1>8, IteratedIsSound DEF SoundHere
  <2>2. Steps(task) = 1 + 3 * Rounds(task)
    BY <1>8 DEF Steps
  <2>3. CASE task.iterations + 1 >= Enforced
    <3>1. r.ux = task.ux /\ r.status = "escalate"
      BY <1>1, <1>8, <2>3 DEF Iterated, Task
    <3>2. Steps(r) = 0
      BY <3>1 DEF Steps
    <3> QED BY <1>2, <1>8, <2>1, <2>2, <3>1, <3>2 DEF Distance
  <2>4. CASE ~(task.iterations + 1 >= Enforced)
    <3>1. /\ r.ux = task.ux /\ r.status = "cases" /\ r.cases = task.cases
          /\ r.iterations = task.iterations + 1
      BY <1>1, <1>8, <2>4 DEF Iterated, Task
    <3>2. Rounds(r) \in Nat /\ Rounds(task) = Rounds(r) + 1
      BY <1>2, <2>4, <3>1 DEF Rounds
    <3>3. Steps(r) <= 3 + 3 * Rounds(r) /\ Steps(r) \in Nat
      BY <3>1, <3>2 DEF Steps
    <3> QED BY <1>2, <1>8, <2>1, <2>2, <3>1, <3>2, <3>3 DEF Distance
  <2> QED BY <2>3, <2>4
<1> QED BY <1>4, <1>5, <1>6, <1>7, <1>8 DEF Proposed

LEMMA FirstCase ==
  ASSUME NEW r \in Task, NEW g \in Goal, r.cases = <<>>
  PROVE  WithCase(r, g).cases = <<g>> /\ Range(WithCase(r, g).cases) = {g} /\ Range(r.cases) = {}
<1>1. WithCase(r, g).cases = Append(<<>>, g)
  BY DEF WithCase, Started, Task
<1>2. WithCase(r, g).cases = <<g>>
  BY <1>1
<1> QED BY <1>2 DEF Range

\* What a hint saves is a proposal ...
LEMMA HintsPropose ==
  ASSUME Inv, UpToDate, ~overlapped, NEW p \in Proc, Hinted(p)
  PROVE  \E r : Proposed(r) /\ Proposes(p, r)
<1>1. task \in Task /\ mem[p] = task
  BY DEF Inv, Records, SoundHere, Sound, UpToDate, Hinted, HintEnable, HintCases, HintExplore,
         Enable, AddCase, Explore, Select, Iterate, Enabling, LoadedUx, Loaded
<1>2. task.cases \in Seq(Goal)
  BY <1>1 DEF Task
<1>3. CASE HintEnable(p)
  <2>1. task.ux = "none"
    BY <1>1, <1>3 DEF HintEnable, Enable
  <2>2. PICK type \in UxType \ {"none"} : SavesAndGoesOn(p, Enabled(task, type), "enabled")
    BY <1>1, <1>3 DEF HintEnable, Enable
  <2> QED BY <2>1, <2>2 DEF Proposed, Proposes
<1>4. ASSUME NEW r, Proposed(r), Ends(p, r), r.cases = task.cases, task.ux # "none"
      PROVE  \E s : Proposed(s) /\ Proposes(p, s)
  <2>1. told' = told \cup (Range(r.cases) \ Range(task.cases))
    BY <1>4 DEF Ends
  <2> QED BY <1>4, <2>1 DEF Proposes, Ends
<1>5. CASE HintCases(p)
  <2>1. CASE task.cases = <<>>
    <3>1. PICK g \in Goal : AddCase(p, g)
      BY <1>1, <1>5, <2>1 DEF HintCases
    <3> DEFINE r == WithCase(task, g)
    <3>2. Saves(p, r) /\ UNCHANGED rebuilds /\ told' = told \cup {g} /\ task.ux # "none" /\ Len(task.cases) < MaxCases
      BY <1>1, <3>1 DEF AddCase, Enabling
    <3>3. Len(task.cases) = 0 /\ 0 < MaxCases
      BY <2>1, <3>2
    <3>4. Proposed(r)
      BY <1>5, <2>1, <3>2, <3>3 DEF HintCases, Proposed
    <3>5. Range(r.cases) = {g} /\ Range(task.cases) = {}
      BY <1>1, <2>1, FirstCase
    <3>6. told' = told \cup (Range(r.cases) \ Range(task.cases))
      BY <3>2, <3>5
    <3> QED BY <3>2, <3>4, <3>6 DEF Proposes
  <2>2. CASE task.cases # <<>>
    <3>1. Ends(p, Explored(task)) /\ task.ux # "none"
      BY <1>1, <1>5, <2>2 DEF HintCases, Explore, LoadedUx
    <3>2. Proposed(Explored(task)) /\ Explored(task).cases = task.cases
      BY <1>1, <1>5, <2>2, <3>1 DEF HintCases, Proposed, Explored, Task
    <3> QED BY <1>4, <3>1, <3>2
  <2> QED BY <2>1, <2>2
<1>6. CASE HintExplore(p)
  <2>1. CASE Select(p, 1)
    <3>1. Ends(p, Selected(task, 1)) /\ task.ux # "none" /\ task.status = "explore"
      BY <1>1, <1>6, <2>1 DEF HintExplore, Select, LoadedUx
    <3>2. Proposed(Selected(task, 1)) /\ Selected(task, 1).cases = task.cases
      BY <1>1, <3>1 DEF Proposed, Selected, Task
    <3> QED BY <1>4, <3>1, <3>2
  <2>2. CASE Iterate(p)
    <3>1. /\ Ends(p, Iterated(task)) /\ task.ux # "none" /\ task.status = "explore"
          /\ task.iterations <= Enforced
      BY <1>1, <1>6, <2>2 DEF HintExplore, Iterate, LoadedUx
    <3>2. Proposed(Iterated(task)) /\ Iterated(task).cases = task.cases
      BY <1>1, <3>1 DEF Proposed, Iterated, Task
    <3> QED BY <1>4, <3>1, <3>2
  <2> QED BY <1>6, <2>1, <2>2 DEF HintExplore
<1> QED BY <1>3, <1>5, <1>6 DEF Hinted

\* ... and a command that has loaded the store and saves a proposal is hinted.
LEMMA ProposalsAreHinted ==
  ASSUME Inv, UpToDate, ~overlapped, NEW p \in Proc, pc[p] = "loaded", NEW r, Proposed(r), Proposes(p, r)
  PROVE  Hinted(p)
<1>1. task \in Task /\ mem[p] = task /\ Loaded(p)
  BY DEF Inv, Records, SoundHere, Sound, UpToDate, Loaded
<1>2. ASSUME r.cases = task.cases, task.ux # "none" PROVE Ends(p, r)
  <2>1. told' = told
    BY <1>2 DEF Proposes
  <2> QED BY <1>2, <2>1 DEF Proposes, Ends
<1>3. CASE task.ux = "none" /\ \E type \in UxType \ {"none"} : r = Enabled(task, type)
  BY <1>1, <1>3 DEF Proposes, Hinted, HintEnable, Enable
<1>4. CASE /\ task.ux # "none" /\ task.status \in {"none", "pending", "cases"} /\ task.cases = <<>>
           /\ 0 < MaxCases /\ \E g \in Goal : r = WithCase(task, g)
  <2>1. PICK g \in Goal : r = WithCase(task, g)
    BY <1>4
  <2>2. Range(r.cases) = {g} /\ Range(task.cases) = {}
    BY <1>1, <1>4, <2>1, FirstCase
  <2>3. Len(task.cases) < MaxCases
    BY <1>4
  <2>4. told' = told \cup {g}
    BY <1>4, <2>2 DEF Proposes
  <2>5. AddCase(p, g)
    BY <1>1, <1>4, <2>1, <2>3, <2>4 DEF Proposes, AddCase, Enabling, Loaded
  <2> QED BY <1>1, <1>4, <2>5 DEF Hinted, HintCases
<1>5. CASE /\ task.ux # "none" /\ task.status \in {"none", "pending", "cases"} /\ task.cases # <<>>
           /\ r = Explored(task)
  <2>1. r.cases = task.cases
    BY <1>1, <1>5 DEF Explored, Task
  <2> QED BY <1>1, <1>2, <1>5, <2>1 DEF Hinted, HintCases, Explore, LoadedUx
<1>6. CASE task.ux # "none" /\ task.status = "explore" /\ r = Selected(task, 1)
  <2>1. r.cases = task.cases
    BY <1>1, <1>6 DEF Selected, Task
  <2> QED BY <1>1, <1>2, <1>6, <2>1 DEF Hinted, HintExplore, Select, LoadedUx, Begun
<1>7. CASE /\ task.ux # "none" /\ task.status = "explore" /\ task.iterations <= Enforced
           /\ r = Iterated(task)
  <2>1. r.cases = task.cases
    BY <1>1, <1>7 DEF Iterated, Task
  <2> QED BY <1>1, <1>2, <1>7, <2>1 DEF Hinted, HintExplore, Iterate, LoadedUx, Begun
<1> QED BY <1>3, <1>4, <1>5, <1>6, <1>7 DEF Proposed

(* Until an option is selected or the task escalated pt ux-status always   *)
(* proposes something, and everything it proposes brings that nearer, also *)
(* the next iteration: from any state, whatever else was done before, the  *)
(* exploration ends after as many hints as Distance says.                  *)
THEOREM HintsNeverRunOut ==
  ASSUME Goal # {}, 0 < MaxCases, 0 < MaxOptions
  PROVE  Spec => [](/\ Distance(task) \in Nat
                    /\ task.status \notin {"selected", "escalate"} => \E r : Proposed(r)
                    /\ \A r : Proposed(r) => Distance(r) \in Nat /\ Distance(r) < Distance(task))
<1>1. ASSUME Inv
      PROVE  /\ Distance(task) \in Nat
             /\ task.status \notin {"selected", "escalate"} => \E r : Proposed(r)
             /\ \A r : Proposed(r) => Distance(r) \in Nat /\ Distance(r) < Distance(task)
  <2>1. task \in Task /\ task.ux \in UxType /\ task.status \in Status
    BY <1>1 DEF Inv, Records, SoundHere, Sound, Task
  <2>2. ASSUME task.status \notin {"selected", "escalate"} PROVE \E r : Proposed(r)
    <3>1. CASE task.ux = "none"
      BY <3>1 DEF Proposed, UxType
    <3>2. CASE task.ux # "none" /\ task.status = "explore"
      BY <3>2 DEF Proposed
    <3>3. CASE task.ux # "none" /\ task.status # "explore" /\ task.cases = <<>>
      BY <2>1, <2>2, <3>3 DEF Proposed, Status
    <3>4. CASE task.ux # "none" /\ task.status # "explore" /\ task.cases # <<>>
      BY <2>1, <2>2, <3>4 DEF Proposed, Status
    <3> QED BY <3>1, <3>2, <3>3, <3>4
  <2> QED BY <1>1, <2>1, <2>2, DistanceType, ProposalsAreNearer
<1> QED BY <1>1, SpecInv, PTL

(* The proposals are what the hints do: while commands do not overlap, who *)
(* follows a hint saves one of them, and who has loaded the store and      *)
(* saves one of them follows a hint.                                       *)
THEOREM HintsAreTheProposals ==
  Spec => [][~overlapped =>
               \A p \in Proc :
                 /\ Hinted(p) => \E r : Proposed(r) /\ Proposes(p, r)
                 /\ pc[p] = "loaded" /\ (\E r : Proposed(r) /\ Proposes(p, r)) => Hinted(p)]_vars
<1>1. ASSUME Inv, UpToDate, ~overlapped, NEW p \in Proc
      PROVE  /\ Hinted(p) => \E r : Proposed(r) /\ Proposes(p, r)
             /\ pc[p] = "loaded" /\ (\E r : Proposed(r) /\ Proposes(p, r)) => Hinted(p)
  BY <1>1, HintsPropose, ProposalsAreHinted
<1>2. Inv /\ UpToDate =>
        (~overlapped =>
           \A p \in Proc :
             /\ Hinted(p) => \E r : Proposed(r) /\ Proposes(p, r)
             /\ pc[p] = "loaded" /\ (\E r : Proposed(r) /\ Proposes(p, r)) => Hinted(p))
  BY <1>1
<1> QED BY <1>2, UpToDateInvariant, PTL
=============================================================================
