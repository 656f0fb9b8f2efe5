------------------------------ MODULE Planning ------------------------------
(***************************************************************************)
(* The pt commands that build and change a plan: sync (with phase labels   *)
(* and --generate-reviews), add, and update --title (cmd/pt/main.go), as   *)
(* processes that may overlap and may be killed between any two writes of  *)
(* the store file.                                                         *)
(*                                                                         *)
(* As in Transitioner a process loads the file once and replaces it as a   *)
(* whole after every store call.  A write that fails before the labels     *)
(* ends the command with an error, like a kill; a label write is allowed   *)
(* to fail, and may be repeated once per task.                             *)
(*                                                                         *)
(* Abstractions.  A task is its title, its id and its dependencies; of a   *)
(* label write only the replacement of the file is left.  Workflow rails   *)
(* (--generate-phase-reviews) are further add and label writes.            *)
(***************************************************************************)
EXTENDS PlanStore

CONSTANTS
  Proc,       \* process slots
  Manifests,  \* the manifests that are synced: [titles -> SUBSET titles]
  ReviewOf,   \* ReviewOf[t]: the title "[Review] t"
  MaxArgs,    \* bound: how many --deps one pt add is given
  None        \* an empty slot

ASSUME PlanningAssumption ==
  /\ \A m \in Manifests : \E T \in SUBSET Title : m \in [T -> SUBSET T]
  /\ \A t \in DOMAIN ReviewOf : ReviewOf[t] \in Title
  /\ \A t, u \in DOMAIN ReviewOf : ReviewOf[t] = ReviewOf[u] => t = u
  /\ None \notin Id

VARIABLES
  file,       \* the store file
  pc,         \* pc[p]: what process p does next
  cmd,        \* cmd[p]: its command line
  mem,        \* mem[p]: its snapshot, StoreClient.data
  ids,        \* ids[p]: the ids it has handed out, by title (idMap, reviewIDs)
  todo,       \* todo[p]: the titles that still wait for their review task
  told,       \* auxiliary: what commands told the user before any two overlapped
  overlapped, \* auxiliary: two processes have existed at the same time
  started     \* auxiliary: how many commands have been started

aux == <<told, overlapped, started>>
vars == <<file, pc, cmd, mem, ids, todo, aux>>

Command ==
  [kind : {"sync"}, manifest : Manifests, reviews : BOOLEAN]
    \cup [kind : {"add"}, title : Title, args : SUBSET (Id \cup Title)]
    \cup [kind : {"rename"}, id : Id, title : Title]

Step == {"idle", "sync", "add", "rename", "label", "review", "link"}

NothingTold == [titles |-> {}, deps |-> {}]

Init ==
  /\ file = EmptyDb
  /\ pc = [p \in Proc |-> "idle"]
  /\ cmd = [p \in Proc |-> None]
  /\ mem = [p \in Proc |-> EmptyDb]
  /\ ids = [p \in Proc |-> <<>>]
  /\ todo = [p \in Proc |-> {}]
  /\ told = NothingTold
  /\ overlapped = FALSE
  /\ started = 0
-----------------------------------------------------------------------------
Begin(p, c) ==
  /\ pc[p] = "idle"
  /\ pc' = [pc EXCEPT ![p] = c.kind]
  /\ cmd' = [cmd EXCEPT ![p] = c]
  /\ mem' = [mem EXCEPT ![p] = file]
  /\ overlapped' = (overlapped \/ \E q \in Proc : pc[q] # "idle")
  /\ told' = IF overlapped' THEN NothingTold ELSE told
  /\ started' = started + 1
  /\ UNCHANGED <<file, ids, todo>>

BeginSync(p, m, r) == Begin(p, [kind |-> "sync", manifest |-> m, reviews |-> r])

BeginAdd(p, t, args) == Begin(p, [kind |-> "add", title |-> t, args |-> args])

BeginRename(p, i, t) == Begin(p, [kind |-> "rename", id |-> i, title |-> t])

Exit(p) ==
  /\ pc' = [pc EXCEPT ![p] = "idle"]
  /\ cmd' = [cmd EXCEPT ![p] = None]
  /\ mem' = [mem EXCEPT ![p] = EmptyDb]
  /\ ids' = [ids EXCEPT ![p] = <<>>]
  /\ todo' = [todo EXCEPT ![p] = {}]

\* The process replaces the file by db, and holds db from now on.
Save(p, db) == file' = db /\ mem' = [mem EXCEPT ![p] = db]

MayNumber(db, ts) == db.next + Cardinality(Unknown(db, ts)) <= MaxId

SaveSync(p) ==
  LET m == cmd[p].manifest IN
  /\ pc[p] = "sync"
  /\ ~ HasCycle(m)
  /\ MayNumber(mem[p], DOMAIN m)
  /\ \E f \in Numberings(mem[p], DOMAIN m) :
       /\ Save(p, Sync(mem[p], m, f))
       /\ ids' = [ids EXCEPT ![p] = IdMap(mem[p], f)]
  /\ todo' = [todo EXCEPT ![p] = IF cmd[p].reviews THEN DOMAIN m ELSE {}]
  /\ pc' = [pc EXCEPT ![p] = "label"]
  /\ UNCHANGED <<cmd, aux>>

SaveAdd(p) ==
  LET t == cmd[p].title IN
  /\ pc[p] = "add"
  /\ \A a \in cmd[p].args : Resolves(mem[p], a)
  /\ MayNumber(mem[p], {t})
  /\ \E f \in Numberings(mem[p], {t}) :
       /\ Save(p, AddTask(mem[p], f, cmd[p].args))
       /\ ids' = [ids EXCEPT ![p] = IdMap(mem[p], f)]
  /\ pc' = [pc EXCEPT ![p] = "label"]
  /\ UNCHANGED <<cmd, todo, aux>>

(* The phase labels: one file replacement per task, errors ignored.        *)
Relabel(p) ==
  /\ pc[p] = "label"
  /\ Save(p, mem[p])
  /\ UNCHANGED <<pc, cmd, ids, todo, aux>>

Labelled(p) ==
  /\ pc[p] = "label"
  /\ pc' = [pc EXCEPT ![p] = "review"]
  /\ UNCHANGED <<file, cmd, mem, ids, todo, aux>>

(* generateReviewTasks.  A manifest that has the review title itself gets  *)
(* no second task, and no dependency.                                      *)
SkipReview(p, t) ==
  /\ pc[p] = "review" /\ t \in todo[p]
  /\ ReviewOf[t] \in DOMAIN cmd[p].manifest
  /\ todo' = [todo EXCEPT ![p] = @ \ {t}]
  /\ UNCHANGED <<file, pc, cmd, mem, ids, aux>>

SaveReview(p, t) ==
  LET r == ReviewOf[t] IN
  /\ pc[p] = "review" /\ t \in todo[p] /\ r \notin DOMAIN cmd[p].manifest
  /\ MayNumber(mem[p], {r})
  /\ \E f \in Numberings(mem[p], {r}) :
       /\ Save(p, AddTask(mem[p], f, {}))
       /\ ids' = [ids EXCEPT ![p] = [u \in DOMAIN @ \cup {r} |->
                                       IF u = r THEN IdMap(mem[p], f)[r] ELSE @[u]]]
  /\ pc' = [pc EXCEPT ![p] = "link"]
  /\ UNCHANGED <<cmd, todo, aux>>

\* A link between the right tasks, the wrong way round.
SaveLinkReversed(p, t) ==
  /\ pc[p] = "link" /\ t \in todo[p]
  /\ ReviewOf[t] \in DOMAIN ids[p] \ DOMAIN cmd[p].manifest
  /\ Save(p, AddDeps(mem[p], {<<ids[p][ReviewOf[t]], ids[p][t]>>}))
  /\ todo' = [todo EXCEPT ![p] = @ \ {t}]
  /\ pc' = [pc EXCEPT ![p] = "review"]
  /\ UNCHANGED <<cmd, ids, aux>>

SaveLink(p, t) ==
  /\ pc[p] = "link" /\ t \in todo[p]
  /\ ReviewOf[t] \in DOMAIN ids[p] \ DOMAIN cmd[p].manifest
  /\ Save(p, AddDeps(mem[p], {<<ids[p][t], ids[p][ReviewOf[t]]>>}))
  /\ todo' = [todo EXCEPT ![p] = @ \ {t}]
  /\ pc' = [pc EXCEPT ![p] = "review"]
  /\ UNCHANGED <<cmd, ids, aux>>

SaveRename(p) ==
  LET c == cmd[p] IN
  /\ pc[p] = "rename"
  /\ c.id \in Ids(mem[p]) /\ mem[p].title[c.id] # c.title
  /\ file' = Rename(mem[p], c.id, c.title)
  /\ told' = IF overlapped THEN told ELSE
               [told EXCEPT !.titles = {x \in @ : x.id # c.id}
                                         \cup {[id |-> c.id, title |-> c.title]}]
  /\ Exit(p)
  /\ UNCHANGED <<overlapped, started>>

(* What the output of a finished command promises: these titles have these *)
(* ids; these tasks wait for those.                                        *)
Reviewed(p) ==
  IF cmd[p].kind = "sync" /\ cmd[p].reviews THEN DOMAIN cmd[p].manifest ELSE {}

\* A review that the manifest itself lists is not waited for.
PromisedDeps(p) ==
  {<<ids[p][t], ids[p][ReviewOf[t]]>> : t \in {u \in Reviewed(p) : ReviewOf[u] \notin DOMAIN cmd[p].manifest}}
    \cup IF cmd[p].kind = "add"
         THEN {<<ids[p][cmd[p].title], Resolved(mem[p], a)>> : a \in cmd[p].args}
         ELSE ManifestDeps(cmd[p].manifest, ids[p])

Finish(p) ==
  /\ pc[p] = "review" /\ todo[p] = {}
  /\ told' = IF overlapped THEN told ELSE
              [titles |-> told.titles \cup {[id |-> ids[p][t], title |-> t] : t \in DOMAIN ids[p]},
               deps |-> told.deps \cup {d \in PromisedDeps(p) : d[1] # d[2]}]
  /\ Exit(p)
  /\ UNCHANGED <<file, overlapped, started>>

\* Killed, refused, or a write failed and its error ended the command.
Quit(p) ==
  /\ pc[p] # "idle"
  /\ Exit(p)
  /\ UNCHANGED <<file, aux>>

Start(p) ==
  \/ \E m \in Manifests, r \in BOOLEAN :
       (r => DOMAIN m \subseteq DOMAIN ReviewOf) /\ BeginSync(p, m, r)
  \/ \E t \in Title, args \in SUBSET (Ids(file) \cup Title) :
       Cardinality(args) <= MaxArgs /\ BeginAdd(p, t, args)
  \/ \E i \in Ids(file), t \in Title : BeginRename(p, i, t)

Continue(p) ==
  \/ SaveSync(p) \/ SaveAdd(p) \/ SaveRename(p)
  \/ Relabel(p) \/ Labelled(p)
  \/ \E t \in todo[p] : SkipReview(p, t) \/ SaveReview(p, t) \/ SaveLink(p, t)
  \/ Finish(p) \/ Quit(p)

Next == \E p \in Proc : Start(p) \/ Continue(p)

Spec == Init /\ [][Next]_vars
-----------------------------------------------------------------------------
TypeOK ==
  /\ file \in Db
  /\ pc \in [Proc -> Step]
  /\ mem \in [Proc -> Db]
  /\ DOMAIN cmd = Proc /\ \A p \in Proc : pc[p] # "idle" => cmd[p] \in Command
  /\ \A p \in Proc : DOMAIN ids[p] \subseteq Title /\ \A t \in DOMAIN ids[p] : ids[p][t] \in Id
  /\ todo \in [Proc -> SUBSET Title]
  /\ overlapped \in BOOLEAN /\ started \in Nat

(* However many commands race and wherever they are killed, the file makes *)
(* sense: no id below NextID is reused, no dependency dangles, the title   *)
(* map points at issues of that title.  Lost updates happen, torn plans    *)
(* do not: every write is the whole of one coherent snapshot.              *)
AlwaysCoherent == Coherent(file) /\ \A p \in Proc : Coherent(mem[p])

(* As long as no two commands have overlapped, what pt printed stays true: *)
(* an id keeps the title it was printed with (until update --title), and a *)
(* task keeps waiting for the dependencies, and for the review tasks made  *)
(* for it, that sync and add reported, whatever later commands do or where *)
(* they die.                                                               *)
NothingToldIsLost ==
  ~ overlapped =>
    /\ \A x \in told.titles : file.title[x.id] = x.title
    /\ \A d \in told.deps : d[2] \in file.deps[d[1]]

(* store.go, Sync: "Detect dependency cycles by title before writing       *)
(* anything.  This prevents creating a corrupted plan that can never be    *)
(* made ready."                                                            *)
PlanCanBeWorkedOff == ~ overlapped => Acyclic(file)
=============================================================================
