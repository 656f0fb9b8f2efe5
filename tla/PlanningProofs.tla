--------------------------- MODULE PlanningProofs ---------------------------
(***************************************************************************)
(* The plan file makes sense at any time, for any titles, manifests and    *)
(* number of racing processes: TypeOK and AlwaysCoherent hold in every     *)
(* reachable state of Planning.                                            *)
(*                                                                         *)
(* A process writes only what it computed from its own snapshot, so it is  *)
(* enough that every snapshot is coherent and that the ids a process has   *)
(* handed out are ids of its snapshot.  Below are the lemmas on the store  *)
(* calls, the invariant, one case per action, the theorems; then, that     *)
(* nothing a command reported is lost while commands do not overlap, that  *)
(* a sync run twice is a sync run once, and which commands leave a plan    *)
(* that can be worked off.                                                 *)
(***************************************************************************)
EXTENDS Planning, TLAPS, FiniteSetTheorems, WellFoundedInduction

\* A coherent snapshot.
Sound(db) == db \in Db /\ Coherent(db)

\* e has the tasks of db, under their titles, with their dependencies.
Extends(db, e) ==
  /\ \A i \in Ids(db) : e.title[i] = db.title[i]
  /\ \A i \in Id : db.deps[i] \subseteq e.deps[i]

\* addDepLocked made i wait for d, unless they are the same task.
Waits(db, i, d) == i \in Id /\ d \in Id /\ (i # d => d \in db.deps[i])

\* w is db with a task t under the id i, which waits for what args name.
Added(db, w, t, i, args) ==
  /\ Extends(db, w) /\ w.title[i] = t
  /\ \A a \in args : Waits(w, i, Resolved(w, a))

(* New titles get unused numbers and known ones keep an id that bears      *)
(* them, so ensureIssueLocked keeps the store coherent, and the row found  *)
(* under an id bears that id.                                              *)
LEMMA EnsureIssuesSound ==
  ASSUME NEW db, Sound(db), NEW ts \in SUBSET Title, MayNumber(db, ts),
         NEW f \in Numberings(db, ts)
  PROVE  /\ Sound(EnsureIssues(db, f))
         /\ Ids(db) \subseteq Ids(EnsureIssues(db, f))
         /\ IdMap(db, f) \in [ts -> Ids(EnsureIssues(db, f))]
         /\ Extends(db, EnsureIssues(db, f))
         /\ Ids(EnsureIssues(db, f)) \subseteq Ids(db) \cup {IdMap(db, f)[t] : t \in ts}
         /\ \A t \in ts : /\ EnsureIssues(db, f).title[IdMap(db, f)[t]] = t
                        /\ EnsureIssues(db, f).titleMap[t] = IdMap(db, f)[t]
         /\ \A t \in Title \ ts : EnsureIssues(db, f).titleMap[t] = db.titleMap[t]
<1> DEFINE new == Unknown(db, ts)
           e == EnsureIssues(db, f)
<1>1. /\ f \in [ts -> Id] /\ DOMAIN f = ts /\ new \subseteq ts
      /\ \A t \in ts \ new : db.title[f[t]] = t
      /\ \A t, u \in new : f[t] = f[u] => t = u
      /\ {f[t] : t \in new} = (db.next + 1)..(db.next + Cardinality(new))
  BY DEF Numberings, Unknown
<1>2. IsFiniteSet(new) /\ Cardinality(new) \in Nat
  BY <1>1, FS_Subset, FS_CardinalityType, StoreAssumption
<1>3. /\ db.next \in 0..MaxId /\ db.title \in [Id -> Title \cup {Absent}]
      /\ db.row \in [Id -> Id] /\ db.deps \in [Id -> SUBSET Id]
      /\ db.titleMap \in [Title -> 0..MaxId]
      /\ db = [next |-> db.next, title |-> db.title, row |-> db.row,
               deps |-> db.deps, titleMap |-> db.titleMap]
  BY DEF Sound, Db
<1>4. db.next + Cardinality(new) \in 0..MaxId
  BY <1>2, <1>3, StoreAssumption DEF MayNumber
<1>5. /\ e.next = db.next + Cardinality(new)
      /\ e.title = [i \in Id |-> IF \E t \in new : f[t] = i
                                 THEN CHOOSE t \in new : f[t] = i ELSE db.title[i]]
      /\ e.row = [i \in Id |-> IF \E t \in new : f[t] = i THEN i ELSE db.row[i]]
      /\ e.deps = db.deps
      /\ e.titleMap = [t \in Title |-> IF t \in DOMAIN f THEN f[t] ELSE db.titleMap[t]]
      /\ e = [next |-> e.next, title |-> e.title, row |-> e.row,
              deps |-> e.deps, titleMap |-> e.titleMap]
  BY <1>1, <1>3 DEF EnsureIssues
<1>6. \A t \in new : f[t] \in Id /\ f[t] > db.next /\ f[t] <= e.next
  <2> SUFFICES ASSUME NEW t \in new PROVE f[t] \in Id /\ f[t] > db.next /\ f[t] <= e.next
    OBVIOUS
  <2>1. f[t] \in (db.next + 1)..(db.next + Cardinality(new))
    BY <1>1
  <2> QED BY <2>1, <1>1, <1>2, <1>3, <1>5
<1>7. \A i \in Ids(db) : i \in Id /\ i <= db.next
  BY <1>3 DEF Sound, Coherent, Ids
<1>8. \A i \in Ids(db) : ~ \E t \in new : f[t] = i
  BY <1>6, <1>7, <1>3 DEF Id
<1>9. \A t \in new : e.title[f[t]] = t
  <2> SUFFICES ASSUME NEW t \in new PROVE e.title[f[t]] = t
    OBVIOUS
  <2>1. f[t] \in Id
    BY <1>6
  <2>2. e.title[f[t]] = CHOOSE u \in new : f[u] = f[t]
    BY <2>1, <1>5
  <2>3. \A u \in new : f[u] = f[t] => u = t
    BY <1>1
  <2> QED BY <2>2, <2>3
<1>10. \A i \in Ids(db) : e.title[i] = db.title[i]
  BY <1>5, <1>7, <1>8
<1>11. \A i \in Ids(db) : e.row[i] = db.row[i]
  BY <1>5, <1>7, <1>8
<1>12. \A t \in ts : e.title[f[t]] = t
  <2> SUFFICES ASSUME NEW t \in ts, t \notin new PROVE e.title[f[t]] = t
    BY <1>9
  <2>1. db.title[f[t]] = t /\ f[t] \in Id /\ t # Absent
    BY <1>1, StoreAssumption
  <2>2. f[t] \in Ids(db)
    BY <2>1 DEF Ids
  <2> QED BY <2>1, <2>2, <1>10
<1>13. \A i \in Id : e.title[i] \in Title \cup {Absent}
  <2> SUFFICES ASSUME NEW i \in Id PROVE e.title[i] \in Title \cup {Absent}
    OBVIOUS
  <2>1. CASE \E t \in new : f[t] = i
    BY <2>1, <1>9, <1>1
  <2>2. CASE ~ \E t \in new : f[t] = i
    BY <2>2, <1>5, <1>3
  <2> QED BY <2>1, <2>2
<1>14. e \in Db
  <2>1. e.title \in [Id -> Title \cup {Absent}]
    BY <1>13, <1>5
  <2>2. e.row \in [Id -> Id]
    BY <1>5, <1>3
  <2>3. e.titleMap \in [Title -> 0..MaxId]
    BY <1>5, <1>3, <1>1 DEF Id
  <2> QED BY <2>1, <2>2, <2>3, <1>3, <1>4, <1>5 DEF Db
<1>15. Ids(db) \subseteq Ids(e)
  BY <1>10 DEF Ids
<1>16. Ids(e) \subseteq Ids(db) \cup {f[t] : t \in new}
  BY <1>5 DEF Ids
<1>17. \A t \in ts : f[t] \in Ids(e)
  BY <1>12, <1>1, StoreAssumption DEF Ids
<1>18. \A i \in Ids(e) : e.row[i] = i
  <2> SUFFICES ASSUME NEW i \in Ids(e) PROVE e.row[i] = i
    OBVIOUS
  <2>1. CASE i \in Ids(db)
    BY <2>1, <1>11 DEF Sound, Coherent
  <2>2. CASE \E t \in new : f[t] = i
    BY <2>2, <1>5, <1>6
  <2> QED BY <2>1, <2>2, <1>16
<1>19. Ids(e) \subseteq 1..e.next
  BY <1>16, <1>6, <1>7, <1>5, <1>2, <1>3 DEF Id
<1>20. /\ \A i \in Id : e.deps[i] \subseteq Ids(e) \ {i}
       /\ \A i \in Id \ Ids(e) : e.deps[i] = {}
  BY <1>5, <1>15 DEF Sound, Coherent
<1>21. \A t \in Title : e.titleMap[t] # 0 => e.title[e.titleMap[t]] = t
  <2> SUFFICES ASSUME NEW t \in Title, e.titleMap[t] # 0 PROVE e.title[e.titleMap[t]] = t
    OBVIOUS
  <2>1. CASE t \in ts
    BY <2>1, <1>12, <1>5, <1>1
  <2>2. CASE t \notin ts
    <3>1. e.titleMap[t] = db.titleMap[t] /\ db.titleMap[t] \in Id
      BY <2>2, <1>1, <1>3, <1>5 DEF Id
    <3>2. db.title[db.titleMap[t]] = t
      BY <3>1 DEF Sound, Coherent
    <3>3. db.titleMap[t] \in Ids(db)
      BY <3>1, <3>2, StoreAssumption DEF Ids
    <3> QED BY <3>1, <3>2, <3>3, <1>10
  <2> QED BY <2>1, <2>2
<1>22. IdMap(db, f) \in [ts -> Ids(e)]
  BY <1>1, <1>17, <1>18 DEF IdMap
<1>23. \A t \in ts : IdMap(db, f)[t] = f[t]
  BY <1>1, <1>17, <1>18 DEF IdMap
<1>24. Sound(e) /\ Extends(db, e)
  BY <1>5, <1>10, <1>14, <1>18, <1>19, <1>20, <1>21 DEF Sound, Coherent, Extends
<1>25. Ids(e) \subseteq Ids(db) \cup {IdMap(db, f)[t] : t \in ts}
  BY <1>1, <1>16, <1>23
<1>26. \A t \in ts : e.title[IdMap(db, f)[t]] = t /\ e.titleMap[t] = IdMap(db, f)[t]
  BY <1>1, <1>5, <1>12, <1>23
<1>27. \A t \in Title \ ts : e.titleMap[t] = db.titleMap[t]
  BY <1>1, <1>5
<1> QED
  BY <1>15, <1>22, <1>24, <1>25, <1>26, <1>27

\* Dependencies between existing issues keep the store coherent.
LEMMA AddDepsSound ==
  ASSUME NEW db, Sound(db), NEW pairs \in SUBSET (Ids(db) \X Ids(db))
  PROVE  /\ Sound(AddDeps(db, pairs)) /\ Ids(AddDeps(db, pairs)) = Ids(db)
         /\ AddDeps(db, pairs).title = db.title /\ AddDeps(db, pairs).titleMap = db.titleMap
         /\ Extends(db, AddDeps(db, pairs))
         /\ \A i, d \in Id : <<i, d>> \in pairs => Waits(AddDeps(db, pairs), i, d)
<1> DEFINE e == AddDeps(db, pairs)
<1>1. /\ e.next = db.next /\ e.title = db.title /\ e.row = db.row /\ e.titleMap = db.titleMap
      /\ e.deps = [i \in Id |-> db.deps[i] \cup {d \in Id \ {i} : <<i, d>> \in pairs}]
      /\ e \in Db
  BY DEF AddDeps, Sound, Db
<1>2. Ids(e) = Ids(db)
  BY <1>1 DEF Ids
<1>3. \A i, d \in Id : <<i, d>> \in pairs => i \in Ids(db) /\ d \in Ids(db)
  OBVIOUS
<1>4. \A i \in Id : db.deps[i] \subseteq Ids(db) \ {i}
  BY DEF Sound, Coherent
<1>5. \A i \in Id : e.deps[i] \subseteq Ids(e) \ {i}
  BY <1>1, <1>2, <1>3, <1>4
<1>6. \A i \in Id \ Ids(e) : e.deps[i] = {}
  BY <1>1, <1>2, <1>3 DEF Sound, Coherent
<1>7. Extends(db, e) /\ \A i, d \in Id : <<i, d>> \in pairs => Waits(e, i, d)
  BY <1>1 DEF Extends, Waits
<1>8. Sound(e)
  BY <1>1, <1>2, <1>5, <1>6 DEF Sound, Coherent
<1> QED BY <1>1, <1>2, <1>7, <1>8

\* A renamed issue takes its entry of the title map with it.
LEMMA RenameSound ==
  ASSUME NEW db, Sound(db), NEW i \in Ids(db), NEW t \in Title
  PROVE  Sound(Rename(db, i, t))
<1> DEFINE e == Rename(db, i, t)
<1>1. i \in Id /\ db.title[i] # Absent /\ i \in 0..MaxId
  BY DEF Ids, Id
<1>2. db \in Db /\ Coherent(db)
  BY DEF Sound
<1>3. /\ e.next = db.next /\ e.row = db.row /\ e.deps = db.deps
      /\ e.title = [db.title EXCEPT ![i] = t]
      /\ e.titleMap = [u \in Title |-> IF u = t THEN i
                                      ELSE IF u = db.title[i] THEN 0 ELSE db.titleMap[u]]
  BY <1>2 DEF Rename, Db
<1>3a. e \in Db
  <2>1. e.title \in [Id -> Title \cup {Absent}]
    BY <1>1, <1>2, <1>3 DEF Db
  <2>2. e.titleMap \in [Title -> 0..MaxId]
    BY <1>1, <1>2, <1>3, StoreAssumption DEF Db
  <2> QED BY <2>1, <2>2, <1>2, <1>3 DEF Db, Rename
<1>4. Ids(e) = Ids(db)
  BY <1>1, <1>2, <1>3, StoreAssumption DEF Ids, Db
<1>5. \A u \in Title : e.titleMap[u] # 0 => e.title[e.titleMap[u]] = u
  <2> SUFFICES ASSUME NEW u \in Title, e.titleMap[u] # 0 PROVE e.title[e.titleMap[u]] = u
    OBVIOUS
  <2>1. CASE u = t
    BY <2>1, <1>1, <1>2, <1>3 DEF Db
  <2>2. CASE u # t
    <3>1. u # db.title[i] /\ e.titleMap[u] = db.titleMap[u] /\ db.title[db.titleMap[u]] = u
      BY <2>2, <1>2, <1>3 DEF Coherent
    <3> QED BY <3>1, <1>2, <1>3 DEF Db
  <2> QED BY <2>1, <2>2
<1> QED BY <1>2, <1>3, <1>3a, <1>4, <1>5 DEF Sound, Coherent

\* What a sync writes is coherent, and the ids it reports are in it.
LEMMA SyncSound ==
  ASSUME NEW db, Sound(db), NEW m \in Manifests, MayNumber(db, DOMAIN m),
         NEW f \in Numberings(db, DOMAIN m)
  PROVE  /\ Sound(Sync(db, m, f))
         /\ IdMap(db, f) \in [DOMAIN m -> Ids(Sync(db, m, f))]
         /\ Extends(db, Sync(db, m, f))
         /\ \A t \in DOMAIN m : Sync(db, m, f).title[IdMap(db, f)[t]] = t
         /\ \A t \in DOMAIN m : \A d \in m[t] : Waits(Sync(db, m, f), IdMap(db, f)[t], IdMap(db, f)[d])
<1> DEFINE e == EnsureIssues(db, f)
<1>1. DOMAIN m \in SUBSET Title /\ \A t \in DOMAIN m : m[t] \subseteq DOMAIN m
  BY PlanningAssumption
<1>2. Sound(e) /\ IdMap(db, f) \in [DOMAIN m -> Ids(e)]
  BY <1>1, EnsureIssuesSound
<1>3. ManifestDeps(m, IdMap(db, f)) \in SUBSET (Ids(e) \X Ids(e))
  BY <1>1, <1>2 DEF ManifestDeps
<1>4. /\ Sound(Sync(db, m, f)) /\ Ids(Sync(db, m, f)) = Ids(e) /\ Sync(db, m, f).title = e.title
      /\ Extends(e, Sync(db, m, f))
      /\ \A i, d \in Id : <<i, d>> \in ManifestDeps(m, IdMap(db, f)) => Waits(Sync(db, m, f), i, d)
  BY <1>2, <1>3, AddDepsSound DEF Sync
<1>5. Extends(db, e) /\ \A t \in DOMAIN m : e.title[IdMap(db, f)[t]] = t
  BY <1>1, EnsureIssuesSound
<1>6. Extends(db, Sync(db, m, f))
  BY <1>4, <1>5 DEF Extends
<1>7. ASSUME NEW t \in DOMAIN m, NEW d \in m[t]
      PROVE  Waits(Sync(db, m, f), IdMap(db, f)[t], IdMap(db, f)[d])
  <2>1. IdMap(db, f)[t] \in Id /\ IdMap(db, f)[d] \in Id
    BY <1>1, <1>2 DEF Ids
  <2>2. <<IdMap(db, f)[t], IdMap(db, f)[d]>> \in ManifestDeps(m, IdMap(db, f))
    BY DEF ManifestDeps
  <2> QED BY <1>4, <2>1, <2>2
<1> QED BY <1>2, <1>4, <1>5, <1>6, <1>7

\* The same for pt add, whose dependencies are ids or titles of the store.
LEMMA AddTaskSound ==
  ASSUME NEW db, Sound(db), NEW t \in Title, MayNumber(db, {t}),
         NEW f \in Numberings(db, {t}), NEW args, \A a \in args : Resolves(db, a)
  PROVE  /\ Sound(AddTask(db, f, args))
         /\ Ids(db) \subseteq Ids(AddTask(db, f, args))
         /\ IdMap(db, f) \in [{t} -> Ids(AddTask(db, f, args))]
         /\ Added(db, AddTask(db, f, args), t, IdMap(db, f)[t], args)
<1> DEFINE e == EnsureIssues(db, f)
           pairs == {<<i, Resolved(db, a)>> : i \in {IdMap(db, f)[u] : u \in DOMAIN f}, a \in args}
<1>1. {t} \in SUBSET Title
  OBVIOUS
<1>2. Sound(e) /\ Ids(db) \subseteq Ids(e) /\ IdMap(db, f) \in [{t} -> Ids(e)]
  BY <1>1, EnsureIssuesSound
<1>3. DOMAIN f = {t}
  BY DEF Numberings
<1>4. \A a \in args : Resolved(db, a) \in Ids(db)
  <2> SUFFICES ASSUME NEW a \in args PROVE Resolved(db, a) \in Ids(db)
    OBVIOUS
  <2>1. CASE a \in Ids(db)
    BY <2>1 DEF Resolved
  <2>2. CASE a \notin Ids(db)
    <3>1. a \in Title /\ db.titleMap[a] # 0
      BY <2>2 DEF Resolves
    <3>2. db.titleMap[a] \in Id /\ db.title[db.titleMap[a]] = a
      BY <3>1, StoreAssumption DEF Sound, Db, Id, Coherent
    <3> QED BY <2>2, <3>1, <3>2, StoreAssumption DEF Resolved, Ids
  <2> QED BY <2>1, <2>2
<1>5. pairs \in SUBSET (Ids(e) \X Ids(e))
  BY <1>2, <1>3, <1>4
<1>6. AddTask(db, f, args) = AddDeps(e, pairs)
  BY DEF AddTask
<1> DEFINE w == AddTask(db, f, args)
           new == IdMap(db, f)[t]
<1>7. /\ Sound(w) /\ Ids(w) = Ids(e) /\ w.title = e.title /\ w.titleMap = e.titleMap
      /\ Extends(e, w) /\ \A i, d \in Id : <<i, d>> \in pairs => Waits(w, i, d)
  <2> HIDE DEF e, pairs, w
  <2>1. /\ Sound(AddDeps(e, pairs)) /\ Ids(AddDeps(e, pairs)) = Ids(e)
        /\ AddDeps(e, pairs).title = e.title /\ AddDeps(e, pairs).titleMap = e.titleMap
        /\ Extends(e, AddDeps(e, pairs))
        /\ \A i, d \in Id : <<i, d>> \in pairs => Waits(AddDeps(e, pairs), i, d)
    BY <1>2, <1>5, AddDepsSound
  <2>2. w = AddDeps(e, pairs)
    BY <1>6 DEF w
  <2> QED BY <2>1, <2>2, Zenon
<1>8. /\ Extends(db, e) /\ Ids(e) \subseteq Ids(db) \cup {new}
      /\ e.title[new] = t /\ e.titleMap[t] = new
      /\ \A u \in Title \ {t} : e.titleMap[u] = db.titleMap[u]
  BY <1>1, EnsureIssuesSound
<1>9. Extends(db, w)
  BY <1>2, <1>7, <1>8 DEF Extends
<1>10. ASSUME NEW a \in args PROVE Waits(w, new, Resolved(w, a))
  <2>1. new \in Id /\ Resolved(db, a) \in Id
    BY <1>2, <1>4 DEF Ids
  <2>2. Waits(w, new, Resolved(db, a))
    BY <1>3, <1>7, <2>1
  <2>3. Resolved(w, a) \in {new, Resolved(db, a)}
    BY <1>2, <1>7, <1>8 DEF Resolved, Resolves
  <2> QED BY <2>1, <2>2, <2>3 DEF Waits
<1> QED BY <1>2, <1>7, <1>8, <1>9, <1>10 DEF Added
-----------------------------------------------------------------------------
(* A process holds a coherent snapshot, knows only ids of that snapshot,   *)
(* and links only titles it has ids for.                                   *)
ProcInv(p) ==
  /\ Sound(mem[p])
  /\ pc[p] \in Step
  /\ pc[p] \in {"idle", "sync", "add", "rename"} => ids[p] = <<>> /\ todo[p] = {}
  /\ pc[p] # "idle" => cmd[p] \in Command
  /\ pc[p] = "sync" => cmd[p].kind = "sync" /\ (cmd[p].reviews => DOMAIN cmd[p].manifest \subseteq DOMAIN ReviewOf)
  /\ pc[p] = "add" => cmd[p].kind = "add"
  /\ pc[p] = "rename" => cmd[p].kind = "rename"
  /\ DOMAIN ids[p] \subseteq Title
  /\ \A t \in DOMAIN ids[p] : ids[p][t] \in Ids(mem[p])
  /\ todo[p] \subseteq DOMAIN ids[p] \cap DOMAIN ReviewOf

Inv ==
  /\ Sound(file)
  /\ pc \in [Proc -> Step] /\ DOMAIN cmd = Proc /\ DOMAIN ids = Proc
  /\ mem = [p \in Proc |-> mem[p]] /\ todo = [p \in Proc |-> todo[p]]
  /\ overlapped \in BOOLEAN /\ started \in Nat
  /\ \A p \in Proc : ProcInv(p)

LEMMA EmptySound == Sound(EmptyDb) /\ EmptyDb \in Db
  BY StoreAssumption DEF Sound, Coherent, EmptyDb, Db, Ids, Id

LEMMA InitInv == Init => Inv
<1> SUFFICES ASSUME Init PROVE Inv
  OBVIOUS
<1>1. \A p \in Proc : ProcInv(p)
  BY EmptySound DEF Init, ProcInv, Step
<1> QED BY <1>1, EmptySound DEF Init, Inv, Step

\* A step that is p's alone and keeps p in order keeps everything in order.
OnlyOf(p) ==
  /\ pc' \in [Proc -> Step]
  /\ DOMAIN cmd' = Proc /\ DOMAIN ids' = Proc
  /\ mem' = [q \in Proc |-> mem'[q]] /\ todo' = [q \in Proc |-> todo'[q]]
  /\ \A q \in Proc \ {p} : /\ pc'[q] = pc[q] /\ cmd'[q] = cmd[q] /\ mem'[q] = mem[q]
                          /\ ids'[q] = ids[q] /\ todo'[q] = todo[q]

LEMMA LocalStep ==
  ASSUME Inv, NEW p \in Proc, ProcInv(p)', OnlyOf(p), Sound(file'),
         overlapped' \in BOOLEAN, started' \in Nat
  PROVE  Inv'
<1>1. ASSUME NEW q \in Proc, q # p PROVE ProcInv(q)'
  <2>1. /\ pc'[q] = pc[q] /\ cmd'[q] = cmd[q] /\ mem'[q] = mem[q]
        /\ ids'[q] = ids[q] /\ todo'[q] = todo[q]
    BY <1>1 DEF OnlyOf
  <2>2. ProcInv(q)
    BY DEF Inv
  <2> QED BY <2>1, <2>2 DEF ProcInv
<1> QED BY <1>1 DEF Inv, OnlyOf

\* A process that ends leaves its slot in order.
LEMMA ExitStep ==
  ASSUME Inv, NEW p \in Proc, Exit(p), Sound(file'), overlapped' \in BOOLEAN, started' \in Nat
  PROVE  Inv'
<1>1. ProcInv(p)'
  BY EmptySound DEF Inv, Exit, ProcInv, Step
<1>2. OnlyOf(p)
  BY DEF OnlyOf, Exit, Inv, Step
<1> QED BY <1>1, <1>2, LocalStep

\* A process that starts takes a snapshot of a coherent file.
LEMMA BeginStep ==
  ASSUME Inv, NEW p \in Proc, NEW c \in Command, Begin(p, c),
         c.kind = "sync" => (c.reviews => DOMAIN c.manifest \subseteq DOMAIN ReviewOf)
  PROVE  Inv'
<1>1. c.kind \in {"sync", "add", "rename"}
  BY DEF Command
<1>2. ProcInv(p) /\ pc[p] = "idle"
  BY DEF Inv, Begin
<1>3. /\ pc'[p] = c.kind /\ cmd'[p] = c /\ mem'[p] = file
      /\ ids'[p] = <<>> /\ todo'[p] = {}
  BY <1>2 DEF Inv, ProcInv, Begin
<1>4. ProcInv(p)'
  <2>1. Sound(mem'[p]) /\ pc'[p] \in Step /\ pc'[p] # "idle" /\ cmd'[p] \in Command
    BY <1>1, <1>3 DEF Inv, Step
  <2> QED BY <1>1, <1>3, <2>1 DEF ProcInv
<1>5. overlapped' \in BOOLEAN
  BY DEF Begin
<1>6. started' \in Nat /\ Sound(file')
  BY DEF Begin, Inv
<1>7. OnlyOf(p)
  BY <1>1 DEF OnlyOf, Begin, Inv, Step
<1> QED BY <1>4, <1>5, <1>6, <1>7, LocalStep

LEMMA StartStep == ASSUME Inv, NEW p \in Proc, Start(p) PROVE Inv'
<1>1. ASSUME NEW m \in Manifests, NEW r \in BOOLEAN, r => DOMAIN m \subseteq DOMAIN ReviewOf,
             BeginSync(p, m, r)
      PROVE Inv'
  BY <1>1, BeginStep DEF BeginSync, Command
<1>2. ASSUME NEW t \in Title, NEW args \in SUBSET (Ids(file) \cup Title), BeginAdd(p, t, args)
      PROVE Inv'
  <2>1. args \in SUBSET (Id \cup Title)
    BY DEF Ids
  <2> QED BY <1>2, <2>1, BeginStep DEF BeginAdd, Command
<1>3. ASSUME NEW i \in Ids(file), NEW t \in Title, BeginRename(p, i, t) PROVE Inv'
  <2>1. i \in Id
    BY DEF Ids
  <2> QED BY <1>3, <2>1, BeginStep DEF BeginRename, Command
<1> QED BY <1>1, <1>2, <1>3 DEF Start

LEMMA SaveSyncStep == ASSUME Inv, NEW p \in Proc, SaveSync(p) PROVE Inv'
<1> DEFINE m == cmd[p].manifest
<1>1. PICK f \in Numberings(mem[p], DOMAIN m) :
        /\ Save(p, Sync(mem[p], m, f))
        /\ ids' = [ids EXCEPT ![p] = IdMap(mem[p], f)]
  BY DEF SaveSync
<1>2. /\ pc[p] = "sync" /\ MayNumber(mem[p], DOMAIN m)
      /\ cmd[p] \in Command /\ cmd[p].kind = "sync" /\ Sound(mem[p])
  BY DEF SaveSync, Inv, ProcInv
<1>3. m \in Manifests
  BY <1>2 DEF Command
<1>4. /\ Sound(Sync(mem[p], m, f))
      /\ IdMap(mem[p], f) \in [DOMAIN m -> Ids(Sync(mem[p], m, f))]
  BY <1>2, <1>3, SyncSound
<1>5. /\ pc'[p] = "label" /\ cmd'[p] = cmd[p] /\ mem'[p] = Sync(mem[p], m, f)
      /\ file' = mem'[p] /\ ids'[p] = IdMap(mem[p], f)
      /\ todo'[p] = IF cmd[p].reviews THEN DOMAIN m ELSE {}
  BY <1>1 DEF SaveSync, Save, Inv
<1>6. todo'[p] \subseteq DOMAIN ids'[p] \cap DOMAIN ReviewOf
  BY <1>2, <1>4, <1>5 DEF Inv, ProcInv
<1>7. DOMAIN ids'[p] \subseteq Title /\ \A t \in DOMAIN ids'[p] : ids'[p][t] \in Ids(mem'[p])
  BY <1>3, <1>4, <1>5, PlanningAssumption
<1>8. ProcInv(p)'
  BY <1>2, <1>4, <1>5, <1>6, <1>7 DEF ProcInv, Step
<1>9. OnlyOf(p)
  BY <1>1 DEF SaveSync, Save, Inv, OnlyOf, Step
<1>10. Sound(file') /\ overlapped' \in BOOLEAN /\ started' \in Nat
  BY <1>4, <1>5 DEF SaveSync, Inv, aux
<1> QED BY <1>8, <1>9, <1>10, LocalStep

LEMMA SaveAddStep == ASSUME Inv, NEW p \in Proc, SaveAdd(p) PROVE Inv'
<1> DEFINE t == cmd[p].title
           new(f) == AddTask(mem[p], f, cmd[p].args)
<1>1. PICK f \in Numberings(mem[p], {t}) :
        /\ Save(p, new(f))
        /\ ids' = [ids EXCEPT ![p] = IdMap(mem[p], f)]
  BY DEF SaveAdd
<1>2. /\ pc[p] = "add" /\ MayNumber(mem[p], {t}) /\ \A a \in cmd[p].args : Resolves(mem[p], a)
      /\ cmd[p] \in Command /\ cmd[p].kind = "add" /\ Sound(mem[p])
      /\ todo[p] = {}
  BY DEF SaveAdd, Inv, ProcInv
<1>3. t \in Title
  BY <1>2 DEF Command
<1>4. Sound(new(f)) /\ IdMap(mem[p], f) \in [{t} -> Ids(new(f))]
  BY <1>2, <1>3, AddTaskSound
<1>5. /\ pc'[p] = "label" /\ cmd'[p] = cmd[p] /\ mem'[p] = new(f)
      /\ file' = mem'[p] /\ ids'[p] = IdMap(mem[p], f) /\ todo'[p] = {}
  BY <1>1, <1>2 DEF SaveAdd, Save, Inv
<1>6. DOMAIN ids'[p] \subseteq Title /\ \A u \in DOMAIN ids'[p] : ids'[p][u] \in Ids(mem'[p])
  BY <1>3, <1>4, <1>5
<1>7. ProcInv(p)'
  BY <1>2, <1>4, <1>5, <1>6 DEF ProcInv, Step
<1>8. OnlyOf(p)
  BY <1>1 DEF SaveAdd, Save, Inv, OnlyOf, Step
<1>9. Sound(file') /\ overlapped' \in BOOLEAN /\ started' \in Nat
  BY <1>4, <1>5 DEF SaveAdd, Inv, aux
<1> QED BY <1>7, <1>8, <1>9, LocalStep

LEMMA LabelStep ==
  ASSUME Inv, NEW p \in Proc, Relabel(p) \/ Labelled(p)
  PROVE  Inv'
<1>1. ProcInv(p) /\ pc[p] = "label"
  BY DEF Inv, Relabel, Labelled
<1>2. /\ mem'[p] = mem[p] /\ cmd'[p] = cmd[p] /\ ids'[p] = ids[p] /\ todo'[p] = todo[p]
      /\ pc'[p] \in {"label", "review"} /\ file' \in {file, mem[p]}
  BY <1>1 DEF Relabel, Labelled, Save, Inv
<1>3. ProcInv(p)'
  BY <1>1, <1>2 DEF ProcInv, Step
<1>4. OnlyOf(p)
  BY DEF Relabel, Labelled, Save, Inv, OnlyOf, Step
<1>5. Sound(file') /\ overlapped' \in BOOLEAN /\ started' \in Nat
  BY <1>1, <1>2 DEF ProcInv, Inv, Relabel, Labelled, aux
<1> QED BY <1>3, <1>4, <1>5, LocalStep

LEMMA SkipReviewStep == ASSUME Inv, NEW p \in Proc, NEW t, SkipReview(p, t) PROVE Inv'
<1>1. ProcInv(p) /\ pc[p] = "review"
  BY DEF Inv, SkipReview
<1>2. /\ mem'[p] = mem[p] /\ cmd'[p] = cmd[p] /\ ids'[p] = ids[p] /\ todo'[p] = todo[p] \ {t}
      /\ pc'[p] = pc[p] /\ file' = file
  BY <1>1 DEF SkipReview, Inv
<1>3. ProcInv(p)'
  BY <1>1, <1>2 DEF ProcInv
<1>4. OnlyOf(p)
  BY DEF SkipReview, Inv, OnlyOf
<1> QED BY <1>2, <1>3, <1>4, LocalStep DEF Inv, SkipReview, aux

LEMMA SaveReviewStep == ASSUME Inv, NEW p \in Proc, NEW t, SaveReview(p, t) PROVE Inv'
<1> DEFINE r == ReviewOf[t]
           new(f) == AddTask(mem[p], f, {})
<1>1. PICK f \in Numberings(mem[p], {r}) :
        /\ Save(p, new(f))
        /\ ids' = [ids EXCEPT ![p] = [u \in DOMAIN ids[p] \cup {r} |->
                                        IF u = r THEN IdMap(mem[p], f)[r] ELSE ids[p][u]]]
  BY DEF SaveReview, Inv
<1>2. ProcInv(p) /\ pc[p] = "review" /\ MayNumber(mem[p], {r}) /\ t \in todo[p]
  BY DEF SaveReview, Inv
<1>3. r \in Title /\ Sound(mem[p])
  BY <1>2, PlanningAssumption DEF ProcInv
<1>4. /\ Sound(new(f)) /\ Ids(mem[p]) \subseteq Ids(new(f))
      /\ IdMap(mem[p], f) \in [{r} -> Ids(new(f))]
  <2>1. PICK args : args = {}
    OBVIOUS
  <2>2. \A a \in args : Resolves(mem[p], a)
    BY <2>1
  <2>3. /\ Sound(AddTask(mem[p], f, args)) /\ Ids(mem[p]) \subseteq Ids(AddTask(mem[p], f, args))
        /\ IdMap(mem[p], f) \in [{r} -> Ids(AddTask(mem[p], f, args))]
    BY <1>2, <1>3, <2>2, AddTaskSound
  <2> QED BY <2>1, <2>3
<1>5. /\ pc'[p] = "link" /\ cmd'[p] = cmd[p] /\ mem'[p] = new(f) /\ file' = mem'[p]
      /\ todo'[p] = todo[p]
      /\ ids'[p] = [u \in DOMAIN ids[p] \cup {r} |->
                      IF u = r THEN IdMap(mem[p], f)[r] ELSE ids[p][u]]
  BY <1>1 DEF SaveReview, Save, Inv
<1>6. DOMAIN ids'[p] \subseteq Title /\ \A u \in DOMAIN ids'[p] : ids'[p][u] \in Ids(mem'[p])
  BY <1>2, <1>3, <1>4, <1>5 DEF ProcInv
<1>7. todo'[p] \subseteq DOMAIN ids'[p] \cap DOMAIN ReviewOf
  BY <1>2, <1>5 DEF ProcInv
<1>8. ProcInv(p)'
  BY <1>2, <1>4, <1>5, <1>6, <1>7 DEF ProcInv, Step
<1>9. OnlyOf(p)
  BY <1>1 DEF SaveReview, Save, Inv, OnlyOf, Step
<1>10. Sound(file') /\ overlapped' \in BOOLEAN /\ started' \in Nat
  BY <1>4, <1>5 DEF SaveReview, Inv, aux
<1> QED BY <1>8, <1>9, <1>10, LocalStep

LEMMA SaveLinkStep == ASSUME Inv, NEW p \in Proc, NEW t, SaveLink(p, t) PROVE Inv'
<1> DEFINE pairs == {<<ids[p][t], ids[p][ReviewOf[t]]>>}
<1>1. ProcInv(p) /\ t \in todo[p] /\ ReviewOf[t] \in DOMAIN ids[p] /\ Save(p, AddDeps(mem[p], pairs))
  BY DEF SaveLink, Inv
<1>2. Sound(mem[p]) /\ pairs \in SUBSET (Ids(mem[p]) \X Ids(mem[p]))
  BY <1>1 DEF ProcInv
<1>3. Sound(AddDeps(mem[p], pairs)) /\ Ids(AddDeps(mem[p], pairs)) = Ids(mem[p])
  BY <1>2, AddDepsSound
<1>4. /\ pc'[p] = "review" /\ cmd'[p] = cmd[p] /\ mem'[p] = AddDeps(mem[p], pairs)
      /\ file' = mem'[p] /\ ids'[p] = ids[p] /\ todo'[p] = todo[p] \ {t} /\ pc[p] = "link"
  BY <1>1 DEF SaveLink, Save, Inv
<1>5. ProcInv(p)'
  BY <1>1, <1>3, <1>4 DEF ProcInv, Step
<1>6. OnlyOf(p)
  BY <1>1 DEF SaveLink, Save, Inv, OnlyOf, Step
<1>7. Sound(file') /\ overlapped' \in BOOLEAN /\ started' \in Nat
  BY <1>3, <1>4 DEF SaveLink, Inv, aux
<1> QED BY <1>5, <1>6, <1>7, LocalStep

LEMMA EndStep ==
  ASSUME Inv, NEW p \in Proc, SaveRename(p) \/ Finish(p) \/ Quit(p)
  PROVE  Inv'
<1>1. CASE SaveRename(p)
  <2>1. /\ Sound(mem[p]) /\ cmd[p] \in Command /\ cmd[p].kind = "rename"
        /\ cmd[p].id \in Ids(mem[p]) /\ file' = Rename(mem[p], cmd[p].id, cmd[p].title)
    BY <1>1 DEF SaveRename, Inv, ProcInv
  <2>2. cmd[p].title \in Title
    BY <2>1 DEF Command
  <2>3. Sound(file')
    BY <2>1, <2>2, RenameSound
  <2> QED BY <1>1, <2>3, ExitStep DEF SaveRename, Inv
<1>2. CASE Finish(p)
  BY <1>2, ExitStep DEF Finish, Inv
<1>3. CASE Quit(p)
  BY <1>3, ExitStep DEF Quit, Inv, aux
<1> QED BY <1>1, <1>2, <1>3

LEMMA NextInv == Inv /\ [Next]_vars => Inv'
<1> SUFFICES ASSUME Inv, [Next]_vars PROVE Inv'
  OBVIOUS
<1>1. CASE UNCHANGED vars
  BY <1>1 DEF vars, aux, Inv, ProcInv
<1>2. ASSUME NEW p \in Proc, Start(p) PROVE Inv'
  BY <1>2, StartStep
<1>3. ASSUME NEW p \in Proc, Continue(p) PROVE Inv'
  BY <1>3, SaveSyncStep, SaveAddStep, LabelStep, SkipReviewStep, SaveReviewStep, SaveLinkStep,
     EndStep DEF Continue
<1> QED BY <1>1, <1>2, <1>3 DEF Next

LEMMA Invariance == Spec => []Inv
<1>1. Inv /\ [Next]_vars => Inv'
  BY NextInv
<1> QED BY <1>1, InitInv, PTL DEF Spec

(* The store file, the snapshots and the command slots keep their ranges.  *)
THEOREM TypeCorrect == Spec => []TypeOK
<1>1. Inv => TypeOK
  <2> SUFFICES ASSUME Inv PROVE TypeOK
    OBVIOUS
  <2>1. \A p \in Proc : ProcInv(p) /\ mem[p] \in Db
    BY DEF Inv, ProcInv, Sound
  <2>2. \A p \in Proc : \A t \in DOMAIN ids[p] : ids[p][t] \in Id
    BY <2>1 DEF ProcInv, Ids
  <2>3. \A p \in Proc : todo[p] \in SUBSET Title
    BY <2>1 DEF ProcInv
  <2> QED BY <2>1, <2>2, <2>3 DEF Inv, ProcInv, Sound, TypeOK
<1> QED BY <1>1, Invariance, PTL

(* No race, kill or reuse of a title breaks the plan: ids are never reused *)
(* below NextID, no dependency dangles, the title map points at issues of  *)
(* that title, in the file and in every snapshot.                          *)
THEOREM PlanStaysCoherent == Spec => []AlwaysCoherent
<1>1. Inv => AlwaysCoherent
  BY DEF Inv, ProcInv, Sound, AlwaysCoherent
<1> QED BY <1>1, Invariance, PTL
-----------------------------------------------------------------------------
(* What pt printed stays true as long as no two commands overlap.  A       *)
(* process that is alone holds what is in the file (Solo), and whatever it *)
(* will report when it is done is in its copy from the moment it was saved *)
(* (Delivered); store calls only ever add to what a copy holds (Extends),  *)
(* but for a rename, which is reported at once.                            *)
Saved == {"label", "review", "link"}

Delivered(p) ==
  LET m == cmd[p].manifest IN
  /\ todo[p] \subseteq Reviewed(p) /\ Reviewed(p) \subseteq DOMAIN ReviewOf
  /\ cmd[p].kind \in {"sync", "add"}
  /\ \A t \in DOMAIN ids[p] : mem[p].title[ids[p][t]] = t
  /\ cmd[p].kind = "sync" =>
       /\ DOMAIN m \subseteq DOMAIN ids[p]
       /\ \A t \in DOMAIN m : \A d \in m[t] : Waits(mem[p], ids[p][t], ids[p][d])
       /\ \A t \in Reviewed(p) \ todo[p] : ReviewOf[t] \notin DOMAIN m =>
            ReviewOf[t] \in DOMAIN ids[p] /\ Waits(mem[p], ids[p][t], ids[p][ReviewOf[t]])
  /\ cmd[p].kind = "add" =>
       /\ cmd[p].title \in DOMAIN ids[p]
       /\ \A a \in cmd[p].args : Waits(mem[p], ids[p][cmd[p].title], Resolved(mem[p], a))

Solo ==
  /\ \A p, q \in Proc : pc[p] # "idle" /\ pc[q] # "idle" => p = q
  /\ \A p \in Proc : pc[p] # "idle" => mem[p] = file

Holds(db, said) ==
  /\ said.titles \subseteq [id : Id, title : Title] /\ said.deps \subseteq Id \X Id
  /\ \A x \in said.titles : db.title[x.id] = x.title
  /\ \A d \in said.deps : d[2] \in db.deps[d[1]]

TellInv ==
  /\ Inv
  /\ \A p \in Proc : pc[p] \in Saved => Delivered(p)
  /\ ~ overlapped => Solo /\ Holds(file, told)

LEMMA InitTell == Init => TellInv
<1>1. Init => Holds(file, told)
  BY DEF Init, Holds, NothingTold
<1> QED BY <1>1, InitInv DEF Init, TellInv, Solo, Saved

\* What holds of a snapshot holds of what extends it.
LEMMA ExtensionHolds ==
  ASSUME NEW db, NEW e, NEW said, Extends(db, e), Holds(db, said)
  PROVE  Holds(e, said)
<1>1. ASSUME NEW x \in said.titles PROVE e.title[x.id] = x.title
  <2>1. x.id \in Id /\ x.title \in Title /\ db.title[x.id] = x.title
    BY DEF Holds
  <2>2. x.id \in Ids(db)
    BY <2>1, StoreAssumption DEF Ids
  <2> QED BY <2>1, <2>2 DEF Extends
<1>2. ASSUME NEW d \in said.deps PROVE d[2] \in e.deps[d[1]]
  <2>1. d[1] \in Id /\ d[2] \in db.deps[d[1]]
    BY DEF Holds
  <2> QED BY <2>1 DEF Extends
<1> QED BY <1>1, <1>2 DEF Holds

LEMMA ExtensionWaits ==
  ASSUME NEW db, NEW e, Extends(db, e), NEW i, NEW d, Waits(db, i, d)
  PROVE  Waits(e, i, d)
BY DEF Extends, Waits

\* A step of p that is not its first.
Going(p) ==
  /\ OnlyOf(p) /\ pc[p] # "idle"
  /\ overlapped' = overlapped

\* Such a step replaces the file by p's new copy, or keeps both as they are.
LEMMA GoingOn ==
  ASSUME TellInv, Inv', NEW p \in Proc, Going(p), told' = told,
         pc'[p] \in Saved, Delivered(p)',
         Extends(mem[p], mem'[p]),
         file' = mem'[p] \/ (file' = file /\ mem'[p] = mem[p])
  PROVE  TellInv'
<1>1. ASSUME NEW q \in Proc, pc'[q] \in Saved PROVE Delivered(q)'
  <2>1. CASE q = p
    BY <2>1
  <2>2. CASE q # p
    <3>1. /\ pc'[q] = pc[q] /\ cmd'[q] = cmd[q] /\ mem'[q] = mem[q]
          /\ ids'[q] = ids[q] /\ todo'[q] = todo[q]
      BY <2>2 DEF Going, OnlyOf
    <3>2. Delivered(q)
      BY <1>1, <3>1 DEF TellInv
    <3> QED BY <3>1, <3>2 DEF Delivered, Reviewed
  <2> QED BY <2>1, <2>2
<1>2. ASSUME ~ overlapped' PROVE Solo' /\ Holds(file, told)'
  <2>1. Solo /\ Holds(file, told) /\ mem[p] = file
    BY <1>2 DEF TellInv, Going, Solo
  <2>2. mem'[p] = file'
    BY <2>1
  <2>3. \A q \in Proc : pc'[q] # "idle" => q = p
    BY <2>1 DEF Going, OnlyOf, Solo
  <2>4. Holds(file', told)
    BY <2>1, <2>2, ExtensionHolds
  <2> QED BY <2>2, <2>3, <2>4 DEF Solo
<1> QED BY <1>1, <1>2 DEF TellInv

\* A step of p that is its last.
LEMMA GoingAway ==
  ASSUME TellInv, Inv', NEW p \in Proc, Exit(p), pc[p] # "idle", overlapped' = overlapped,
         ~ overlapped /\ Solo /\ Holds(file, told) => Holds(file', told')
  PROVE  TellInv'
<1>1. OnlyOf(p) /\ pc'[p] = "idle"
  BY DEF OnlyOf, Exit, TellInv, Inv, Step
<1>2. ASSUME NEW q \in Proc, pc'[q] \in Saved PROVE Delivered(q)'
  <2>1. q # p
    BY <1>1, <1>2 DEF Saved
  <2>2. /\ pc'[q] = pc[q] /\ cmd'[q] = cmd[q] /\ mem'[q] = mem[q]
        /\ ids'[q] = ids[q] /\ todo'[q] = todo[q]
    BY <1>1, <2>1 DEF OnlyOf
  <2>3. Delivered(q)
    BY <1>2, <2>2 DEF TellInv
  <2> QED BY <2>2, <2>3 DEF Delivered, Reviewed
<1>3. ASSUME ~ overlapped' PROVE Solo' /\ Holds(file, told)'
  <2>1. Solo /\ Holds(file, told)
    BY <1>3 DEF TellInv
  <2>2. \A q \in Proc : pc'[q] = "idle"
    BY <1>1, <2>1 DEF OnlyOf, Solo
  <2> QED BY <1>3, <2>1, <2>2 DEF Solo
<1> QED BY <1>2, <1>3 DEF TellInv

\* A command that starts while another one runs ends the promise.
LEMMA BeginTell ==
  ASSUME TellInv, Inv', NEW p \in Proc, NEW c \in Command, Begin(p, c)
  PROVE  TellInv'
<1>1. OnlyOf(p) /\ pc'[p] = c.kind /\ mem'[p] = file /\ file' = file
  BY DEF Begin, TellInv, Inv, OnlyOf
<1>2. c.kind \notin Saved
  BY DEF Command, Saved
<1>3. ASSUME NEW q \in Proc, pc'[q] \in Saved PROVE Delivered(q)'
  <2>1. q # p
    BY <1>1, <1>2, <1>3
  <2>2. /\ pc'[q] = pc[q] /\ cmd'[q] = cmd[q] /\ mem'[q] = mem[q]
        /\ ids'[q] = ids[q] /\ todo'[q] = todo[q]
    BY <1>1, <2>1 DEF OnlyOf
  <2>3. Delivered(q)
    BY <1>3, <2>2 DEF TellInv
  <2> QED BY <2>2, <2>3 DEF Delivered, Reviewed
<1>4. ASSUME ~ overlapped' PROVE Solo' /\ Holds(file, told)'
  <2>1. ~ overlapped /\ told' = told /\ \A q \in Proc : pc[q] = "idle"
    BY <1>4 DEF Begin
  <2>2. \A q \in Proc \ {p} : pc'[q] = "idle"
    BY <1>1, <2>1 DEF OnlyOf
  <2>3. Holds(file', told')
    BY <1>1, <2>1 DEF TellInv
  <2> QED BY <1>1, <2>2, <2>3 DEF Solo
<1> QED BY <1>3, <1>4 DEF TellInv

LEMMA StartTell == ASSUME TellInv, NEW p \in Proc, Start(p) PROVE TellInv'
<1>1. Inv'
  BY StartStep DEF TellInv
<1>2. ASSUME NEW m \in Manifests, NEW r \in BOOLEAN, BeginSync(p, m, r) PROVE TellInv'
  BY <1>1, <1>2, BeginTell DEF BeginSync, Command
<1>3. ASSUME NEW t \in Title, NEW args \in SUBSET (Ids(file) \cup Title), BeginAdd(p, t, args)
      PROVE TellInv'
  <2>1. args \in SUBSET (Id \cup Title)
    BY DEF Ids
  <2> QED BY <1>1, <1>3, <2>1, BeginTell DEF BeginAdd, Command
<1>4. ASSUME NEW i \in Ids(file), NEW t \in Title, BeginRename(p, i, t) PROVE TellInv'
  <2>1. i \in Id
    BY DEF Ids
  <2> QED BY <1>1, <1>4, <2>1, BeginTell DEF BeginRename, Command
<1> QED BY <1>2, <1>3, <1>4 DEF Start

LEMMA SaveSyncTell == ASSUME TellInv, NEW p \in Proc, SaveSync(p) PROVE TellInv'
<1> DEFINE m == cmd[p].manifest
<1>1. PICK f \in Numberings(mem[p], DOMAIN m) :
        /\ Save(p, Sync(mem[p], m, f))
        /\ ids' = [ids EXCEPT ![p] = IdMap(mem[p], f)]
  BY DEF SaveSync
<1>2. /\ Inv /\ pc[p] = "sync" /\ MayNumber(mem[p], DOMAIN m)
      /\ cmd[p] \in Command /\ cmd[p].kind = "sync" /\ Sound(mem[p])
      /\ Reviewed(p) \subseteq DOMAIN ReviewOf
  BY DEF SaveSync, TellInv, Inv, ProcInv, Reviewed
<1>3. m \in Manifests
  BY <1>2 DEF Command
<1>4. /\ IdMap(mem[p], f) \in [DOMAIN m -> Ids(Sync(mem[p], m, f))]
      /\ Extends(mem[p], Sync(mem[p], m, f))
      /\ \A t \in DOMAIN m : Sync(mem[p], m, f).title[IdMap(mem[p], f)[t]] = t
      /\ \A t \in DOMAIN m : \A d \in m[t] :
           Waits(Sync(mem[p], m, f), IdMap(mem[p], f)[t], IdMap(mem[p], f)[d])
  BY <1>2, <1>3, SyncSound
<1>5. /\ pc'[p] = "label" /\ cmd' = cmd /\ mem'[p] = Sync(mem[p], m, f)
      /\ file' = mem'[p] /\ ids'[p] = IdMap(mem[p], f)
      /\ todo'[p] = IF cmd[p].reviews THEN DOMAIN m ELSE {}
  BY <1>1, <1>2 DEF SaveSync, Save, Inv
<1>6. todo'[p] = Reviewed(p)
  BY <1>2, <1>5 DEF Reviewed
<1>7. Delivered(p)'
  BY <1>2, <1>4, <1>5, <1>6 DEF Delivered, Reviewed
<1>8. Going(p) /\ told' = told
  BY <1>1, <1>2 DEF SaveSync, Save, Inv, OnlyOf, Going, Step, aux
<1>9. Inv'
  BY <1>2, SaveSyncStep
<1> QED BY <1>4, <1>5, <1>7, <1>8, <1>9, GoingOn DEF Saved

LEMMA SaveAddTell == ASSUME TellInv, NEW p \in Proc, SaveAdd(p) PROVE TellInv'
<1> DEFINE t == cmd[p].title
           new(f) == AddTask(mem[p], f, cmd[p].args)
<1>1. PICK f \in Numberings(mem[p], {t}) :
        /\ Save(p, new(f))
        /\ ids' = [ids EXCEPT ![p] = IdMap(mem[p], f)]
  BY DEF SaveAdd
<1>2. /\ Inv /\ pc[p] = "add" /\ MayNumber(mem[p], {t}) /\ \A a \in cmd[p].args : Resolves(mem[p], a)
      /\ cmd[p] \in Command /\ cmd[p].kind = "add" /\ Sound(mem[p])
      /\ todo[p] = {}
  BY DEF SaveAdd, TellInv, Inv, ProcInv
<1>3. t \in Title
  BY <1>2 DEF Command
<1>4. /\ IdMap(mem[p], f) \in [{t} -> Ids(new(f))]
      /\ Extends(mem[p], new(f))
      /\ new(f).title[IdMap(mem[p], f)[t]] = t
      /\ \A a \in cmd[p].args : Waits(new(f), IdMap(mem[p], f)[t], Resolved(new(f), a))
  <2>1. PICK db, u, args : db = mem[p] /\ u = t /\ args = cmd[p].args
    OBVIOUS
  <2>2. /\ Sound(db) /\ u \in Title /\ MayNumber(db, {u}) /\ f \in Numberings(db, {u})
        /\ \A a \in args : Resolves(db, a)
    BY <1>2, <1>3, <2>1
  <2>3. /\ IdMap(db, f) \in [{u} -> Ids(AddTask(db, f, args))]
        /\ Added(db, AddTask(db, f, args), u, IdMap(db, f)[u], args)
    BY <2>2, AddTaskSound
  <2> QED BY <2>1, <2>3, Zenon DEF Added
<1>5. /\ pc'[p] = "label" /\ cmd' = cmd /\ mem'[p] = new(f)
      /\ file' = mem'[p] /\ ids'[p] = IdMap(mem[p], f) /\ todo'[p] = {}
  BY <1>1, <1>2 DEF SaveAdd, Save, Inv
<1>6. Delivered(p)'
  BY <1>2, <1>4, <1>5 DEF Delivered, Reviewed
<1>7. Going(p) /\ told' = told
  BY <1>1, <1>2 DEF SaveAdd, Save, Inv, OnlyOf, Going, Step, aux
<1>8. Inv'
  BY <1>2, SaveAddStep
<1> QED BY <1>4, <1>5, <1>6, <1>7, <1>8, GoingOn DEF Saved

LEMMA LabelTell ==
  ASSUME TellInv, NEW p \in Proc, Relabel(p) \/ Labelled(p)
  PROVE  TellInv'
<1>1. Inv /\ pc[p] = "label" /\ Delivered(p)
  BY DEF TellInv, Saved, Relabel, Labelled
<1>2. /\ mem'[p] = mem[p] /\ cmd'[p] = cmd[p] /\ ids'[p] = ids[p] /\ todo'[p] = todo[p]
      /\ pc'[p] \in {"label", "review"} /\ file' \in {file, mem[p]}
  BY <1>1 DEF Relabel, Labelled, Save, Inv
<1>3. Delivered(p)'
  BY <1>1, <1>2 DEF Delivered, Reviewed
<1>4. Going(p) /\ told' = told
  BY <1>1 DEF Relabel, Labelled, Save, Inv, OnlyOf, Going, Step, aux
<1>5. Inv'
  BY <1>1, LabelStep
<1> QED BY <1>2, <1>3, <1>4, <1>5, GoingOn DEF Saved, Extends

LEMMA SkipReviewTell == ASSUME TellInv, NEW p \in Proc, NEW t, SkipReview(p, t) PROVE TellInv'
<1>1. Inv /\ pc[p] = "review" /\ Delivered(p) /\ ReviewOf[t] \in DOMAIN cmd[p].manifest
  BY DEF TellInv, Saved, SkipReview
<1>2. /\ mem'[p] = mem[p] /\ cmd' = cmd /\ ids'[p] = ids[p] /\ todo'[p] = todo[p] \ {t}
      /\ pc'[p] = pc[p] /\ file' = file
  BY <1>1 DEF SkipReview, Inv
<1>3. Delivered(p)'
  BY <1>1, <1>2 DEF Delivered, Reviewed
<1>4. Going(p) /\ told' = told
  BY <1>1 DEF SkipReview, Inv, OnlyOf, Going, aux
<1>5. Inv'
  BY <1>1, SkipReviewStep
<1> QED BY <1>1, <1>2, <1>3, <1>4, <1>5, GoingOn DEF Saved, Extends

\* No two tasks have the same review task, hence no review changes hands.
LEMMA SaveReviewTell == ASSUME TellInv, NEW p \in Proc, NEW t, SaveReview(p, t) PROVE TellInv'
<1> DEFINE r == ReviewOf[t]
           m == cmd[p].manifest
           new(f) == AddTask(mem[p], f, {})
<1>1. PICK f \in Numberings(mem[p], {r}) :
        /\ Save(p, new(f))
        /\ ids' = [ids EXCEPT ![p] = [u \in DOMAIN ids[p] \cup {r} |->
                                        IF u = r THEN IdMap(mem[p], f)[r] ELSE ids[p][u]]]
  BY DEF SaveReview, TellInv, Inv
<1>2. /\ Inv /\ ProcInv(p) /\ pc[p] = "review" /\ MayNumber(mem[p], {r}) /\ t \in todo[p]
      /\ Delivered(p) /\ r \notin DOMAIN m
  BY DEF SaveReview, TellInv, Inv, Saved
<1>3. r \in Title /\ Sound(mem[p]) /\ t \in DOMAIN ReviewOf
  BY <1>2, PlanningAssumption DEF ProcInv
<1>4. /\ IdMap(mem[p], f) \in [{r} -> Ids(new(f))]
      /\ Extends(mem[p], new(f))
      /\ new(f).title[IdMap(mem[p], f)[r]] = r
  <2>1. PICK db, u, args : db = mem[p] /\ u = r /\ args = {}
    OBVIOUS
  <2>2. /\ Sound(db) /\ u \in Title /\ MayNumber(db, {u}) /\ f \in Numberings(db, {u})
        /\ \A a \in args : Resolves(db, a)
    BY <1>2, <1>3, <2>1
  <2>3. /\ IdMap(db, f) \in [{u} -> Ids(AddTask(db, f, args))]
        /\ Added(db, AddTask(db, f, args), u, IdMap(db, f)[u], args)
    BY <2>2, AddTaskSound
  <2> QED BY <2>1, <2>3, Zenon DEF Added
<1>5. /\ pc'[p] = "link" /\ cmd' = cmd /\ mem'[p] = new(f) /\ file' = mem'[p]
      /\ todo'[p] = todo[p]
      /\ ids'[p] = [u \in DOMAIN ids[p] \cup {r} |->
                      IF u = r THEN IdMap(mem[p], f)[r] ELSE ids[p][u]]
  BY <1>1, <1>2 DEF SaveReview, Save, Inv
<1>6. \A u \in DOMAIN ids'[p] : mem'[p].title[ids'[p][u]] = u
  <2> SUFFICES ASSUME NEW u \in DOMAIN ids'[p], u # r PROVE mem'[p].title[ids'[p][u]] = u
    BY <1>4, <1>5
  <2>1. u \in DOMAIN ids[p] /\ ids'[p][u] = ids[p][u]
    BY <1>5
  <2>2. ids[p][u] \in Ids(mem[p]) /\ mem[p].title[ids[p][u]] = u
    BY <1>2, <2>1 DEF ProcInv, Delivered
  <2> QED BY <1>4, <1>5, <2>1, <2>2 DEF Extends
<1>7. /\ cmd[p].kind = "sync" /\ Reviewed(p) = DOMAIN m
      /\ DOMAIN m \subseteq DOMAIN ids[p] /\ DOMAIN m \subseteq DOMAIN ReviewOf
  BY <1>2 DEF Delivered, Reviewed
<1>8. ASSUME NEW u \in DOMAIN ids[p] \ {r}, NEW v \in DOMAIN ids[p] \ {r},
             Waits(mem[p], ids[p][u], ids[p][v])
      PROVE  Waits(mem'[p], ids'[p][u], ids'[p][v])
  BY <1>4, <1>5, <1>8, ExtensionWaits
<1>9. ASSUME NEW u \in DOMAIN m, NEW d \in m[u] PROVE Waits(mem'[p], ids'[p][u], ids'[p][d])
  <2>1. m \in Manifests
    BY <1>2, <1>7 DEF ProcInv, Command
  <2>2. d \in DOMAIN m
    BY <2>1, PlanningAssumption
  <2>3. Waits(mem[p], ids[p][u], ids[p][d])
    BY <1>2, <1>7 DEF Delivered
  <2> QED BY <1>2, <1>7, <1>8, <2>2, <2>3
<1>10. ASSUME NEW u \in Reviewed(p) \ todo[p], ReviewOf[u] \notin DOMAIN m
       PROVE  ReviewOf[u] \in DOMAIN ids'[p] /\ Waits(mem'[p], ids'[p][u], ids'[p][ReviewOf[u]])
  <2>1. ReviewOf[u] \in DOMAIN ids[p] /\ Waits(mem[p], ids[p][u], ids[p][ReviewOf[u]])
    BY <1>2, <1>7, <1>10 DEF Delivered
  <2>2. u \in DOMAIN ReviewOf /\ u # t
    BY <1>2, <1>7
  <2>3. ReviewOf[u] # r
    BY <1>3, <2>2, PlanningAssumption
  <2> QED BY <1>2, <1>5, <1>7, <1>8, <2>1, <2>3
<1>11. Delivered(p)'
  <2>1. Reviewed(p)' = Reviewed(p) /\ todo'[p] \subseteq Reviewed(p)
    BY <1>2, <1>5 DEF Delivered, Reviewed
  <2>2. DOMAIN m \subseteq DOMAIN ids'[p]
    BY <1>5, <1>7
  <2>3. \A u \in Reviewed(p) \ todo'[p] : ReviewOf[u] \notin DOMAIN m =>
          ReviewOf[u] \in DOMAIN ids'[p] /\ Waits(mem'[p], ids'[p][u], ids'[p][ReviewOf[u]])
    BY <1>5, <1>10
  <2>4. \A u \in DOMAIN m : \A d \in m[u] : Waits(mem'[p], ids'[p][u], ids'[p][d])
    BY <1>9
  <2>5. cmd'[p] = cmd[p] /\ DOMAIN m \subseteq DOMAIN ReviewOf
    BY <1>5, <1>7
  <2> QED BY <1>6, <1>7, <2>1, <2>2, <2>3, <2>4, <2>5 DEF Delivered
<1>12. Going(p) /\ told' = told
  BY <1>1, <1>2 DEF SaveReview, Save, Inv, OnlyOf, Going, Step, aux
<1>13. Inv'
  BY <1>2, SaveReviewStep
<1> QED BY <1>4, <1>5, <1>11, <1>12, <1>13, GoingOn DEF Saved

LEMMA SaveLinkTell == ASSUME TellInv, NEW p \in Proc, NEW t, SaveLink(p, t) PROVE TellInv'
<1> DEFINE i == ids[p][t]
           r == ids[p][ReviewOf[t]]
           pairs == {<<i, r>>}
<1>1. /\ Inv /\ ProcInv(p) /\ t \in todo[p] /\ ReviewOf[t] \in DOMAIN ids[p] /\ pc[p] = "link"
      /\ Delivered(p) /\ Save(p, AddDeps(mem[p], pairs))
  BY DEF SaveLink, TellInv, Inv, Saved
<1>2. Sound(mem[p]) /\ i \in Ids(mem[p]) /\ r \in Ids(mem[p])
  BY <1>1 DEF ProcInv
<1>3. /\ AddDeps(mem[p], pairs).title = mem[p].title /\ Extends(mem[p], AddDeps(mem[p], pairs))
      /\ Ids(AddDeps(mem[p], pairs)) = Ids(mem[p])
      /\ AddDeps(mem[p], pairs).titleMap = mem[p].titleMap
      /\ Waits(AddDeps(mem[p], pairs), i, r)
  <2>1. pairs \in SUBSET (Ids(mem[p]) \X Ids(mem[p])) /\ <<i, r>> \in pairs /\ i \in Id /\ r \in Id
    BY <1>2 DEF Ids
  <2> QED BY <1>2, <2>1, AddDepsSound
<1>4. /\ pc'[p] = "review" /\ cmd' = cmd /\ mem'[p] = AddDeps(mem[p], pairs)
      /\ file' = mem'[p] /\ ids'[p] = ids[p] /\ todo'[p] = todo[p] \ {t}
  BY <1>1 DEF SaveLink, Save, Inv
<1>5. \A u, v \in DOMAIN ids[p] : Waits(mem[p], ids[p][u], ids[p][v]) => Waits(mem'[p], ids'[p][u], ids'[p][v])
  BY <1>3, <1>4, ExtensionWaits
<1>6. cmd[p].kind = "sync" /\ cmd[p] \in Command
  BY <1>1 DEF Delivered, Reviewed, ProcInv
<1>7. \A u \in DOMAIN cmd[p].manifest : cmd[p].manifest[u] \subseteq DOMAIN cmd[p].manifest
  <2>1. cmd[p].manifest \in Manifests
    BY <1>6 DEF Command
  <2> QED BY <2>1, PlanningAssumption
<1>8. Reviewed(p)' = Reviewed(p) /\ Reviewed(p) \subseteq DOMAIN cmd[p].manifest
  BY <1>4 DEF Reviewed
<1>9. Delivered(p)'
  <2>1. ASSUME NEW u \in DOMAIN cmd[p].manifest, NEW d \in cmd[p].manifest[u]
        PROVE  Waits(mem'[p], ids'[p][u], ids'[p][d])
    BY <1>1, <1>5, <1>6, <1>7 DEF Delivered
  <2>2. ASSUME NEW u \in Reviewed(p) \ todo'[p], ReviewOf[u] \notin DOMAIN cmd[p].manifest
        PROVE  ReviewOf[u] \in DOMAIN ids'[p] /\ Waits(mem'[p], ids'[p][u], ids'[p][ReviewOf[u]])
    <3>1. CASE u = t
      BY <1>1, <1>3, <1>4, <3>1
    <3>2. CASE u # t
      <4>1. u \in Reviewed(p) \ todo[p]
        BY <1>4, <3>2
      <4> QED BY <1>1, <1>4, <1>5, <1>6, <1>8, <2>2, <4>1 DEF Delivered
    <3> QED BY <3>1, <3>2
  <2>3. todo'[p] \subseteq Reviewed(p)' /\ Reviewed(p)' \subseteq DOMAIN ReviewOf
    BY <1>1, <1>4, <1>8 DEF Delivered
  <2>4. \A u \in DOMAIN ids'[p] : mem'[p].title[ids'[p][u]] = u
    BY <1>1, <1>3, <1>4 DEF Delivered
  <2> QED BY <1>1, <1>4, <1>6, <1>8, <2>1, <2>2, <2>3, <2>4 DEF Delivered
<1>10. Going(p) /\ told' = told
  BY <1>1 DEF SaveLink, Save, Inv, OnlyOf, Going, Step, aux
<1>11. Inv'
  BY <1>1, SaveLinkStep
<1> QED BY <1>3, <1>4, <1>9, <1>10, <1>11, GoingOn DEF Saved

\* A new title is printed in the place of the old one.
LEMMA SaveRenameTell == ASSUME TellInv, NEW p \in Proc, SaveRename(p) PROVE TellInv'
<1> DEFINE c == cmd[p]
<1>1. /\ Inv /\ pc[p] = "rename" /\ c \in Command /\ c.kind = "rename" /\ c.id \in Ids(mem[p])
      /\ Sound(mem[p]) /\ file' = Rename(mem[p], c.id, c.title) /\ Exit(p)
      /\ overlapped' = overlapped
  BY DEF SaveRename, TellInv, Inv, ProcInv
<1>2. c.title \in Title /\ c.id \in Id
  BY <1>1 DEF Command
<1>3. ASSUME ~ overlapped, Solo, Holds(file, told) PROVE Holds(file', told')
  <2>1. mem[p] = file /\ file.title \in [Id -> Title \cup {Absent}] /\ file \in Db
    BY <1>1, <1>3 DEF Solo, Sound, Db
  <2>2. file'.title = [file.title EXCEPT ![c.id] = c.title] /\ file'.deps = file.deps
    BY <1>1, <2>1 DEF Rename, Db
  <2>3. /\ told'.titles = {x \in told.titles : x.id # c.id} \cup {[id |-> c.id, title |-> c.title]}
        /\ told'.deps = told.deps
    BY <1>3 DEF SaveRename, Holds
  <2> QED BY <1>2, <1>3, <2>1, <2>2, <2>3 DEF Holds
<1>4. Inv'
  BY <1>1, EndStep
<1> QED BY <1>1, <1>3, <1>4, GoingAway

\* What a finished command reports is in its copy.
LEMMA FinishTell == ASSUME TellInv, NEW p \in Proc, Finish(p) PROVE TellInv'
<1>1. /\ Inv /\ ProcInv(p) /\ pc[p] = "review" /\ todo[p] = {} /\ Delivered(p)
      /\ Exit(p) /\ overlapped' = overlapped /\ file' = file
  BY DEF Finish, TellInv, Inv, Saved
<1>2. ASSUME NEW d \in PromisedDeps(p) PROVE d \in Id \X Id /\ Waits(mem[p], d[1], d[2])
  <2>1. CASE cmd[p].kind = "add"
    <3>1. Reviewed(p) = {}
      BY <2>1 DEF Reviewed
    <3>2. PICK a \in cmd[p].args : d = <<ids[p][cmd[p].title], Resolved(mem[p], a)>>
      BY <2>1, <3>1 DEF PromisedDeps
    <3> QED BY <1>1, <2>1, <3>2 DEF Delivered, Waits
  <2>2. CASE cmd[p].kind = "sync"
    <3>1. CASE d \in ManifestDeps(cmd[p].manifest, ids[p])
      <4>1. PICK t \in DOMAIN cmd[p].manifest : \E u \in cmd[p].manifest[t] : d = <<ids[p][t], ids[p][u]>>
        BY <3>1 DEF ManifestDeps
      <4> QED BY <1>1, <2>2, <4>1 DEF Delivered, Waits
    <3>2. CASE d \notin ManifestDeps(cmd[p].manifest, ids[p])
      <4>1. PICK t \in Reviewed(p) : /\ ReviewOf[t] \notin DOMAIN cmd[p].manifest
                                     /\ d = <<ids[p][t], ids[p][ReviewOf[t]]>>
        BY <2>2, <3>2 DEF PromisedDeps
      <4> QED BY <1>1, <2>2, <4>1 DEF Delivered, Waits
    <3> QED BY <3>1, <3>2
  <2> QED BY <1>1, <2>1, <2>2 DEF Delivered
<1>3. ASSUME ~ overlapped, Solo, Holds(file, told) PROVE Holds(file', told')
  <2>1. mem[p] = file
    BY <1>1, <1>3 DEF Solo
  <2>2. /\ told'.titles = told.titles \cup {[id |-> ids[p][t], title |-> t] : t \in DOMAIN ids[p]}
        /\ told'.deps = told.deps \cup {d \in PromisedDeps(p) : d[1] # d[2]}
    BY <1>3 DEF Finish
  <2>3. \A t \in DOMAIN ids[p] : t \in Title /\ ids[p][t] \in Id /\ file.title[ids[p][t]] = t
    BY <1>1, <2>1 DEF ProcInv, Delivered, Ids
  <2>4. \A d \in PromisedDeps(p) : d[1] # d[2] => d \in Id \X Id /\ d[2] \in file.deps[d[1]]
    BY <1>2, <2>1 DEF Waits
  <2> QED BY <1>1, <1>3, <2>2, <2>3, <2>4 DEF Holds
<1>4. Inv'
  BY <1>1, EndStep
<1> QED BY <1>1, <1>3, <1>4, GoingAway

LEMMA QuitTell == ASSUME TellInv, NEW p \in Proc, Quit(p) PROVE TellInv'
<1>1. Inv'
  BY EndStep DEF TellInv
<1> QED BY <1>1, GoingAway DEF Quit, aux

LEMMA NextTell == TellInv /\ [Next]_vars => TellInv'
<1> SUFFICES ASSUME TellInv, [Next]_vars PROVE TellInv'
  OBVIOUS
<1>1. CASE UNCHANGED vars
  <2>1. Inv'
    BY <1>1, NextInv DEF TellInv
  <2> QED BY <1>1, <2>1 DEF vars, aux, TellInv, Delivered, Reviewed, Solo, Holds
<1>2. ASSUME NEW p \in Proc, Start(p) PROVE TellInv'
  BY <1>2, StartTell
<1>3. ASSUME NEW p \in Proc, Continue(p) PROVE TellInv'
  BY <1>3, SaveSyncTell, SaveAddTell, LabelTell, SkipReviewTell, SaveReviewTell, SaveLinkTell,
     SaveRenameTell, FinishTell, QuitTell DEF Continue
<1> QED BY <1>1, <1>2, <1>3 DEF Next

(* Commands that do not overlap keep each other's promises, wherever one   *)
(* of them is killed: an id keeps the title it was printed with until it   *)
(* is renamed, and a task keeps waiting for the dependencies and for the   *)
(* review task that sync and add reported.                                 *)
THEOREM PromisesAreKept == Spec => []NothingToldIsLost
<1>1. TellInv => NothingToldIsLost
  BY DEF TellInv, Holds, NothingToldIsLost
<1>2. TellInv /\ [Next]_vars => TellInv'
  BY NextTell
<1> QED BY <1>1, <1>2, InitTell, PTL DEF Spec
-----------------------------------------------------------------------------
(* Running a sync again.                                                   *)

\* No two issues bear a title of ts.
ToldApart(db, ts) == \A t \in ts : \A i, j \in Bearing(db, t) : i = j

\* Titles that all have issues already: only the title map may change.
LEMMA NothingToNumber ==
  ASSUME NEW e, Sound(e), NEW ts, Unknown(e, ts) = {}, NEW g \in Numberings(e, ts)
  PROVE  /\ g \in [ts -> Id] /\ DOMAIN g = ts /\ \A t \in ts : e.title[g[t]] = t
         /\ LET w == EnsureIssues(e, g) IN
              /\ w.next = e.next /\ w.title = e.title /\ w.row = e.row /\ w.deps = e.deps
              /\ w.titleMap = [t \in Title |-> IF t \in ts THEN g[t] ELSE e.titleMap[t]]
              /\ w = [next |-> w.next, title |-> w.title, row |-> w.row,
                      deps |-> w.deps, titleMap |-> w.titleMap]
<1>1. g \in [ts -> Id] /\ DOMAIN g = ts /\ \A t \in ts : e.title[g[t]] = t
  BY DEF Numberings
<1>2. /\ e.next \in Nat /\ e.title \in [Id -> Title \cup {Absent}] /\ e.row \in [Id -> Id]
  BY StoreAssumption DEF Sound, Db
<1>3. Cardinality({}) = 0
  BY FS_EmptySet
<1>4. Unknown(e, DOMAIN g) = {}
  BY <1>1
<1>5. /\ e.title = [i \in Id |-> IF \E t \in {} : g[t] = i
                              THEN CHOOSE t \in {} : g[t] = i ELSE e.title[i]]
      /\ e.row = [i \in Id |-> IF \E t \in {} : g[t] = i THEN i ELSE e.row[i]]
      /\ e.next = e.next + Cardinality({})
  BY <1>2, <1>3
<1> QED BY <1>1, <1>4, <1>5 DEF EnsureIssues

(* README.md, "Sync Idempotency: Run pt sync twice: No duplicate issues":  *)
(* a sync of the same manifest once more makes no issue, whatever it finds *)
(* under its titles; and where the titles of the manifest are told apart   *)
(* it leaves the store as it is.                                           *)
THEOREM SyncTwiceIsSyncOnce ==
  ASSUME NEW db, Sound(db), NEW m \in Manifests, MayNumber(db, DOMAIN m),
         NEW f \in Numberings(db, DOMAIN m),
         NEW g \in Numberings(Sync(db, m, f), DOMAIN m)
  PROVE  /\ Ids(Sync(Sync(db, m, f), m, g)) = Ids(Sync(db, m, f))
         /\ Sync(Sync(db, m, f), m, g).next = Sync(db, m, f).next
         /\ ToldApart(Sync(db, m, f), DOMAIN m) => Sync(Sync(db, m, f), m, g) = Sync(db, m, f)
<1> DEFINE e == Sync(db, m, f)
           w == EnsureIssues(e, g)
           pairs == ManifestDeps(m, IdMap(e, g))
<1>1. /\ Sound(e) /\ IdMap(db, f) \in [DOMAIN m -> Ids(e)]
      /\ \A t \in DOMAIN m : e.title[IdMap(db, f)[t]] = t
      /\ \A t \in DOMAIN m : \A d \in m[t] : Waits(e, IdMap(db, f)[t], IdMap(db, f)[d])
      /\ DOMAIN m \in SUBSET Title /\ \A t \in DOMAIN m : m[t] \subseteq DOMAIN m
  BY SyncSound, PlanningAssumption
<1>2. \A t \in DOMAIN m : IdMap(db, f)[t] \in Bearing(e, t)
  BY <1>1 DEF Bearing, Ids
<1>3. Unknown(e, DOMAIN m) = {}
  BY <1>2 DEF Unknown
<1>4. /\ g \in [DOMAIN m -> Id] /\ DOMAIN g = DOMAIN m
      /\ \A t \in DOMAIN m : e.title[g[t]] = t
  <2>1. \A t \in DOMAIN m : t \notin Unknown(e, DOMAIN m)
    BY <1>3
  <2>2. g \in [DOMAIN m -> Id] /\ \A t \in DOMAIN m \ Unknown(e, DOMAIN m) : e.title[g[t]] = t
    BY DEF Numberings
  <2> HIDE DEF e
  <2> QED BY <2>1, <2>2
<1>5. /\ e.next \in Nat /\ e.title \in [Id -> Title \cup {Absent}]
      /\ e.row \in [Id -> Id] /\ e.deps \in [Id -> SUBSET Id]
      /\ e.titleMap \in [Title -> 0 .. MaxId]
      /\ e = [next |-> e.next, title |-> e.title, row |-> e.row,
              deps |-> e.deps, titleMap |-> e.titleMap]
  BY <1>1 DEF Sound, Db
<1>6. /\ w.next = e.next /\ w.title = e.title /\ w.row = e.row /\ w.deps = e.deps
      /\ w.titleMap = [t \in Title |-> IF t \in DOMAIN m THEN g[t] ELSE e.titleMap[t]]
      /\ w = [next |-> w.next, title |-> w.title, row |-> w.row,
              deps |-> w.deps, titleMap |-> w.titleMap]
  BY <1>1, <1>3, NothingToNumber
<1>7. /\ Sync(e, m, g).next = w.next /\ Sync(e, m, g).title = w.title
      /\ Sync(e, m, g).row = w.row /\ Sync(e, m, g).titleMap = w.titleMap
      /\ Sync(e, m, g).deps = [i \in Id |-> w.deps[i] \cup {d \in Id \ {i} : <<i, d>> \in pairs}]
      /\ Sync(e, m, g) = [w EXCEPT !.deps = Sync(e, m, g).deps]
  <2> HIDE DEF e
  <2> QED BY <1>6 DEF Sync, AddDeps
<1>8. Ids(Sync(e, m, g)) = Ids(e)
  <2> HIDE DEF e, w
  <2> QED BY <1>6, <1>7 DEF Ids
<1>9. ASSUME ToldApart(e, DOMAIN m) PROVE Sync(e, m, g) = e
  <2>1. \A t \in DOMAIN m : g[t] = IdMap(db, f)[t]
    <3> HIDE DEF e
    <3> QED BY <1>2, <1>4, <1>9 DEF ToldApart, Bearing
  <2>2. \A t \in DOMAIN m : e.titleMap[t] = g[t]
    <3>1. e.titleMap = EnsureIssues(db, f).titleMap
      <4>1. EnsureIssues(db, f) \in Db
        BY <1>1, EnsureIssuesSound DEF Sound
      <4> QED BY <4>1 DEF Sync, AddDeps, Db
    <3>2. \A t \in DOMAIN m : EnsureIssues(db, f).titleMap[t] = IdMap(db, f)[t]
      BY <1>1, EnsureIssuesSound
    <3> QED BY <2>1, <3>1, <3>2
  <2>3. w.titleMap = e.titleMap
    <3> HIDE DEF e, w
    <3> QED BY <1>5, <1>6, <2>2
  <2>4. \A t \in DOMAIN m : IdMap(e, g)[t] = IdMap(db, f)[t]
    <3>1. \A t \in DOMAIN m : IdMap(e, g)[t] = e.row[g[t]] /\ g[t] \in Ids(e)
      <4> HIDE DEF e
      <4> QED BY <1>1, <1>4, <1>6, StoreAssumption DEF IdMap, Ids
    <3> QED BY <1>1, <2>1, <3>1 DEF Sound, Coherent
  <2>5. \A i, d \in Id : <<i, d>> \in pairs /\ d # i => d \in e.deps[i]
    <3> HIDE DEF e
    <3> QED BY <1>1, <2>4 DEF ManifestDeps, Waits
  <2>6. Sync(e, m, g).deps = e.deps
    <3> HIDE DEF e, w, pairs
    <3>1. \A i \in Id : e.deps[i] \cup {d \in Id \ {i} : <<i, d>> \in pairs} = e.deps[i]
      BY <2>5
    <3> QED BY <1>5, <1>6, <1>7, <3>1
  <2> HIDE DEF e, w
  <2> QED BY <1>5, <1>6, <1>7, <2>3, <2>6
<1> QED BY <1>6, <1>7, <1>8, <1>9
-----------------------------------------------------------------------------
(* Plans that can be worked off.  L is an order of the titles: what is     *)
(* lower is done first.                                                    *)

Follows(L, db) == \A i \in Ids(db) : \A d \in db.deps[i] : L[db.title[d]] < L[db.title[i]]

\* The commands that are carried out agree on the order L.
InLine(L) ==
  \A p \in Proc :
    /\ SaveSync(p) => \A t \in DOMAIN cmd[p].manifest : \A d \in cmd[p].manifest[t] : L[d] < L[t]
    /\ SaveAdd(p) => \A a \in cmd[p].args : L[mem[p].title[Resolved(mem[p], a)]] < L[cmd[p].title]
    /\ \A t \in todo[p] : SaveLink(p, t) => L[ReviewOf[t]] < L[t]
    /\ SaveRename(p) => L[cmd[p].title] = L[mem[p].title[cmd[p].id]]

OrderInv(L) == TellInv /\ Follows(L, file) /\ \A p \in Proc : Follows(L, mem[p])

LEMMA NumbersHaveALeast ==
  ASSUME NEW T, T \subseteq Nat, T # {}
  PROVE  \E x \in T : \A y \in T : x <= y
<1> DEFINE R == {ss \in Nat \X Nat : ss[1] < ss[2]}
<1>1. IsWellFoundedOn(R, Nat)
  BY NatLessThanWellFounded DEF OpToRel
<1>2. PICK x \in T : \A y \in T : <<y, x>> \notin R
  <2> HIDE DEF R
  <2> QED BY <1>1, WFMin
<1>3. ASSUME NEW y \in T PROVE x <= y
  <2>1. x \in Nat /\ y \in Nat /\ <<y, x>> \in Nat \X Nat
    OBVIOUS
  <2>2. ~ y < x
    BY <1>2, <2>1
  <2> QED BY <2>1, <2>2
<1> QED BY <1>3

\* The lowest task of a set waits for none of the set.
LEMMA OrderedIsAcyclic ==
  ASSUME NEW L \in [Title -> Nat], NEW db, Sound(db), Follows(L, db)
  PROVE  Acyclic(db)
<1> SUFFICES ASSUME NEW S \in SUBSET Id, S # {} PROVE \E i \in S : db.deps[i] \cap S = {}
  BY DEF Acyclic
<1>1. CASE \E i \in S : i \notin Ids(db)
  BY <1>1 DEF Sound, Coherent
<1>2. CASE S \subseteq Ids(db)
  <2> DEFINE T == {L[db.title[i]] : i \in S}
  <2>1. \A i \in S : db.title[i] \in Title
    BY <1>2 DEF Ids, Sound, Db
  <2>2. T \subseteq Nat /\ T # {}
    BY <2>1
  <2>3. PICK i \in S : \A j \in S : L[db.title[i]] <= L[db.title[j]]
    <3>1. PICK x \in T : \A y \in T : x <= y
      <4> HIDE DEF T
      <4> QED BY <2>2, NumbersHaveALeast
    <3> QED BY <3>1
  <2>4. ASSUME NEW d \in db.deps[i], d \in S PROVE FALSE
    <3>1. L[db.title[d]] < L[db.title[i]] /\ L[db.title[i]] <= L[db.title[d]]
      BY <1>2, <2>3, <2>4 DEF Follows
    <3>2. L[db.title[d]] \in Nat /\ L[db.title[i]] \in Nat
      BY <2>1, <2>4
    <3> QED BY <3>1, <3>2
  <2> QED BY <2>4
<1> QED BY <1>1, <1>2

LEMMA EnsureIssuesFollows ==
  ASSUME NEW L, NEW db, Sound(db), Follows(L, db), NEW ts \in SUBSET Title, MayNumber(db, ts),
         NEW f \in Numberings(db, ts)
  PROVE  Follows(L, EnsureIssues(db, f))
<1> DEFINE e == EnsureIssues(db, f)
<1>1. e.deps = db.deps
  BY DEF EnsureIssues
<1>2. \A i \in Ids(db) : e.title[i] = db.title[i]
  BY EnsureIssuesSound DEF Extends
<1>3. \A i \in Id : db.deps[i] \subseteq Ids(db) /\ (i \notin Ids(db) => db.deps[i] = {})
  BY DEF Sound, Coherent
<1> SUFFICES ASSUME NEW i \in Ids(e), NEW d \in e.deps[i] PROVE L[e.title[d]] < L[e.title[i]]
  BY DEF Follows
<1>4. i \in Id /\ i \in Ids(db) /\ d \in Ids(db) /\ d \in db.deps[i]
  BY <1>1, <1>3 DEF Ids
<1> QED BY <1>2, <1>4 DEF Follows

LEMMA AddDepsFollows ==
  ASSUME NEW L, NEW db, Sound(db), Follows(L, db), NEW pairs \in SUBSET (Ids(db) \X Ids(db)),
         \A i, d \in Ids(db) : <<i, d>> \in pairs => L[db.title[d]] < L[db.title[i]]
  PROVE  Follows(L, AddDeps(db, pairs))
<1> DEFINE e == AddDeps(db, pairs)
<1>1. /\ e.title = db.title /\ Ids(e) = Ids(db)
      /\ e.deps = [i \in Id |-> db.deps[i] \cup {d \in Id \ {i} : <<i, d>> \in pairs}]
  BY AddDepsSound DEF AddDeps, Sound, Db
<1> SUFFICES ASSUME NEW i \in Ids(db), NEW d \in e.deps[i] PROVE L[db.title[d]] < L[db.title[i]]
  BY <1>1 DEF Follows
<1>2. d \in db.deps[i] \/ <<i, d>> \in pairs
  BY <1>1 DEF Ids
<1> QED BY <1>2 DEF Follows

LEMMA SyncFollows ==
  ASSUME NEW L, NEW db, Sound(db), Follows(L, db), NEW m \in Manifests, MayNumber(db, DOMAIN m),
         NEW f \in Numberings(db, DOMAIN m), \A t \in DOMAIN m : \A d \in m[t] : L[d] < L[t]
  PROVE  Follows(L, Sync(db, m, f))
<1> DEFINE e == EnsureIssues(db, f)
<1>1. DOMAIN m \in SUBSET Title /\ \A t \in DOMAIN m : m[t] \subseteq DOMAIN m
  BY PlanningAssumption
<1>2. /\ Sound(e) /\ Follows(L, e) /\ IdMap(db, f) \in [DOMAIN m -> Ids(e)]
      /\ \A t \in DOMAIN m : e.title[IdMap(db, f)[t]] = t
  BY <1>1, EnsureIssuesSound, EnsureIssuesFollows
<1>3. ManifestDeps(m, IdMap(db, f)) \in SUBSET (Ids(e) \X Ids(e))
  BY <1>1, <1>2 DEF ManifestDeps
<1>4. \A i, d \in Ids(e) : <<i, d>> \in ManifestDeps(m, IdMap(db, f)) => L[e.title[d]] < L[e.title[i]]
  <2> HIDE DEF e
  <2> QED BY <1>1, <1>2 DEF ManifestDeps
<1> QED BY <1>2, <1>3, <1>4, AddDepsFollows DEF Sync

LEMMA ResolvedIsHere ==
  ASSUME NEW db, Sound(db), NEW a, Resolves(db, a) PROVE Resolved(db, a) \in Ids(db)
<1>1. CASE a \in Ids(db)
  BY <1>1 DEF Resolved
<1>2. CASE a \notin Ids(db)
  <2>1. a \in Title /\ db.titleMap[a] # 0
    BY <1>2 DEF Resolves
  <2>2. db.titleMap[a] \in Id /\ db.title[db.titleMap[a]] = a
    BY <2>1, StoreAssumption DEF Sound, Db, Id, Coherent
  <2> QED BY <1>2, <2>1, <2>2, StoreAssumption DEF Resolved, Ids
<1> QED BY <1>1, <1>2

LEMMA AddTaskFollows ==
  ASSUME NEW L, NEW db, Sound(db), Follows(L, db), NEW t \in Title, MayNumber(db, {t}),
         NEW f \in Numberings(db, {t}), NEW args, \A a \in args : Resolves(db, a),
         \A a \in args : L[db.title[Resolved(db, a)]] < L[t]
  PROVE  Follows(L, AddTask(db, f, args))
<1> DEFINE e == EnsureIssues(db, f)
           pairs == {<<i, Resolved(db, a)>> : i \in {IdMap(db, f)[u] : u \in DOMAIN f}, a \in args}
<1>1. /\ Sound(e) /\ Ids(db) \subseteq Ids(e) /\ Extends(db, e) /\ Follows(L, e)
      /\ IdMap(db, f) \in [{t} -> Ids(e)] /\ e.title[IdMap(db, f)[t]] = t
  BY EnsureIssuesSound, EnsureIssuesFollows
<1>2. DOMAIN f = {t}
  BY DEF Numberings
<1>3. \A a \in args : Resolved(db, a) \in Ids(e) /\ e.title[Resolved(db, a)] = db.title[Resolved(db, a)]
  BY <1>1, ResolvedIsHere DEF Extends
<1>4. pairs \in SUBSET (Ids(e) \X Ids(e))
  BY <1>1, <1>2, <1>3
<1>5. \A i, d \in Ids(e) : <<i, d>> \in pairs => L[e.title[d]] < L[e.title[i]]
  <2> HIDE DEF e
  <2> QED BY <1>1, <1>2, <1>3
<1>6. AddTask(db, f, args) = AddDeps(e, pairs)
  BY DEF AddTask
<1> HIDE DEF e, pairs
<1>7. Follows(L, AddDeps(e, pairs))
  BY <1>1, <1>4, <1>5, AddDepsFollows
<1> QED BY <1>6, <1>7

\* The new title stands where the old one stood.
LEMMA RenameFollows ==
  ASSUME NEW L, NEW db, Sound(db), Follows(L, db), NEW i \in Ids(db), NEW t \in Title,
         L[t] = L[db.title[i]]
  PROVE  Follows(L, Rename(db, i, t))
<1> DEFINE e == Rename(db, i, t)
<1>1. e.deps = db.deps /\ e.title = [db.title EXCEPT ![i] = t] /\ i \in Id
  BY DEF Rename, Sound, Db, Ids
<1>2. Ids(e) = Ids(db)
  BY <1>1, StoreAssumption DEF Ids, Sound, Db
<1>3. \A j \in Ids(db) : L[e.title[j]] = L[db.title[j]]
  BY <1>1 DEF Sound, Db, Ids
<1> SUFFICES ASSUME NEW j \in Ids(db), NEW d \in db.deps[j] PROVE L[e.title[d]] < L[e.title[j]]
  BY <1>1, <1>2 DEF Follows
<1>4. d \in Ids(db)
  BY DEF Sound, Coherent, Ids
<1> QED BY <1>3, <1>4 DEF Follows

\* A process writes what it holds, and holds what it has read or written.
LEMMA WritesFollow ==
  ASSUME NEW L, OrderInv(L), TellInv', NEW p \in Proc, OnlyOf(p),
         Follows(L, file'), Follows(L, mem'[p])
  PROVE  OrderInv(L)'
<1>1. \A q \in Proc : Follows(L, mem'[q])
  BY DEF OnlyOf, OrderInv
<1> QED BY <1>1 DEF OrderInv

LEMMA EmptyFollows == ASSUME NEW L PROVE Follows(L, EmptyDb)
BY DEF Follows, Ids, EmptyDb

LEMMA StartFollows ==
  ASSUME NEW L, OrderInv(L), TellInv', NEW p \in Proc, Start(p) PROVE OrderInv(L)'
<1>1. OnlyOf(p) /\ file' = file /\ mem'[p] = file
  BY DEF Start, BeginSync, BeginAdd, BeginRename, Begin, OrderInv, TellInv, Inv, OnlyOf
<1> QED BY <1>1, WritesFollow DEF OrderInv

LEMMA ContinueFollows ==
  ASSUME NEW L, OrderInv(L), TellInv', NEW p \in Proc, Continue(p), InLine(L) PROVE OrderInv(L)'
<1>1. /\ Sound(mem[p]) /\ Follows(L, mem[p]) /\ ProcInv(p) /\ Inv
  BY DEF OrderInv, TellInv, Inv, ProcInv
<1>2. CASE SaveSync(p)
  <2> DEFINE m == cmd[p].manifest
  <2>1. PICK f \in Numberings(mem[p], DOMAIN m) : Save(p, Sync(mem[p], m, f))
    BY <1>2 DEF SaveSync
  <2>2. m \in Manifests /\ MayNumber(mem[p], DOMAIN m)
    BY <1>1, <1>2 DEF SaveSync, ProcInv, Command
  <2>3. Follows(L, Sync(mem[p], m, f))
    BY <1>1, <1>2, <2>2, SyncFollows DEF InLine
  <2>4. OnlyOf(p) /\ file' = Sync(mem[p], m, f) /\ mem'[p] = Sync(mem[p], m, f)
    BY <1>1, <1>2, <2>1 DEF SaveSync, Save, Inv, OnlyOf, Step
  <2> QED BY <2>3, <2>4, WritesFollow
<1>3. CASE SaveAdd(p)
  <2> DEFINE t == cmd[p].title
             new(f) == AddTask(mem[p], f, cmd[p].args)
  <2>1. PICK f \in Numberings(mem[p], {t}) : Save(p, new(f)) /\ \E x : ids' = [ids EXCEPT ![p] = x]
    BY <1>3 DEF SaveAdd
  <2>2. /\ t \in Title /\ MayNumber(mem[p], {t}) /\ \A a \in cmd[p].args : Resolves(mem[p], a)
        /\ \A a \in cmd[p].args : L[mem[p].title[Resolved(mem[p], a)]] < L[t]
    BY <1>1, <1>3 DEF SaveAdd, ProcInv, Command, InLine
  <2>3. Follows(L, new(f))
    <3>1. PICK db, u, args : db = mem[p] /\ u = t /\ args = cmd[p].args
      OBVIOUS
    <3>2. Follows(L, AddTask(db, f, args))
      BY <1>1, <2>1, <2>2, <3>1, AddTaskFollows
    <3> QED BY <3>1, <3>2, Zenon
  <2>4. OnlyOf(p) /\ file' = new(f) /\ mem'[p] = new(f)
    BY <1>1, <1>3, <2>1 DEF SaveAdd, Save, Inv, OnlyOf, Step
  <2> QED BY <2>3, <2>4, WritesFollow
<1>4. ASSUME NEW t \in todo[p], SaveReview(p, t) PROVE OrderInv(L)'
  <2> DEFINE r == ReviewOf[t]
             new(f) == AddTask(mem[p], f, {})
  <2>1. PICK f \in Numberings(mem[p], {r}) : Save(p, new(f)) /\ \E x : ids' = [ids EXCEPT ![p] = x]
    BY <1>4 DEF SaveReview
  <2>2. r \in Title /\ MayNumber(mem[p], {r})
    BY <1>1, <1>4, PlanningAssumption DEF SaveReview, ProcInv
  <2>3. Follows(L, new(f))
    <3>1. PICK db, u, args : db = mem[p] /\ u = r /\ args = {}
      OBVIOUS
    <3>2. Follows(L, AddTask(db, f, args))
      BY <1>1, <2>1, <2>2, <3>1, AddTaskFollows
    <3> QED BY <3>1, <3>2, Zenon
  <2>4. OnlyOf(p) /\ file' = new(f) /\ mem'[p] = new(f)
    BY <1>1, <1>4, <2>1 DEF SaveReview, Save, Inv, OnlyOf, Step
  <2> QED BY <2>3, <2>4, WritesFollow
<1>5. ASSUME NEW t \in todo[p], SaveLink(p, t) PROVE OrderInv(L)'
  <2> DEFINE i == ids[p][t]
             r == ids[p][ReviewOf[t]]
             new == AddDeps(mem[p], {<<i, r>>})
  <2>1. /\ ReviewOf[t] \in DOMAIN ids[p] /\ Delivered(p) /\ t \in DOMAIN ids[p]
        /\ L[ReviewOf[t]] < L[t]
    BY <1>1, <1>5 DEF SaveLink, OrderInv, TellInv, Saved, ProcInv, InLine
  <2>2. /\ i \in Ids(mem[p]) /\ r \in Ids(mem[p])
        /\ mem[p].title[i] = t /\ mem[p].title[r] = ReviewOf[t]
    BY <1>1, <2>1 DEF ProcInv, Delivered
  <2>3. Follows(L, new)
    <3> HIDE DEF i, r
    <3>1. {<<i, r>>} \in SUBSET (Ids(mem[p]) \X Ids(mem[p]))
      BY <2>2
    <3>2. \A j, d \in Ids(mem[p]) : <<j, d>> \in {<<i, r>>} => L[mem[p].title[d]] < L[mem[p].title[j]]
      BY <2>1, <2>2
    <3> QED BY <1>1, <3>1, <3>2, AddDepsFollows
  <2>4. OnlyOf(p) /\ file' = new /\ mem'[p] = new
    BY <1>1, <1>5 DEF SaveLink, Save, Inv, OnlyOf, Step
  <2> QED BY <2>3, <2>4, WritesFollow
<1>6. CASE SaveRename(p)
  <2> DEFINE new == Rename(mem[p], cmd[p].id, cmd[p].title)
  <2>1. cmd[p].id \in Ids(mem[p]) /\ cmd[p].title \in Title /\ L[cmd[p].title] = L[mem[p].title[cmd[p].id]]
    BY <1>1, <1>6 DEF SaveRename, ProcInv, Command, InLine
  <2>2. Follows(L, new)
    BY <1>1, <2>1, RenameFollows
  <2>3. OnlyOf(p) /\ file' = new /\ mem'[p] = EmptyDb
    BY <1>1, <1>6 DEF SaveRename, Exit, Inv, OnlyOf, Step
  <2> QED BY <2>2, <2>3, EmptyFollows, WritesFollow
<1>7. CASE Relabel(p) \/ Labelled(p) \/ \E t \in todo[p] : SkipReview(p, t)
  <2>1. OnlyOf(p) /\ file' \in {file, mem[p]} /\ mem'[p] = mem[p]
    BY <1>1, <1>7 DEF Relabel, Labelled, SkipReview, Save, Inv, OnlyOf, Step
  <2> QED BY <1>1, <2>1, WritesFollow DEF OrderInv
<1>8. CASE Finish(p) \/ Quit(p)
  <2>1. OnlyOf(p) /\ file' = file /\ mem'[p] = EmptyDb
    BY <1>1, <1>8 DEF Finish, Quit, Exit, Inv, OnlyOf, Step
  <2> QED BY <2>1, EmptyFollows, WritesFollow DEF OrderInv
<1> QED BY <1>2, <1>3, <1>4, <1>5, <1>6, <1>7, <1>8 DEF Continue

(* Commands that agree on an order of the titles leave a plan that can be  *)
(* worked off: however they overlap, whatever they overwrite and wherever  *)
(* they are killed, no set of tasks ever waits for itself.  So it takes    *)
(* two manifests, or a manifest and its review tasks, an add or a rename,  *)
(* that contradict each other to tie the knot that the check in Sync,      *)
(* which sees one manifest at a time, lets through.                        *)
THEOREM PlansInLineCanBeWorkedOff ==
  ASSUME NEW L \in [Title -> Nat]
  PROVE  Init /\ [][Next /\ InLine(L)]_vars => []Acyclic(file)
<1>1. Init => OrderInv(L)
  BY InitTell, EmptyFollows DEF Init, OrderInv
<1>2. OrderInv(L) /\ [Next /\ InLine(L)]_vars => OrderInv(L)'
  <2> SUFFICES ASSUME OrderInv(L), [Next /\ InLine(L)]_vars PROVE OrderInv(L)'
    OBVIOUS
  <2>1. TellInv'
    BY NextTell DEF OrderInv
  <2>2. CASE UNCHANGED vars
    BY <2>1, <2>2 DEF vars, OrderInv
  <2> QED BY <2>1, <2>2, StartFollows, ContinueFollows DEF Next
<1>3. OrderInv(L) => Acyclic(file)
  BY OrderedIsAcyclic DEF OrderInv, TellInv, Inv
<1> QED BY <1>1, <1>2, <1>3, PTL
=============================================================================
