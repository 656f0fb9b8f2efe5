------------------------------ MODULE PlanStore ------------------------------
(***************************************************************************)
(* The plan half of the store (pkg/pt/store.go): which tasks exist, under  *)
(* which ids and titles, and what they depend on; and the store calls that *)
(* change it, as functions of a snapshot.                                  *)
(*                                                                         *)
(* Ids "pt-1", "pt-2"... are the numbers 1, 2...  A manifest maps titles   *)
(* to the titles they depend on (validateManifest refuses two tasks of one *)
(* title and a dependency that is not in the manifest).  Go ranges over    *)
(* maps in no order: where several issues bear a title any of them may be  *)
(* found.  Sync may number new tasks in any order, the manifest's order    *)
(* among them.                                                             *)
(***************************************************************************)
EXTENDS Naturals, FiniteSets

CONSTANTS
  Title,     \* the titles in use
  Absent,    \* the title of an id that has no issue
  MaxId      \* bound: no more issues than this are created

ASSUME StoreAssumption == Absent \notin Title /\ IsFiniteSet(Title) /\ MaxId \in Nat

Id == 1..MaxId

Db == [next : 0..MaxId,                   \* NextID
       title : [Id -> Title \cup {Absent}],  \* Issues[id].Title
       row : [Id -> Id],                  \* Issues[id].ID, the id the row itself bears
       deps : [Id -> SUBSET Id],          \* Deps
       titleMap : [Title -> 0..MaxId]]    \* TitleMap, 0 for no entry

EmptyDb == [next |-> 0,
            title |-> [i \in Id |-> Absent],
            row |-> [i \in Id |-> i],
            deps |-> [i \in Id |-> {}],
            titleMap |-> [t \in Title |-> 0]]

Ids(db) == {i \in Id : db.title[i] # Absent}

Bearing(db, t) == {i \in Id : db.title[i] = t}

Unknown(db, ts) == {t \in ts : Bearing(db, t) = {}}

(* detectManifestCycles: a set of titles none of which can come first.     *)
HasCycle(m) ==
  \E S \in SUBSET DOMAIN m : S # {} /\ \A t \in S : m[t] \cap S # {}

(* The ids the titles ts may get: a known title keeps an id that bears it, *)
(* the others take the next free numbers.                                  *)
Numberings(db, ts) ==
  LET new == Unknown(db, ts) IN
  {f \in [ts -> Id] :
     /\ \A t \in ts \ new : db.title[f[t]] = t
     /\ \A t, u \in new : f[t] = f[u] => t = u
     /\ {f[t] : t \in new} = (db.next + 1)..(db.next + Cardinality(new))}

\* An ensureIssueLocked that takes a number also for a title it knows.
EnsureIssuesCountingAll(db, f) ==
  LET new == Unknown(db, DOMAIN f) IN
  [next |-> db.next + Cardinality(DOMAIN f),
   title |-> [i \in Id |-> IF \E t \in new : f[t] = i
                           THEN CHOOSE t \in new : f[t] = i ELSE db.title[i]],
   row |-> [i \in Id |-> IF \E t \in new : f[t] = i THEN i ELSE db.row[i]],
   deps |-> db.deps,
   titleMap |-> [t \in Title |-> IF t \in DOMAIN f THEN f[t] ELSE db.titleMap[t]]]

\* ensureIssueLocked for every title of f.
EnsureIssues(db, f) ==
  LET new == Unknown(db, DOMAIN f) IN
  [next |-> db.next + Cardinality(new),
   title |-> [i \in Id |-> IF \E t \in new : f[t] = i
                           THEN CHOOSE t \in new : f[t] = i ELSE db.title[i]],
   row |-> [i \in Id |-> IF \E t \in new : f[t] = i THEN i ELSE db.row[i]],
   deps |-> db.deps,
   titleMap |-> [t \in Title |-> IF t \in DOMAIN f THEN f[t] ELSE db.titleMap[t]]]

\* addDepLocked for each pair <<issue, dependency>>.
AddDeps(db, pairs) ==
  [db EXCEPT !.deps = [i \in Id |-> db.deps[i] \cup {d \in Id \ {i} : <<i, d>> \in pairs}]]

\* idByTitle: the id that ensureIssueLocked returns is the row's own.
IdMap(db, f) == [t \in DOMAIN f |-> EnsureIssues(db, f).row[f[t]]]

ManifestDeps(m, ids) == UNION {{<<ids[t], ids[d]>> : d \in m[t]} : t \in DOMAIN m}

Sync(db, m, f) == AddDeps(EnsureIssues(db, f), ManifestDeps(m, IdMap(db, f)))

(* The arguments of pt add --deps are ids, or titles that TitleMap knows.  *)
Resolves(db, a) == a \in Ids(db) \/ (a \in Title /\ db.titleMap[a] # 0)

Resolved(db, a) == IF a \in Ids(db) THEN a ELSE db.titleMap[a]

\* AddTask of title t, which gets or already has the id f[t].
AddTask(db, f, args) ==
  AddDeps(EnsureIssues(db, f), {<<i, Resolved(db, a)>> : i \in {IdMap(db, f)[t] : t \in DOMAIN f},
                                                        a \in args})

\* An UpdateTask that leaves the old title in the map.
RenameKeepingEntry(db, i, t) ==
  [db EXCEPT !.title[i] = t, !.titleMap[t] = i]

\* UpdateTask with a new title; another issue may bear it already.
Rename(db, i, t) ==
  [db EXCEPT !.title = [db.title EXCEPT ![i] = t],
             !.titleMap = [u \in Title |-> IF u = t THEN i
                                          ELSE IF u = db.title[i] THEN 0 ELSE db.titleMap[u]]]
-----------------------------------------------------------------------------
(* A store that makes sense: ids below NextID, rows that bear their own    *)
(* id, dependencies on other issues of this store, and a title map that    *)
(* points to issues of that title.                                         *)
Coherent(db) ==
  /\ Ids(db) \subseteq 1..db.next
  /\ \A i \in Ids(db) : db.row[i] = i
  /\ \A i \in Id : db.deps[i] \subseteq Ids(db) \ {i}
  /\ \A i \in Id \ Ids(db) : db.deps[i] = {}
  /\ \A t \in Title : db.titleMap[t] # 0 => db.title[db.titleMap[t]] = t

\* The dependency graph can be worked off: no set of tasks waits for itself.
Acyclic(db) ==
  \A S \in SUBSET Id : S # {} => \E i \in S : db.deps[i] \cap S = {}
=============================================================================
