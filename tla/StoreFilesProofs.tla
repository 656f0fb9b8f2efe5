------------------------- MODULE StoreFilesProofs -------------------------
(***************************************************************************)
(* Store files, for any directories, titles, exported stores, number of    *)
(* racing processes, seconds and kills: no store gives a number twice, the *)
(* search for the store keeps its answer and, while commands do not        *)
(* overlap, what was reported as stored is found again.                    *)
(*                                                                         *)
(* A process writes what it has read, changed by add, merge or repair, or  *)
(* leaves the file torn; so it is enough that these three keep a store     *)
(* sensible, and that a process writes only in a directory that has a      *)
(* store already or is the last one of a search.  A process that works     *)
(* alone works on the store its search leads to, and what it gives up      *)
(* there is in a copy by then.  An import repeated changes nothing.        *)
(***************************************************************************)
EXTENDS StoreFiles, TLAPS, FiniteSetTheorems, WellFoundedInduction

Stores == {db \in Db : Numbered(db)}

AddSteps == {"migrate", "move", "load", "save"}

FileTypes == file \in [Path -> Stores \cup {None, Torn}]

CopyTypes ==
  copies \subseteq [path : Path, kind : {"backup", "snap"}, second : 0..MaxSecond,
                    db : Stores \cup {Torn}]

CommandFits(p) ==
  /\ cmd[p] \in Command
  /\ pc[p] \in AddSteps => cmd[p].kind = "add"
  /\ cmd[p].kind = "import" => cmd[p].source \in Stores

SlotTypes ==
  /\ pc \in [Proc -> Step]
  /\ path \in [Proc -> Path \cup {Gone}]
  /\ mem \in [Proc -> Stores]
  /\ DOMAIN cmd = Proc /\ cmd = [p \in Proc |-> cmd[p]]
  /\ \A p \in Proc : pc[p] # "idle" => CommandFits(p)
  /\ \A p \in Proc : path[p] = Gone => pc[p] \in {"idle", "write"}

AuxTypes ==
  /\ now \in 0..MaxSecond
  /\ told \subseteq [cwd : Cwd, title : Title]
  /\ overlapped \in BOOLEAN /\ hurried \in BOOLEAN /\ started \in Nat

\* The directory d is a repository's root.
IsRoot(d) == \E w \in Cwd : d = Search[w][Len(Search[w])]

WritesAtHome ==
  \A p \in Proc : path[p] # Gone => HasStore(path[p][1]) \/ IsRoot(path[p][1])

MovesLegacy == \A p \in Proc : pc[p] = "move" => path[p][2] = "legacy"

Inv == FileTypes /\ CopyTypes /\ SlotTypes /\ AuxTypes /\ WritesAtHome /\ MovesLegacy
-----------------------------------------------------------------------------
LEMMA Names ==
  /\ None \notin Stores /\ Torn \notin Stores /\ None # Torn /\ Gone \notin Path
  /\ \A d \in Dir, k \in {"legacy", "current"} : <<d, k>> \in Path
  /\ \A f \in Path : f[1] \in Dir /\ f[2] \in {"legacy", "current"} /\ f = <<f[1], f[2]>>
BY StoreFilesAssumption DEF Stores, Path

\* The empty store makes sense, and so do those the constants name.
LEMMA GivenStores == EmptyDb \in Stores /\ Old \in Stores /\ Foreign \subseteq Stores
<1>1. EmptyDb \in Db
  BY StoreAssumption DEF EmptyDb, Db, Id
<1>2. Ids(EmptyDb) = {}
  BY DEF EmptyDb, Ids
<1>3. Numbered(EmptyDb)
  BY <1>2 DEF Numbered, EmptyDb
<1>4. \A db : Coherent(db) => Numbered(db)
  BY DEF Coherent, Numbered
<1>5. QED BY <1>1, <1>3, <1>4, StoreFilesAssumption DEF Stores

LEMMA StoreFields ==
  ASSUME NEW db \in Stores
  PROVE  /\ db.next \in 0..MaxId /\ db.title \in [Id -> Title \cup {Absent}]
         /\ db.row \in [Id -> Id] /\ db.deps \in [Id -> SUBSET Id]
         /\ db.titleMap \in [Title -> 0..MaxId]
         /\ \A i \in Ids(db) : i \in Id /\ i <= db.next
         /\ \A t \in Title : db.titleMap[t] # 0 => db.title[db.titleMap[t]] = t
<1>1. db \in Db /\ Numbered(db)
  BY DEF Stores
<1>2. /\ db.next \in 0..MaxId /\ db.title \in [Id -> Title \cup {Absent}]
      /\ db.row \in [Id -> Id] /\ db.deps \in [Id -> SUBSET Id]
      /\ db.titleMap \in [Title -> 0..MaxId]
  BY <1>1 DEF Db
<1>3. \A i \in Ids(db) : i \in Id /\ i <= db.next
  <2> SUFFICES ASSUME NEW i \in Ids(db) PROVE i \in Id /\ i <= db.next
    OBVIOUS
  <2>1. i \in 1..db.next
    BY <1>1 DEF Numbered
  <2>2. i \in Id
    BY DEF Ids
  <2> QED BY <2>1, <2>2, <1>2
<1>4. QED BY <1>1, <1>2, <1>3 DEF Numbered

(* A title that is added gets the number after NextID, or keeps the issue  *)
(* it has.                                                                 *)
LEMMA AddedStore ==
  ASSUME NEW db \in Stores, NEW t \in Title, NEW f \in Numberings(db, {t}),
         db.next + Cardinality(Unknown(db, {t})) <= MaxId
  PROVE  /\ EnsureIssues(db, f) \in Stores
         /\ Bearing(EnsureIssues(db, f), t) # {}
         /\ \A u \in Title : Bearing(db, u) # {} => Bearing(EnsureIssues(db, f), u) # {}
<1> DEFINE new == Unknown(db, {t})
           e == EnsureIssues(db, f)
<1>1. /\ f \in [{t} -> Id] /\ DOMAIN f = {t} /\ f[t] \in Id
      /\ t \notin new => db.title[f[t]] = t
      /\ {f[u] : u \in new} = (db.next + 1)..(db.next + Cardinality(new))
  BY DEF Numberings
<1>2. /\ db.next \in 0..MaxId /\ db.title \in [Id -> Title \cup {Absent}]
      /\ db.row \in [Id -> Id] /\ db.deps \in [Id -> SUBSET Id]
      /\ db.titleMap \in [Title -> 0..MaxId]
      /\ \A i \in Ids(db) : i \in Id /\ i <= db.next
      /\ \A u \in Title : db.titleMap[u] # 0 => db.title[db.titleMap[u]] = u
  BY StoreFields
<1>3. \/ new = {} /\ Cardinality(new) = 0
      \/ new = {t} /\ Cardinality(new) = 1
  <2>1. new = {} \/ new = {t}
    BY DEF Unknown
  <2>2. Cardinality({}) = 0 /\ Cardinality({t}) = 1
    BY FS_EmptySet, FS_Singleton
  <2> QED BY <2>1, <2>2
<1>4. /\ e.next = db.next + Cardinality(new)
      /\ e.title = [i \in Id |-> IF \E u \in new : f[u] = i
                                 THEN CHOOSE u \in new : f[u] = i ELSE db.title[i]]
      /\ e.row = [i \in Id |-> IF \E u \in new : f[u] = i THEN i ELSE db.row[i]]
      /\ e.deps = db.deps
      /\ e.titleMap = [u \in Title |-> IF u \in {t} THEN f[u] ELSE db.titleMap[u]]
      /\ e = [next |-> e.next, title |-> e.title, row |-> e.row,
              deps |-> e.deps, titleMap |-> e.titleMap]
  BY <1>1 DEF EnsureIssues
<1> HIDE DEF e, new
<1>5. e.next \in 0..MaxId /\ db.next <= e.next
  <2>1. db.next + Cardinality(new) <= MaxId
    BY DEF new
  <2> QED BY <2>1, <1>2, <1>3, <1>4, StoreAssumption
<1>6. \A i \in Id : e.title[i] = IF new = {t} /\ i = f[t] THEN t ELSE db.title[i]
  <2> SUFFICES ASSUME NEW i \in Id
               PROVE  e.title[i] = IF new = {t} /\ i = f[t] THEN t ELSE db.title[i]
    OBVIOUS
  <2>1. CASE new = {t} /\ i = f[t]
    <3>1. \A u \in new : u = t
      BY <2>1
    <3>2. e.title[i] = CHOOSE u \in new : f[u] = i
      BY <2>1, <1>4
    <3> QED BY <2>1, <3>1, <3>2
  <2>2. CASE ~ (new = {t} /\ i = f[t])
    <3>1. ~ \E u \in new : f[u] = i
      BY <2>2, <1>3
    <3> QED BY <2>2, <3>1, <1>4
  <2> QED BY <2>1, <2>2
<1>7. e.title \in [Id -> Title \cup {Absent}]
  BY <1>2, <1>4, <1>6
<1>8. e \in Db
  <2>1. e.row \in [Id -> Id]
    BY <1>2, <1>4
  <2>2. e.titleMap \in [Title -> 0..MaxId]
    BY <1>1, <1>2, <1>4 DEF Id
  <2> QED BY <1>2, <1>4, <1>5, <1>7, <2>1, <2>2 DEF Db
<1>9. new = {t} => f[t] = db.next + 1 /\ e.next = db.next + 1
  <2> SUFFICES ASSUME new = {t} PROVE f[t] = db.next + 1 /\ e.next = db.next + 1
    OBVIOUS
  <2>1. Cardinality(new) = 1
    <3>1. new # {}
      OBVIOUS
    <3> QED BY <3>1, <1>3
  <2>2. f[t] \in (db.next + 1)..(db.next + 1)
    BY <2>1, <1>1
  <2> QED BY <2>1, <2>2, <1>2, <1>4
<1>10. Ids(e) \subseteq 1..e.next
  <2> SUFFICES ASSUME NEW i \in Ids(e) PROVE i \in 1..e.next
    OBVIOUS
  <2>1. i \in Id /\ i \in Nat /\ i >= 1
    BY DEF Ids, Id
  <2>2. CASE new = {t} /\ i = f[t]
    BY <2>1, <2>2, <1>9
  <2>3. CASE ~ (new = {t} /\ i = f[t])
    <3>1. i \in Ids(db)
      BY <2>1, <2>3, <1>6 DEF Ids
    <3> QED BY <2>1, <3>1, <1>2, <1>5
  <2> QED BY <2>2, <2>3
<1>11. \A u \in Title : e.titleMap[u] # 0 => e.title[e.titleMap[u]] = u
  <2> SUFFICES ASSUME NEW u \in Title, e.titleMap[u] # 0 PROVE e.title[e.titleMap[u]] = u
    OBVIOUS
  <2>1. CASE u = t
    BY <2>1, <1>1, <1>3, <1>4, <1>6
  <2>2. CASE u # t
    <3>1. e.titleMap[u] = db.titleMap[u] /\ db.titleMap[u] \in Id
      BY <2>2, <1>2, <1>4 DEF Id
    <3>2. db.title[db.titleMap[u]] = u
      BY <3>1, <1>2
    <3>3. db.titleMap[u] \in Ids(db)
      BY <3>1, <3>2, StoreAssumption DEF Ids
    <3>4. ~ (new = {t} /\ db.titleMap[u] = f[t])
      <4>1. db.titleMap[u] \in Nat /\ db.next \in Nat /\ db.titleMap[u] <= db.next
        BY <3>1, <3>3, <1>2 DEF Id
      <4> QED BY <4>1, <1>9
    <3> QED BY <3>1, <3>2, <3>4, <1>6
  <2> QED BY <2>1, <2>2
<1>12. e.title[f[t]] = t
  BY <1>1, <1>3, <1>6
<1>13. ASSUME NEW u \in Title, NEW i \in Bearing(db, u) PROVE e.title[i] = u
  <2>1. i \in Id /\ db.title[i] = u /\ i \in Ids(db)
    BY StoreAssumption DEF Bearing, Ids
  <2>2. i \in Nat /\ db.next \in Nat /\ i <= db.next
    BY <2>1, <1>2 DEF Id
  <2>3. ~ (new = {t} /\ i = f[t])
    BY <2>2, <1>9
  <2> QED BY <2>1, <2>3, <1>6
<1>14. /\ Bearing(e, t) # {}
       /\ \A u \in Title : Bearing(db, u) # {} => Bearing(e, u) # {}
  BY <1>1, <1>12, <1>13 DEF Bearing
<1>15. e \in Stores
  BY <1>8, <1>10, <1>11 DEF Stores, Numbered
<1> QED BY <1>14, <1>15 DEF e

(* A merge keeps the greater NextID, adds issues under numbers they had in *)
(* the imported store, and makes a new title map.                          *)
LEMMA MergedStore ==
  ASSUME NEW e \in Stores, NEW x \in Stores
  PROVE  Merge(e, x) \in Stores
<1> DEFINE added == {i \in Ids(x) \ Ids(e) : Bearing(e, x.title[i]) = {}}
           updated == {i \in Ids(e) : Bearing(x, e.title[i]) # {}}
           r == Merge(e, x)
<1>1. /\ e.next \in 0..MaxId /\ e.title \in [Id -> Title \cup {Absent}]
      /\ e.row \in [Id -> Id] /\ e.deps \in [Id -> SUBSET Id]
      /\ \A i \in Ids(e) : i \in Id /\ i <= e.next
  BY StoreFields
<1>2. /\ x.next \in 0..MaxId /\ x.title \in [Id -> Title \cup {Absent}]
      /\ x.row \in [Id -> Id] /\ x.deps \in [Id -> SUBSET Id]
      /\ \A i \in Ids(x) : i \in Id /\ i <= x.next
  BY StoreFields
<1>3. /\ r.next = IF x.next > e.next THEN x.next ELSE e.next
      /\ r.title = [i \in Id |-> IF i \in added THEN x.title[i] ELSE e.title[i]]
      /\ r.row = [i \in Id |-> IF i \in added THEN x.row[i]
                               ELSE IF i \in updated
                               THEN x.row[CHOOSE j \in Bearing(x, e.title[i]) : TRUE]
                               ELSE e.row[i]]
      /\ r.deps = [i \in Id |-> IF x.deps[i] # {} THEN x.deps[i] ELSE e.deps[i]]
      /\ r.titleMap = [t \in Title |-> IF \E i \in Id : r.title[i] = t
                                       THEN CHOOSE i \in Id : r.title[i] = t ELSE 0]
      /\ r = [next |-> r.next, title |-> r.title, row |-> r.row,
              deps |-> r.deps, titleMap |-> r.titleMap]
  BY DEF Merge
<1> HIDE DEF added, updated, r
<1>4. r.next \in 0..MaxId /\ e.next <= r.next /\ x.next <= r.next
  BY <1>1, <1>2, <1>3, StoreAssumption
<1>5. r.title \in [Id -> Title \cup {Absent}]
  BY <1>1, <1>2, <1>3
<1>6. r.row \in [Id -> Id]
  <2>1. \A i \in updated : (CHOOSE j \in Bearing(x, e.title[i]) : TRUE) \in Id
    BY DEF Bearing, updated
  <2> SUFFICES ASSUME NEW i \in Id PROVE r.row[i] \in Id
    BY <1>3
  <2>2. CASE i \in added
    BY <2>2, <1>2, <1>3
  <2>3. CASE i \notin added /\ i \in updated
    BY <2>1, <2>3, <1>2, <1>3
  <2>4. CASE i \notin added /\ i \notin updated
    BY <2>4, <1>1, <1>3
  <2> QED BY <2>2, <2>3, <2>4
<1>7. r.deps \in [Id -> SUBSET Id]
  BY <1>1, <1>2, <1>3
<1>8. \A t \in Title : \/ r.titleMap[t] \in Id /\ r.title[r.titleMap[t]] = t
                       \/ r.titleMap[t] = 0
  <2> SUFFICES ASSUME NEW t \in Title
               PROVE  \/ r.titleMap[t] \in Id /\ r.title[r.titleMap[t]] = t
                      \/ r.titleMap[t] = 0
    OBVIOUS
  <2>1. CASE \E i \in Id : r.title[i] = t
    <3>1. r.titleMap[t] = CHOOSE i \in Id : r.title[i] = t
      BY <2>1, <1>3
    <3> QED BY <2>1, <3>1
  <2>2. CASE ~ \E i \in Id : r.title[i] = t
    BY <2>2, <1>3
  <2> QED BY <2>1, <2>2
<1>9. r.titleMap \in [Title -> 0..MaxId]
  <2>1. Id \subseteq 0..MaxId /\ 0 \in 0..MaxId
    BY StoreAssumption DEF Id
  <2> QED BY <2>1, <1>3, <1>8
<1>10. r \in Db
  BY <1>3, <1>4, <1>5, <1>6, <1>7, <1>9 DEF Db
<1>11. Ids(r) \subseteq Ids(e) \cup Ids(x)
  BY <1>3 DEF Ids, added
<1>12. Ids(r) \subseteq 1..r.next
  <2> SUFFICES ASSUME NEW i \in Ids(r) PROVE i \in 1..r.next
    OBVIOUS
  <2>1. i \in Id /\ (i <= e.next \/ i <= x.next)
    BY <1>1, <1>2, <1>11
  <2>2. i \in Nat /\ i >= 1
    BY <2>1, StoreAssumption DEF Id
  <2>3. e.next \in Nat /\ x.next \in Nat /\ r.next \in Nat
    BY <1>1, <1>2, <1>4
  <2> QED BY <2>1, <2>2, <2>3, <1>4
<1>13. \A t \in Title : r.titleMap[t] # 0 => r.title[r.titleMap[t]] = t
  BY <1>8
<1> QED BY <1>10, <1>12, <1>13 DEF Stores, Numbered, r

LEMMA RepairedStore ==
  ASSUME NEW db \in Stores PROVE Repaired(db) \in Stores
<1>1. db \in Db /\ Numbered(db)
  BY DEF Stores
<1>2. Repaired(db) \in Db
  BY <1>1 DEF Repaired, Db
<1>3. /\ Repaired(db).title = db.title /\ Repaired(db).next = db.next
      /\ Repaired(db).titleMap = db.titleMap
  BY <1>1 DEF Repaired, Db
<1>4. QED BY <1>1, <1>2, <1>3 DEF Stores, Numbered, Ids

LEMMA ParsedStore == ASSUME NEW c \in Stores \cup {None, Torn} PROVE Parsed(c) \in Stores
BY GivenStores DEF Parsed
-----------------------------------------------------------------------------
(* What a step may do to the files: no directory loses its store, and only *)
(* a repository's root gets a first one.                                   *)
Grows ==
  \A d \in Dir : /\ HasStore(d) => HasStore(d)'
                 /\ HasStore(d)' => HasStore(d) \/ IsRoot(d)

LEMMA SameFiles == ASSUME UNCHANGED file PROVE Grows
BY DEF Grows, HasStore

LEMMA Put ==
  ASSUME Inv, NEW f \in Path, HasStore(f[1]) \/ IsRoot(f[1]), NEW c \in Stores \cup {Torn},
         file' = [file EXCEPT ![f] = c]
  PROVE  FileTypes' /\ Grows
<1>1. FileTypes'
  BY DEF Inv, FileTypes
<1>2. c # None
  BY Names
<1>3. \A g \in Path : file'[g] = IF g = f THEN c ELSE file[g]
  BY DEF Inv, FileTypes
<1>4. ASSUME NEW d \in Dir
      PROVE  /\ HasStore(d) => HasStore(d)'
             /\ HasStore(d)' => HasStore(d) \/ IsRoot(d)
  <2>1. \A k \in {"legacy", "current"} : <<d, k>> \in Path
    BY Names
  <2>2. HasStore(d) => HasStore(d)'
    BY <2>1, <1>2, <1>3 DEF HasStore
  <2>3. HasStore(d)' => HasStore(d) \/ d = f[1]
    BY <2>1, <1>3 DEF HasStore
  <2> QED BY <2>2, <2>3
<1> QED BY <1>1, <1>4 DEF Grows

(* Each path is still the path of the same directory, or none.             *)
LEMMA StillAtHome ==
  ASSUME Inv, Grows, path' \in [Proc -> Path \cup {Gone}],
         \A q \in Proc : \/ path'[q] = Gone
                         \/ \E r \in Proc : path[r] # Gone /\ path'[q][1] = path[r][1]
  PROVE  WritesAtHome'
<1> SUFFICES ASSUME NEW q \in Proc, path'[q] # Gone
             PROVE  HasStore(path[q][1])' \/ IsRoot(path'[q][1])
  BY DEF WritesAtHome, IsRoot
<1>1. PICK r \in Proc : path[r] # Gone /\ path'[q][1] = path[r][1]
  OBVIOUS
<1>2. HasStore(path[r][1]) \/ IsRoot(path[r][1])
  BY <1>1 DEF Inv, WritesAtHome
<1>3. path[r] \in Path /\ path[r][1] \in Dir
  BY <1>1, Names DEF Inv, SlotTypes
<1> QED BY <1>1, <1>2, <1>3 DEF Grows, HasStore

LEMMA GotoSlots ==
  ASSUME SlotTypes, NEW p \in Proc, NEW s \in Step, Goto(p, s), UNCHANGED cmd,
         pc[p] # "idle", path[p] # Gone, s \in AddSteps => pc[p] \in AddSteps,
         mem' \in [Proc -> Stores], path' \in [Proc -> Path \cup {Gone}],
         \A q \in Proc : path'[q] = Gone => q # p /\ pc[q] \in {"idle", "write"}
  PROVE  SlotTypes'
<1>1. pc' \in [Proc -> Step] /\ \A q \in Proc : pc'[q] = IF q = p THEN s ELSE pc[q]
  BY DEF SlotTypes, Goto
<1>2. \A q \in Proc : pc'[q] # "idle" => CommandFits(q)'
  BY <1>1 DEF SlotTypes, CommandFits
<1> QED BY <1>1, <1>2 DEF SlotTypes

LEMMA ExitSlots ==
  ASSUME SlotTypes, NEW p \in Proc, NEW paths \in [Proc -> Path \cup {Gone}], Exit(p, paths),
         \A q \in Proc : paths[q] = Gone => q = p \/ pc[q] \in {"idle", "write"}
  PROVE  SlotTypes'
<1>1. /\ pc' = [pc EXCEPT ![p] = "idle"] /\ cmd' = [cmd EXCEPT ![p] = None]
      /\ path' = [paths EXCEPT ![p] = Gone] /\ mem' = [mem EXCEPT ![p] = EmptyDb]
  BY DEF Exit, Goto
<1>2. pc' \in [Proc -> Step] /\ path' \in [Proc -> Path \cup {Gone}] /\ mem' \in [Proc -> Stores]
  BY <1>1, GivenStores DEF SlotTypes, Step
<1>3. DOMAIN cmd' = Proc /\ cmd' = [q \in Proc |-> cmd'[q]]
  BY <1>1 DEF SlotTypes
<1>4. \A q \in Proc : pc'[q] # "idle" => CommandFits(q)'
  <2> SUFFICES ASSUME NEW q \in Proc, pc'[q] # "idle" PROVE CommandFits(q)'
    OBVIOUS
  <2>1. q # p /\ pc'[q] = pc[q] /\ cmd'[q] = cmd[q]
    BY <1>1 DEF SlotTypes
  <2> QED BY <2>1 DEF SlotTypes, CommandFits
<1>5. \A q \in Proc : path'[q] = Gone => pc'[q] \in {"idle", "write"}
  BY <1>1 DEF SlotTypes
<1> QED BY <1>2, <1>3, <1>4, <1>5 DEF SlotTypes

\* The paths after a rename: of the same directories.
LEMMA RenamedPaths ==
  ASSUME Inv, NEW p \in Proc, path[p] # Gone, NEW a, NEW b \in Path, b[1] = path[p][1]
  PROVE  /\ Renamed(a, b) \in [Proc -> Path \cup {Gone}]
         /\ \A q \in Proc : Renamed(a, b)[q] = Gone => pc[q] \in {"idle", "write"}
         /\ \A q \in Proc : \/ Renamed(a, b)[q] = Gone
                            \/ \E r \in Proc : path[r] # Gone /\ Renamed(a, b)[q][1] = path[r][1]
<1>1. \A q \in Proc : Renamed(a, b)[q] = IF pc[q] # "write" \/ path[q] = Gone THEN path[q]
                                         ELSE IF path[q] = a THEN b
                                         ELSE IF path[q] = b THEN Gone ELSE path[q]
  BY DEF Renamed
<1>2. path \in [Proc -> Path \cup {Gone}] /\ \A q \in Proc : path[q] = Gone => pc[q] \in {"idle", "write"}
  BY DEF Inv, SlotTypes
<1>3. Renamed(a, b) \in [Proc -> Path \cup {Gone}]
  BY <1>2 DEF Renamed
<1>4. \A q \in Proc : Renamed(a, b)[q] = Gone => pc[q] \in {"idle", "write"}
  BY <1>1, <1>2, Names
<1>5. \A q \in Proc : \/ Renamed(a, b)[q] = Gone
                      \/ \E r \in Proc : path[r] # Gone /\ Renamed(a, b)[q][1] = path[r][1]
  <2> SUFFICES ASSUME NEW q \in Proc, Renamed(a, b)[q] # Gone
               PROVE  \E r \in Proc : path[r] # Gone /\ Renamed(a, b)[q][1] = path[r][1]
    OBVIOUS
  <2>1. Renamed(a, b)[q] = b \/ Renamed(a, b)[q] = path[q]
    BY <1>1
  <2> QED BY <2>1
<1> QED BY <1>3, <1>4, <1>5
-----------------------------------------------------------------------------
\* The search ends in a directory with a store, or at the root.
LEMMA DiscoveredHome ==
  ASSUME NEW w \in Cwd
  PROVE  /\ Discovered(w) \in Path
         /\ HasStore(Discovered(w)[1]) \/ IsRoot(Discovered(w)[1])
<1> DEFINE n == Len(Search[w])
<1>1. /\ Search[w] \in Seq(Dir) /\ n \in Nat /\ n # 0 /\ DOMAIN Search[w] = 1..n
      /\ \A k \in 1..n : Search[w][k] \in Dir
  BY StoreFilesAssumption
<1>2. CASE \E k \in DOMAIN Search[w] : IsHome(w, k)
  <2> DEFINE k == CHOOSE k \in DOMAIN Search[w] : IsHome(w, k)
  <2>1. k \in 1..n /\ IsHome(w, k)
    BY <1>1, <1>2
  <2>2. HasStore(Search[w][k]) /\ Search[w][k] \in Dir
    BY <2>1, <1>1 DEF IsHome
  <2>3. Discovered(w) = StoreIn(Search[w][k])
    BY <1>2 DEF Discovered
  <2> HIDE DEF k
  <2>4. StoreIn(Search[w][k])[1] = Search[w][k] /\ StoreIn(Search[w][k]) \in Path
    BY <2>2, Names DEF StoreIn
  <2> QED BY <2>2, <2>3, <2>4
<1>3. CASE ~ \E k \in DOMAIN Search[w] : IsHome(w, k)
  <2>1. Discovered(w) = Default(w)
    BY <1>3 DEF Discovered
  <2>2. Search[w][n] \in Dir
    BY <1>1
  <2>3. Default(w) \in Path /\ Default(w)[1] = Search[w][n]
    BY <2>2, Names DEF Default
  <2> QED BY <2>1, <2>3 DEF IsRoot
<1> QED BY <1>2, <1>3

LEMMA BeginInv ==
  ASSUME Inv, NEW p \in Proc, NEW c \in Command, NEW s \in Step, Begin(p, c, s),
         s \in AddSteps => c.kind = "add", s \notin {"move", "write"},
         c.kind = "import" => c.source \in Stores
  PROVE  Inv' /\ Grows
<1>1. /\ pc[p] = "idle" /\ pc' = [pc EXCEPT ![p] = s] /\ cmd' = [cmd EXCEPT ![p] = c]
      /\ path' = [path EXCEPT ![p] = Discovered(c.cwd)]
      /\ told' = (IF overlapped' THEN {} ELSE told) /\ started' = started + 1
      /\ overlapped' = (overlapped \/ \E q \in Proc : pc[q] # "idle")
      /\ UNCHANGED <<file, copies, now, mem, hurried>>
  BY DEF Begin
<1>2. c.cwd \in Cwd
  BY DEF Command
<1>3. /\ Discovered(c.cwd) \in Path
      /\ HasStore(Discovered(c.cwd)[1]) \/ IsRoot(Discovered(c.cwd)[1])
  BY <1>2, DiscoveredHome
<1>4. FileTypes' /\ CopyTypes' /\ Grows
  BY <1>1, SameFiles DEF Inv, FileTypes, CopyTypes
<1>5. AuxTypes'
  BY <1>1 DEF Inv, AuxTypes
<1>6. SlotTypes'
  <2>1. pc' \in [Proc -> Step] /\ path' \in [Proc -> Path \cup {Gone}] /\ mem' \in [Proc -> Stores]
    BY <1>1, <1>3 DEF Inv, SlotTypes
  <2>2. DOMAIN cmd' = Proc /\ cmd' = [q \in Proc |-> cmd'[q]]
    BY <1>1 DEF Inv, SlotTypes
  <2>3. \A q \in Proc : pc'[q] # "idle" => CommandFits(q)'
    <3> SUFFICES ASSUME NEW q \in Proc, pc'[q] # "idle" PROVE CommandFits(q)'
      OBVIOUS
    <3>1. CASE q = p
      BY <3>1, <1>1 DEF Inv, SlotTypes, CommandFits
    <3>2. CASE q # p
      BY <3>2, <1>1 DEF Inv, SlotTypes, CommandFits
    <3> QED BY <3>1, <3>2
  <2>4. \A q \in Proc : path'[q] = Gone => pc'[q] \in {"idle", "write"}
    BY <1>1, <1>3, Names DEF Inv, SlotTypes
  <2> QED BY <2>1, <2>2, <2>3, <2>4 DEF SlotTypes
<1>7. WritesAtHome'
  <2> SUFFICES ASSUME NEW q \in Proc, path'[q] # Gone
               PROVE  HasStore(path[q][1])' \/ IsRoot(path'[q][1])
    BY DEF WritesAtHome, IsRoot
  <2>1. path'[q] = IF q = p THEN Discovered(c.cwd) ELSE path[q]
    BY <1>1 DEF Inv, SlotTypes
  <2>2. HasStore(path'[q][1]) \/ IsRoot(path'[q][1])
    BY <2>1, <1>3 DEF Inv, WritesAtHome
  <2> QED BY <2>2, <1>1 DEF HasStore
<1>8. MovesLegacy'
  BY <1>1 DEF Inv, SlotTypes, MovesLegacy
<1> QED BY <1>4, <1>5, <1>6, <1>7, <1>8 DEF Inv

LEMMA StartInv == ASSUME Inv, NEW p \in Proc, Start(p) PROVE Inv' /\ Grows
<1>1. PICK w \in Cwd :
        \/ \E t \in Title : BeginAdd(p, w, t)
        \/ \E m \in {"merge", "replace"}, b \in BOOLEAN, x \in Importable : BeginImport(p, w, m, b, x)
        \/ BeginDoctor(p, w)
  BY DEF Start
<1>2. ASSUME NEW t \in Title, BeginAdd(p, w, t) PROVE Inv' /\ Grows
  <2> DEFINE c == [kind |-> "add", cwd |-> w, title |-> t]
  <2>1. c \in Command /\ c.kind = "add"
    BY DEF Command
  <2>2. Begin(p, c, "migrate")
    BY <1>2 DEF BeginAdd
  <2> HIDE DEF c
  <2> QED BY <2>1, <2>2, BeginInv DEF Step
<1>3. ASSUME NEW m \in {"merge", "replace"}, NEW b \in BOOLEAN, NEW x \in Importable,
             BeginImport(p, w, m, b, x)
      PROVE  Inv' /\ Grows
  <2> DEFINE c == [kind |-> "import", cwd |-> w, mode |-> m, backup |-> b, source |-> x]
  <2>1. x \in Stores
    BY GivenStores DEF Importable, Inv, CopyTypes
  <2>2. c \in Command /\ c.kind = "import" /\ c.source = x
    BY <2>1 DEF Command, Stores
  <2>3. Begin(p, c, IF b THEN "backup" ELSE "read")
    BY <1>3 DEF BeginImport
  <2> HIDE DEF c
  <2>4. CASE b
    BY <2>1, <2>2, <2>3, <2>4, BeginInv DEF Step, AddSteps
  <2>5. CASE ~ b
    BY <2>1, <2>2, <2>3, <2>5, BeginInv DEF Step, AddSteps
  <2> QED BY <2>4, <2>5
<1>4. ASSUME BeginDoctor(p, w) PROVE Inv' /\ Grows
  <2> DEFINE c == [kind |-> "doctor", cwd |-> w]
  <2>1. c \in Command /\ c.kind = "doctor"
    BY DEF Command
  <2>2. Begin(p, c, "examine")
    BY <1>4 DEF BeginDoctor
  <2> HIDE DEF c
  <2> QED BY <2>1, <2>2, BeginInv DEF Step, AddSteps
<1> QED BY <1>1, <1>2, <1>3, <1>4
-----------------------------------------------------------------------------
(* The steps of a command: where it writes, and what its slot becomes.     *)

LEMMA BusyPath ==
  ASSUME Inv, NEW p \in Proc, pc[p] \notin {"idle", "write"}
  PROVE  /\ path[p] \in Path /\ path[p] # Gone /\ CommandFits(p)
         /\ HasStore(path[p][1]) \/ IsRoot(path[p][1])
         /\ file[path[p]] \in Stores \cup {None, Torn}
         /\ Target(p) \in Path /\ Target(p)[1] = path[p][1]
<1>1. path[p] \in Path /\ path[p] # Gone /\ CommandFits(p)
  BY DEF Inv, SlotTypes
<1>2. Target(p) \in Path /\ Target(p)[1] = path[p][1]
  BY <1>1, Names DEF Target
<1> QED BY <1>1, <1>2 DEF Inv, WritesAtHome, FileTypes

LEMMA GoInv ==
  ASSUME Inv, NEW p \in Proc, NEW s \in Step, Goto(p, s), pc[p] \notin {"idle", "write"},
         s \in AddSteps => pc[p] \in AddSteps, s # "move", mem' \in [Proc -> Stores],
         UNCHANGED <<cmd, path>>, FileTypes', Grows, CopyTypes', AuxTypes'
  PROVE  Inv'
<1>1. SlotTypes'
  <2>1. path' \in [Proc -> Path \cup {Gone}] /\ path[p] # Gone
    BY BusyPath DEF Inv, SlotTypes
  <2>2. \A q \in Proc : path'[q] = Gone => q # p /\ pc[q] \in {"idle", "write"}
    BY <2>1 DEF Inv, SlotTypes
  <2> QED BY <2>1, <2>2, GotoSlots DEF Inv
<1>2. WritesAtHome'
  <2>1. path' \in [Proc -> Path \cup {Gone}]
    BY DEF Inv, SlotTypes
  <2> QED BY <2>1, StillAtHome
<1>3. MovesLegacy'
  BY DEF Goto, Inv, SlotTypes, MovesLegacy
<1> QED BY <1>1, <1>2, <1>3 DEF Inv

LEMMA ExitInv ==
  ASSUME Inv, NEW p \in Proc, Exit(p, path), FileTypes', Grows, CopyTypes', AuxTypes'
  PROVE  Inv'
<1>1. path \in [Proc -> Path \cup {Gone}]
      /\ \A q \in Proc : path[q] = Gone => q = p \/ pc[q] \in {"idle", "write"}
  BY DEF Inv, SlotTypes
<1>2. SlotTypes'
  BY <1>1, ExitSlots DEF Inv
<1>3. path' = [path EXCEPT ![p] = Gone]
  BY DEF Exit
<1>4. WritesAtHome'
  <2>1. path' \in [Proc -> Path \cup {Gone}]
    BY <1>1, <1>3
  <2>2. \A q \in Proc : path'[q] = Gone \/ (path[q] # Gone /\ path'[q] = path[q])
    <3>1. \A q \in Proc : path'[q] = IF q = p THEN Gone ELSE path[q]
      BY <1>1, <1>3
    <3> QED BY <3>1
  <2>3. \A q \in Proc : \/ path'[q] = Gone
                         \/ \E r \in Proc : path[r] # Gone /\ path'[q][1] = path[r][1]
    BY <2>2
  <2> QED BY <2>1, <2>3, StillAtHome
<1>5. MovesLegacy'
  BY <1>1, <1>3 DEF Exit, Goto, Inv, SlotTypes, MovesLegacy
<1> QED BY <1>2, <1>4, <1>5 DEF Inv

LEMMA AuxStays ==
  ASSUME Inv, UNCHANGED <<now, aux>> PROVE AuxTypes'
BY DEF Inv, AuxTypes, aux

LEMMA FilesStay ==
  ASSUME Inv, UNCHANGED file PROVE FileTypes' /\ Grows
BY SameFiles DEF Inv, FileTypes

LEMMA CopiesStay ==
  ASSUME Inv, UNCHANGED copies PROVE CopyTypes'
BY DEF Inv, CopyTypes

LEMMA QuitInv ==
  ASSUME Inv, NEW p \in Proc, Quit(p) \/ NothingToRepair(p) PROVE Inv' /\ Grows
<1>1. Exit(p, path) /\ UNCHANGED <<file, copies, now, aux>>
  BY DEF Quit, NothingToRepair
<1> QED BY <1>1, ExitInv, AuxStays, FilesStay, CopiesStay

\* Steps that only look, and those that read the store.
LEMMA LookInv ==
  ASSUME Inv, NEW p \in Proc, MissStore(p) \/ NothingToBackup(p) PROVE Inv' /\ Grows
<1>1. UNCHANGED <<file, copies, now, cmd, path, mem, aux>>
  BY DEF MissStore, NothingToBackup
<1>2. mem' \in [Proc -> Stores]
  BY <1>1 DEF Inv, SlotTypes
<1>3. CASE MissStore(p)
  BY <1>1, <1>2, <1>3, GoInv, AuxStays, FilesStay, CopiesStay DEF MissStore, Step, AddSteps
<1>4. CASE NothingToBackup(p)
  BY <1>1, <1>2, <1>4, GoInv, AuxStays, FilesStay, CopiesStay DEF NothingToBackup, Step, AddSteps
<1> QED BY <1>3, <1>4

LEMMA ReadInv ==
  ASSUME Inv, NEW p \in Proc,
         Load(p) \/ Examine(p) \/ ReadForImport(p) \/ ReadForRepair(p)
  PROVE  Inv' /\ Grows
<1>1. pc[p] \notin {"idle", "write"} /\ UNCHANGED <<file, copies, now, cmd, path, aux>>
  BY DEF Load, Examine, ReadForImport, ReadForRepair
<1>2. CommandFits(p) /\ file[path[p]] \in Stores \cup {None, Torn} /\ mem \in [Proc -> Stores]
  BY <1>1, BusyPath DEF Inv, SlotTypes
<1>3. Parsed(file[path[p]]) \in Stores
  BY <1>2, ParsedStore
<1>4. CASE Load(p)
  <2>1. mem' \in [Proc -> Stores]
    BY <1>2, <1>3, <1>4 DEF Load
  <2> QED BY <2>1, <1>1, <1>4, GoInv, AuxStays, FilesStay, CopiesStay DEF Load, Step, AddSteps
<1>5. CASE Examine(p)
  <2>1. mem' \in [Proc -> Stores]
    BY <1>2, <1>3, <1>5 DEF Examine
  <2> QED BY <2>1, <1>1, <1>5, GoInv, AuxStays, FilesStay, CopiesStay DEF Examine, Step, AddSteps
<1>6. CASE ReadForImport(p)
  <2>1. cmd[p].source \in Stores
    BY <1>2, <1>6 DEF CommandFits, ReadForImport
  <2>2. Merge(Parsed(file[path[p]]), cmd[p].source) \in Stores
    BY <2>1, <1>3, MergedStore
  <2>3. mem' \in [Proc -> Stores]
    <3>1. mem' = [mem EXCEPT ![p] = IF cmd[p].mode = "replace" THEN cmd[p].source
                                   ELSE Merge(Parsed(file[path[p]]), cmd[p].source)]
      BY <1>6 DEF ReadForImport
    <3> QED BY <3>1, <2>1, <2>2, <1>2
  <2> QED BY <2>3, <1>1, <1>6, GoInv, AuxStays, FilesStay, CopiesStay DEF ReadForImport, Step, AddSteps
<1>7. CASE ReadForRepair(p)
  <2>1. Repaired(file[path[p]]) \in Stores
    BY <1>2, <1>7, RepairedStore DEF ReadForRepair, HasRepair
  <2>2. mem' \in [Proc -> Stores]
    BY <2>1, <1>2, <1>7 DEF ReadForRepair
  <2> QED BY <2>2, <1>1, <1>7, GoInv, AuxStays, FilesStay, CopiesStay DEF ReadForRepair, Step, AddSteps
<1> QED BY <1>4, <1>5, <1>6, <1>7

\* The two ways to arrive at another path: look for the new file, move the old.
LEMMA MigrateInv ==
  ASSUME Inv, NEW p \in Proc, LookForStore(p) \/ MoveStore(p) PROVE Inv' /\ Grows
<1>1. /\ pc[p] \notin {"idle", "write"} /\ pc[p] \in AddSteps
      /\ UNCHANGED <<copies, now, cmd, mem, aux>>
  BY DEF LookForStore, MoveStore, AddSteps
<1>2. /\ path[p] \in Path /\ path[p] # Gone /\ Target(p) \in Path /\ Target(p)[1] = path[p][1]
      /\ file[path[p]] \in Stores \cup {None, Torn}
  BY <1>1, BusyPath
<1>3. mem' \in [Proc -> Stores] /\ path \in [Proc -> Path \cup {Gone}]
  BY <1>1 DEF Inv, SlotTypes
<1>4. CopyTypes' /\ AuxTypes'
  BY <1>1, AuxStays, CopiesStay
<1>5. CASE LookForStore(p)
  <2>1. path' = path \/ path' = [path EXCEPT ![p] = Target(p)]
    <3>1. CASE UNCHANGED path
      BY <3>1
    <3>2. CASE path' = [path EXCEPT ![p] = IF file[Target(p)] # None THEN Target(p) ELSE @]
      <4>1. CASE file[Target(p)] # None
        BY <3>2, <4>1
      <4>2. CASE file[Target(p)] = None
        <5>1. path' = [path EXCEPT ![p] = path[p]]
          BY <3>2, <4>2
        <5> QED BY <5>1, <1>3
      <4> QED BY <4>1, <4>2
    <3> QED BY <3>1, <3>2, <1>5 DEF LookForStore
  <2>2. /\ path' \in [Proc -> Path \cup {Gone}]
        /\ \A q \in Proc : path'[q] = Gone => q # p /\ pc[q] \in {"idle", "write"}
        /\ \A q \in Proc : path'[q] = Gone \/ (path[q] # Gone /\ path'[q][1] = path[q][1])
    BY <2>1, <1>2, <1>3, Names DEF Inv, SlotTypes
  <2>3. FileTypes' /\ Grows
    BY <1>5, FilesStay DEF LookForStore
  <2>4. Goto(p, "load") \/ (Goto(p, "move") /\ path' = path /\ path[p][2] = "legacy")
    BY <1>5 DEF LookForStore
  <2>5. SlotTypes'
    BY <2>2, <2>4, <1>1, <1>2, <1>3, GotoSlots DEF Inv, Step, AddSteps
  <2>6. WritesAtHome'
    <3>1. \A q \in Proc : \/ path'[q] = Gone
                          \/ \E r \in Proc : path[r] # Gone /\ path'[q][1] = path[r][1]
      BY <2>2
    <3> QED BY <3>1, <2>2, <2>3, StillAtHome
  <2>7. MovesLegacy'
    BY <2>1, <2>4, <1>3 DEF Goto, Inv, SlotTypes, MovesLegacy
  <2> QED BY <2>3, <2>5, <2>6, <2>7, <1>4 DEF Inv
<1>6. CASE MoveStore(p)
  <2> DEFINE t == Target(p)
             r == Renamed(path[p], t)
  <2>1. /\ pc[p] = "move" /\ file[path[p]] # None /\ Goto(p, "load")
        /\ file' = [file EXCEPT ![t] = file[path[p]], ![path[p]] = None]
        /\ path' = [r EXCEPT ![p] = t]
    BY <1>6 DEF MoveStore
  <2>2. /\ r \in [Proc -> Path \cup {Gone}]
        /\ \A q \in Proc : r[q] = Gone => pc[q] \in {"idle", "write"}
        /\ \A q \in Proc : r[q] = Gone \/ \E s \in Proc : path[s] # Gone /\ r[q][1] = path[s][1]
        /\ \A q \in Proc : pc[q] # "write" => r[q] = path[q]
    <3>1. \A q \in Proc : pc[q] # "write" => r[q] = path[q]
      BY DEF Renamed
    <3>2. t \in Path /\ t[1] = path[p][1]
      BY <1>2
    <3> HIDE DEF t
    <3> QED BY <3>1, <3>2, <1>2, RenamedPaths
  <2>3. t \in Path /\ t[1] = path[p][1] /\ t # Gone /\ t # path[p]
    BY <1>2, <2>1, Names DEF Target, Inv, MovesLegacy
  <2> HIDE DEF r, t
  <2>4. FileTypes'
    BY <2>1, <2>3, <1>2 DEF Inv, FileTypes
  <2>5. \A g \in Path : file'[g] = IF g = path[p] THEN None
                                   ELSE IF g = t THEN file[path[p]] ELSE file[g]
    BY <2>1, <2>3, <1>2 DEF Inv, FileTypes
  <2>6. Grows
    <3> SUFFICES ASSUME NEW d \in Dir PROVE HasStore(d)' <=> HasStore(d)
      BY DEF Grows
    <3>1. \A k \in {"legacy", "current"} : <<d, k>> \in Path
      BY Names
    <3>2. CASE d = path[p][1]
      <4>1. path[p] = <<d, path[p][2]>> /\ t = <<d, t[2]>>
        BY <3>2, <2>3, <1>2, Names
      <4>2. path[p][2] \in {"legacy", "current"} /\ t[2] \in {"legacy", "current"}
        BY <2>3, <1>2, Names
      <4>3. HasStore(d)
        BY <4>1, <4>2, <2>1 DEF HasStore
      <4>4. file'[t] # None
        BY <2>1, <2>3, <2>5
      <4>5. HasStore(d)'
        BY <4>1, <4>2, <4>4 DEF HasStore
      <4> QED BY <4>3, <4>5
    <3>3. CASE d # path[p][1]
      <4>1. \A k \in {"legacy", "current"} : file'[<<d, k>>] = file[<<d, k>>]
        BY <3>1, <3>3, <2>3, <2>5
      <4> QED BY <4>1 DEF HasStore
    <3> QED BY <3>2, <3>3
  <2>7. /\ path' \in [Proc -> Path \cup {Gone}]
        /\ \A q \in Proc : path'[q] = IF q = p THEN t ELSE r[q]
    BY <2>1, <2>2, <2>3
  <2>8. SlotTypes'
    BY <2>1, <2>2, <2>3, <2>7, <1>1, <1>2, <1>3, GotoSlots DEF Inv, Step, AddSteps
  <2>9. WritesAtHome'
    <3>1. \A q \in Proc : \/ path'[q] = Gone
                          \/ \E s \in Proc : path[s] # Gone /\ path'[q][1] = path[s][1]
      BY <2>2, <2>3, <2>7, <1>2
    <3> QED BY <3>1, <2>6, <2>7, StillAtHome
  <2>10. MovesLegacy'
    BY <2>1, <2>2, <2>7 DEF Goto, Inv, SlotTypes, MovesLegacy
  <2> QED BY <2>4, <2>6, <2>8, <2>9, <2>10, <1>4 DEF Inv
<1> QED BY <1>5, <1>6

\* An added title goes to the file that is open, under its name again.
LEMMA SaveAddInv == ASSUME Inv, NEW p \in Proc, SaveAdd(p) PROVE Inv' /\ Grows
<1> DEFINE t == cmd[p].title
           paths == Renamed(Gone, path[p])
<1>1. /\ pc[p] = "save" /\ Exit(p, paths) /\ UNCHANGED <<copies, now, overlapped, hurried, started>>
      /\ mem[p].next + Cardinality(Unknown(mem[p], {t})) <= MaxId
      /\ told' = IF overlapped THEN told ELSE told \cup {[cwd |-> cmd[p].cwd, title |-> t]}
  BY DEF SaveAdd
<1>2. PICK f \in Numberings(mem[p], {t}) : file' = [file EXCEPT ![path[p]] = EnsureIssues(mem[p], f)]
  BY DEF SaveAdd
<1>3. /\ path[p] \in Path /\ path[p] # Gone /\ CommandFits(p)
      /\ HasStore(path[p][1]) \/ IsRoot(path[p][1])
  BY <1>1, BusyPath
<1>4. t \in Title /\ cmd[p].cwd \in Cwd
  BY <1>1, <1>3 DEF CommandFits, AddSteps, Command
<1>5. mem[p] \in Stores
  BY DEF Inv, SlotTypes
<1>6. EnsureIssues(mem[p], f) \in Stores
  BY <1>1, <1>4, <1>5, AddedStore
<1>7. FileTypes' /\ Grows
  BY <1>2, <1>3, <1>6, Put
<1>8. CopyTypes' /\ AuxTypes'
  BY <1>1, <1>4 DEF Inv, CopyTypes, AuxTypes
<1>9. /\ paths \in [Proc -> Path \cup {Gone}]
      /\ \A q \in Proc : paths[q] = Gone => pc[q] \in {"idle", "write"}
      /\ \A q \in Proc : \/ paths[q] = Gone
                         \/ \E r \in Proc : path[r] # Gone /\ paths[q][1] = path[r][1]
  BY <1>3, RenamedPaths
<1> HIDE DEF t, paths
<1>10. SlotTypes'
  BY <1>1, <1>9, ExitSlots DEF Inv
<1>11. /\ path' \in [Proc -> Path \cup {Gone}]
       /\ \A q \in Proc : path'[q] = IF q = p THEN Gone ELSE paths[q]
  BY <1>1, <1>9 DEF Exit
<1>12. WritesAtHome'
  <2>1. \A q \in Proc : \/ path'[q] = Gone
                        \/ \E r \in Proc : path[r] # Gone /\ path'[q][1] = path[r][1]
    BY <1>9, <1>11
  <2> QED BY <2>1, <1>7, <1>11, StillAtHome
<1>13. MovesLegacy'
  <2>1. \A q \in Proc : pc'[q] = "move" => q # p /\ pc[q] = "move"
    BY <1>1 DEF Exit, Goto, Inv, SlotTypes
  <2>2. \A q \in Proc : pc[q] # "write" => paths[q] = path[q]
    BY DEF Renamed, paths
  <2> QED BY <2>1, <2>2, <1>11 DEF Inv, MovesLegacy
<1> QED BY <1>7, <1>8, <1>10, <1>12, <1>13 DEF Inv

\* A copy is of a store, or of a torn file.
LEMMA KeptCopies ==
  ASSUME Inv, NEW f \in Path, file[f] # None, NEW kind \in {"backup", "snap"}, Keep(f, kind),
         UNCHANGED now
  PROVE  CopyTypes' /\ hurried' \in BOOLEAN
<1>1. file[f] \in Stores \cup {Torn} /\ now \in 0..MaxSecond
  BY DEF Inv, FileTypes, AuxTypes
<1> DEFINE new == [path |-> f, kind |-> kind, second |-> now, db |-> file[f]]
<1>2. new \in [path : Path, kind : {"backup", "snap"}, second : 0..MaxSecond, db : Stores \cup {Torn}]
  BY <1>1
<1>3. copies' \subseteq copies \cup {new}
  BY DEF Keep
<1>4. hurried' \in BOOLEAN
  BY DEF Keep, Inv, AuxTypes
<1> HIDE DEF new
<1> QED BY <1>2, <1>3, <1>4 DEF Inv, CopyTypes

LEMMA BackupInv == ASSUME Inv, NEW p \in Proc, Backup(p) PROVE Inv' /\ Grows
<1>1. /\ pc[p] = "backup" /\ file[path[p]] # None /\ Keep(path[p], "backup") /\ Goto(p, "read")
      /\ UNCHANGED <<file, now, cmd, path, mem, told, overlapped, started>>
  BY DEF Backup
<1>2. path[p] \in Path
  BY <1>1, BusyPath
<1>3. CopyTypes' /\ hurried' \in BOOLEAN
  BY <1>1, <1>2, KeptCopies
<1>4. AuxTypes'
  BY <1>1, <1>3 DEF Inv, AuxTypes
<1>5. mem' \in [Proc -> Stores]
  BY <1>1 DEF Inv, SlotTypes
<1> QED BY <1>1, <1>3, <1>4, <1>5, GoInv, FilesStay DEF Step, AddSteps

LEMMA StillInv ==
  ASSUME Inv, UNCHANGED <<file, pc, cmd, path, mem>>, CopyTypes', AuxTypes'
  PROVE  Inv' /\ Grows
<1>1. FileTypes' /\ Grows
  BY FilesStay
<1>2. SlotTypes' /\ MovesLegacy'
  BY DEF Inv, SlotTypes, CommandFits, MovesLegacy
<1>3. WritesAtHome'
  BY DEF Inv, WritesAtHome, HasStore, IsRoot
<1> QED BY <1>1, <1>2, <1>3 DEF Inv

LEMMA SnapshotInv == ASSUME Inv, NEW w \in Cwd, Snapshot(w) PROVE Inv' /\ Grows
<1>1. /\ file[Discovered(w)] # None /\ Keep(Discovered(w), "snap") /\ started' = started + 1
      /\ UNCHANGED <<file, now, pc, cmd, path, mem, told, overlapped>>
  BY DEF Snapshot
<1>2. CopyTypes' /\ hurried' \in BOOLEAN
  BY <1>1, DiscoveredHome, KeptCopies
<1>3. AuxTypes'
  BY <1>1, <1>2 DEF Inv, AuxTypes
<1> QED BY <1>1, <1>2, <1>3, StillInv

LEMMA TickInv == ASSUME Inv, Tick PROVE Inv' /\ Grows
<1>1. now < MaxSecond /\ now' = now + 1 /\ UNCHANGED <<file, copies, pc, cmd, path, mem, aux>>
  BY DEF Tick
<1>2. CopyTypes'
  BY <1>1, CopiesStay
<1>3. AuxTypes'
  BY <1>1, StoreFilesAssumption DEF Inv, AuxTypes, aux
<1> QED BY <1>1, <1>2, <1>3, StillInv

LEMMA TruncateInv == ASSUME Inv, NEW p \in Proc, Truncate(p) PROVE Inv' /\ Grows
<1>1. /\ pc[p] = "truncate" /\ file' = [file EXCEPT ![path[p]] = Torn] /\ Goto(p, "write")
      /\ told' \subseteq told
      /\ UNCHANGED <<copies, now, cmd, path, mem, overlapped, hurried, started>>
  BY DEF Truncate
<1>2. FileTypes' /\ Grows
  <2>1. path[p] \in Path /\ (HasStore(path[p][1]) \/ IsRoot(path[p][1]))
    BY <1>1, BusyPath
  <2> QED BY <2>1, <1>1, Put
<1>3. CopyTypes' /\ AuxTypes'
  BY <1>1 DEF Inv, CopyTypes, AuxTypes
<1>4. mem' \in [Proc -> Stores]
  BY <1>1 DEF Inv, SlotTypes
<1> QED BY <1>1, <1>2, <1>3, <1>4, GoInv DEF Step, AddSteps

LEMMA WriteInv == ASSUME Inv, NEW p \in Proc, Write(p) PROVE Inv' /\ Grows
<1>1. /\ pc[p] = "write" /\ Exit(p, path) /\ UNCHANGED <<copies, now, overlapped, hurried, started>>
      /\ told' = IF cmd[p].kind = "import" THEN Told(p, mem[p]) ELSE told
  BY DEF Write
<1>2. CommandFits(p) /\ mem[p] \in Stores /\ path[p] \in Path \cup {Gone}
  BY <1>1 DEF Inv, SlotTypes
<1>3. FileTypes' /\ Grows
  <2>1. CASE path[p] = Gone
    BY <2>1, FilesStay DEF Write
  <2>2. CASE path[p] # Gone
    <3>1. PICK c \in {mem[p], Torn} : file' = [file EXCEPT ![path[p]] = c]
      BY <2>2 DEF Write
    <3>2. path[p] \in Path /\ (HasStore(path[p][1]) \/ IsRoot(path[p][1]))
      BY <2>2, <1>2 DEF Inv, WritesAtHome
    <3> QED BY <3>1, <3>2, <1>2, Put
  <2> QED BY <2>1, <2>2
<1>4. told' \subseteq [cwd : Cwd, title : Title]
  <2>1. cmd[p].cwd \in Cwd
    BY <1>2 DEF CommandFits, Command
  <2>2. told \subseteq [cwd : Cwd, title : Title]
    BY DEF Inv, AuxTypes
  <2>3. Told(p, mem[p]) \subseteq [cwd : Cwd, title : Title]
    BY <2>1, <2>2 DEF Told
  <2> QED BY <2>2, <2>3, <1>1
<1>5. CopyTypes' /\ AuxTypes'
  BY <1>1, <1>4 DEF Inv, CopyTypes, AuxTypes
<1> QED BY <1>1, <1>3, <1>5, ExitInv
-----------------------------------------------------------------------------
LEMMA StutterInv == ASSUME Inv, UNCHANGED vars PROVE Inv' /\ Grows
<1>1. UNCHANGED <<file, copies, now, pc, cmd, path, mem, aux>>
  BY DEF vars
<1> QED BY <1>1, StillInv, CopiesStay, AuxStays

LEMMA NextInv == Inv /\ [Next]_vars => Inv' /\ Grows
<1> SUFFICES ASSUME Inv, [Next]_vars PROVE Inv' /\ Grows
  OBVIOUS
<1>1. ASSUME NEW p \in Proc, Start(p) \/ Adds(p) \/ Overwrites(p) \/ Quit(p) PROVE Inv' /\ Grows
  <2>1. CASE Adds(p)
    BY <2>1, MigrateInv, LookInv, ReadInv, SaveAddInv DEF Adds
  <2>2. CASE Overwrites(p)
    BY <2>2, ReadInv, BackupInv, LookInv, QuitInv, TruncateInv, WriteInv DEF Overwrites
  <2> QED BY <1>1, <2>1, <2>2, StartInv, QuitInv
<1> QED BY <1>1, SnapshotInv, TickInv, StutterInv DEF Next

LEMMA InitInv == Init => Inv
<1> SUFFICES ASSUME Init PROVE Inv
  OBVIOUS
<1>1. FileTypes /\ CopyTypes
  BY GivenStores DEF Init, FileTypes, CopyTypes
<1>2. SlotTypes
  BY GivenStores DEF Init, SlotTypes, Step
<1>3. AuxTypes
  <2>1. MaxSecond \in Nat
    BY StoreFilesAssumption
  <2>2. now = 0 /\ told = {} /\ overlapped = FALSE /\ hurried = FALSE /\ started = 0
    BY DEF Init
  <2>3. now \in 0..MaxSecond /\ started \in Nat
    BY <2>1, <2>2
  <2>4. overlapped \in BOOLEAN /\ hurried \in BOOLEAN
    BY <2>2, Zenon
  <2>5. told \subseteq [cwd : Cwd, title : Title]
    BY <2>2
  <2> QED BY <2>3, <2>4, <2>5 DEF AuxTypes
<1>4. WritesAtHome /\ MovesLegacy
  BY DEF Init, WritesAtHome, MovesLegacy
<1> QED BY <1>1, <1>2, <1>3, <1>4 DEF Inv

LEMMA Invariance == Spec => []Inv
<1>1. Inv /\ [Next]_vars => Inv'
  BY NextInv
<1> QED BY <1>1, InitInv, PTL DEF Spec

(* The type invariant of StoreFiles: every file, copy and process slot     *)
(* holds what client.go, export.go and doctor.go can put there.            *)
THEOREM TypeCorrect == Spec => []TypeOK
<1>1. Inv => TypeOK
  <2> SUFFICES ASSUME Inv PROVE TypeOK
    OBVIOUS
  <2>1. Stores \subseteq Db
    BY DEF Stores
  <2>2. file \in [Path -> Content \cup {None}]
    BY <2>1 DEF Inv, FileTypes, Content
  <2>3. copies \subseteq Copy
    <3> SUFFICES ASSUME NEW c \in copies PROVE c \in Copy
      OBVIOUS
    <3>1. c \in [path : Path, kind : {"backup", "snap"}, second : 0..MaxSecond, db : Stores \cup {Torn}]
      BY DEF Inv, CopyTypes
    <3> QED BY <3>1, <2>1 DEF Copy, Content
  <2>4. /\ pc \in [Proc -> Step] /\ DOMAIN cmd = Proc /\ path \in [Proc -> Path \cup {Gone}]
        /\ \A p \in Proc : pc[p] # "idle" => cmd[p] \in Command
        /\ \A p \in Proc : path[p] = Gone => pc[p] \in {"idle", "write"}
    BY DEF Inv, SlotTypes, CommandFits
  <2>5. mem \in [Proc -> Db]
    BY <2>1 DEF Inv, SlotTypes
  <2> QED BY <2>2, <2>3, <2>4, <2>5 DEF Inv, AuxTypes, TypeOK
<1> QED BY <1>1, Invariance, PTL

(* Merges, restores, repairs, kills and races leave no store, in a file,   *)
(* in a copy or in memory, in which a number was given twice or the title  *)
(* map points at another title.                                            *)
THEOREM StoresStaySensible == Spec => []StoresMakeSense
<1>1. Inv => StoresMakeSense
  <2> SUFFICES ASSUME Inv PROVE StoresMakeSense
    OBVIOUS
  <2>1. \A s \in Stores : Numbered(s)
    BY DEF Stores
  <2>2. \A f \in Path : file[f] \notin {None, Torn} => Numbered(file[f])
    BY <2>1 DEF Inv, FileTypes
  <2>3. \A p \in Proc : Numbered(mem[p])
    BY <2>1 DEF Inv, SlotTypes
  <2>4. \A c \in copies : c.db # Torn => Numbered(c.db)
    BY <2>1 DEF Inv, CopyTypes
  <2> QED BY <2>2, <2>3, <2>4 DEF StoresMakeSense
<1> QED BY <1>1, Invariance, PTL

(* The search of client.go keeps its answer: a first store appears only at *)
(* a root, where a search ends, and no store disappears.                   *)
LEMMA GrowthKeepsTheSearch ==
  ASSUME Grows, NEW w \in Cwd, NEW k \in DOMAIN Search[w], IsHome(w, k)
  PROVE  IsHome(w, k)'
<1>1. /\ Search[w] \in Seq(Dir) /\ Len(Search[w]) \in Nat /\ k \in 1..Len(Search[w])
      /\ \A j \in 1..Len(Search[w]) : Search[w][j] \in Dir
  BY StoreFilesAssumption
<1>2. HasStore(Search[w][k])'
  <2>1. HasStore(Search[w][k]) /\ Search[w][k] \in Dir
    BY <1>1 DEF IsHome
  <2> QED BY <2>1 DEF Grows, HasStore
<1>3. ASSUME NEW j \in 1..(k - 1) PROVE ~ HasStore(Search[w][j])'
  <2>1. j \in 1..(Len(Search[w]) - 1) /\ j \in 1..Len(Search[w])
    BY <1>1
  <2>2. ~ IsRoot(Search[w][j])
    BY <2>1, StoreFilesAssumption DEF IsRoot
  <2>3. ~ HasStore(Search[w][j]) /\ Search[w][j] \in Dir
    BY <1>1, <2>1 DEF IsHome
  <2> QED BY <2>2, <2>3 DEF Grows, HasStore
<1> QED BY <1>2, <1>3 DEF IsHome, HasStore

(* Once a command run in w has found the store, every later command run    *)
(* there finds it in the same directory.                                   *)
THEOREM SearchStaysStable == Spec => SearchIsStable
<1>1. Inv /\ [Next]_vars =>
        [\A w \in Cwd : \A k \in DOMAIN Search[w] : IsHome(w, k) => IsHome(w, k)']_vars
  BY NextInv, GrowthKeepsTheSearch
<1> QED BY <1>1, Invariance, PTL DEF Spec, SearchIsStable
-----------------------------------------------------------------------------
(* Where a task reported as stored is found.  First the search: for a set  *)
(* H of directories with a store it leads from w to HomeDir(H, w), and     *)
(* which file is opened there depends on that directory alone.             *)
LEMMA LeastNumber ==
  ASSUME NEW T, T \subseteq Nat, T # {}
  PROVE  \E x \in T : \A y \in T : x <= y
<1> DEFINE R == {ss \in Nat \X Nat : ss[1] < ss[2]}
<1>1. IsWellFoundedOn(R, Nat)
  BY NatLessThanWellFounded DEF OpToRel
<1>2. PICK x \in T : \A y \in T : <<y, x>> \notin R
  <2> HIDE DEF R
  <2> QED BY <1>1, WFMin
<1>3. ASSUME NEW y \in T PROVE x <= y
  <2>1. /\ x \in Nat /\ y \in Nat /\ <<y, x>> \in Nat \X Nat
        /\ <<y, x>>[1] = y /\ <<y, x>>[2] = x
    OBVIOUS
  <2>2. ~ y < x
    BY <1>2, <2>1
  <2> QED BY <2>1, <2>2
<1> QED BY <1>3

First(H, w, k) ==
  /\ k \in DOMAIN Search[w] /\ Search[w][k] \in H
  /\ \A j \in 1..(k - 1) : Search[w][j] \notin H

Last(w) == Search[w][Len(Search[w])]

Has(fl, d) == \E k \in {"legacy", "current"} : fl[<<d, k>>] # None

Stocked(fl) == {d \in Dir : Has(fl, d)}

\* The file that is opened in d: the legacy one only if it is the only one.
Spot(fl, d) ==
  IF fl[<<d, "current">>] = None /\ fl[<<d, "legacy">>] # None
  THEN <<d, "legacy">> ELSE <<d, "current">>

LEMMA SearchShape ==
  ASSUME NEW w \in Cwd
  PROVE  /\ Len(Search[w]) \in Nat /\ Len(Search[w]) # 0
         /\ DOMAIN Search[w] = 1..Len(Search[w])
         /\ \A k \in 1..Len(Search[w]) : Search[w][k] \in Dir
         /\ Last(w) \in Dir
<1>1. Search[w] \in Seq(Dir) /\ Search[w] # <<>>
  BY StoreFilesAssumption
<1>2. /\ Len(Search[w]) \in Nat /\ Len(Search[w]) # 0
      /\ DOMAIN Search[w] = 1..Len(Search[w])
      /\ \A k \in 1..Len(Search[w]) : Search[w][k] \in Dir
  BY <1>1
<1> QED BY <1>2 DEF Last

LEMMA FirstIsOne ==
  ASSUME NEW w \in Cwd, NEW H, NEW k, NEW l, First(H, w, k), First(H, w, l)
  PROVE  k = l
<1>1. k \in Nat /\ l \in Nat /\ k >= 1 /\ l >= 1
  BY SearchShape DEF First
<1>2. ~ k < l /\ ~ l < k
  BY <1>1 DEF First
<1> QED BY <1>1, <1>2

LEMMA FirstExists ==
  ASSUME NEW w \in Cwd, NEW H, NEW j \in DOMAIN Search[w], Search[w][j] \in H
  PROVE  \E k : First(H, w, k)
<1> DEFINE T == {k \in DOMAIN Search[w] : Search[w][k] \in H}
<1>1. T \subseteq Nat /\ T # {}
  BY SearchShape
<1>2. PICK k \in T : \A l \in T : k <= l
  BY <1>1, LeastNumber
<1>3. ASSUME NEW i \in 1..(k - 1), Search[w][i] \in H PROVE FALSE
  <2>1. k \in 1..Len(Search[w]) /\ Len(Search[w]) \in Nat
    BY SearchShape
  <2>2. i \in T /\ i \in Nat /\ k \in Nat /\ i < k
    BY <1>3, <2>1, SearchShape
  <2> QED BY <1>2, <2>2
<1> QED BY <1>3 DEF First

\* The search of a directory that has nothing on its way ends at the root.
Leads(H, w, d) ==
  \/ \E k : First(H, w, k) /\ d = Search[w][k]
  \/ (\A j \in DOMAIN Search[w] : Search[w][j] \notin H) /\ d = Last(w)

LEMMA LeadsSomewhere ==
  ASSUME NEW w \in Cwd, NEW H
  PROVE  /\ \E d \in Dir : Leads(H, w, d)
         /\ \A c, d : Leads(H, w, c) /\ Leads(H, w, d) => c = d
<1>1. \E d \in Dir : Leads(H, w, d)
  <2>1. CASE \E k : First(H, w, k)
    BY <2>1, SearchShape DEF First, Leads
  <2>2. CASE ~ \E k : First(H, w, k)
    BY <2>2, FirstExists, SearchShape DEF Leads
  <2> QED BY <2>1, <2>2
<1>2. ASSUME NEW c, NEW d, Leads(H, w, c), Leads(H, w, d) PROVE c = d
  <2>1. CASE \A j \in DOMAIN Search[w] : Search[w][j] \notin H
    BY <1>2, <2>1 DEF Leads, First
  <2>2. CASE ~ \A j \in DOMAIN Search[w] : Search[w][j] \notin H
    <3>1. PICK k, l : First(H, w, k) /\ c = Search[w][k] /\ First(H, w, l) /\ d = Search[w][l]
      BY <1>2, <2>2 DEF Leads
    <3> QED BY <3>1, FirstIsOne
  <2> QED BY <2>1, <2>2
<1> QED BY <1>1, <1>2

\* A first store at a root does not lead anybody elsewhere.
LEMMA LeadsTheSameWay ==
  ASSUME NEW w \in Cwd, NEW H, NEW G, H \subseteq G, \A d \in G \ H : IsRoot(d),
         NEW d, Leads(H, w, d)
  PROVE  Leads(G, w, d)
<1>1. ASSUME NEW j \in 1..(Len(Search[w]) - 1), Search[w][j] \in G PROVE Search[w][j] \in H
  <2>1. ~ IsRoot(Search[w][j])
    BY <1>1, StoreFilesAssumption DEF IsRoot
  <2> QED BY <1>1, <2>1
<1>2. CASE \E k : First(H, w, k) /\ d = Search[w][k]
  <2>1. PICK k : First(H, w, k) /\ d = Search[w][k]
    BY <1>2
  <2>2. k \in 1..Len(Search[w]) /\ Len(Search[w]) \in Nat
    BY <2>1, SearchShape DEF First
  <2>3. ASSUME NEW j \in 1..(k - 1) PROVE Search[w][j] \notin G
    <3>1. j \in 1..(Len(Search[w]) - 1)
      BY <2>2
    <3> QED BY <1>1, <2>1, <3>1 DEF First
  <2>4. First(G, w, k)
    BY <2>1, <2>3 DEF First
  <2> QED BY <2>1, <2>4 DEF Leads
<1>3. CASE (\A j \in DOMAIN Search[w] : Search[w][j] \notin H) /\ d = Last(w)
  <2>1. ASSUME NEW j \in 1..(Len(Search[w]) - 1) PROVE Search[w][j] \notin G
    <3>1. j \in DOMAIN Search[w]
      BY SearchShape
    <3> QED BY <1>1, <1>3, <3>1
  <2>2. CASE Last(w) \in G
    <3>1. First(G, w, Len(Search[w]))
      BY <2>1, <2>2, SearchShape DEF First, Last
    <3> QED BY <1>3, <3>1 DEF Leads, Last
  <2>3. CASE Last(w) \notin G
    <3>1. ASSUME NEW j \in DOMAIN Search[w] PROVE Search[w][j] \notin G
      <4>1. j = Len(Search[w]) \/ j \in 1..(Len(Search[w]) - 1)
        BY SearchShape
      <4> QED BY <2>1, <2>3, <4>1 DEF Last
    <3> QED BY <1>3, <3>1 DEF Leads
  <2> QED BY <2>2, <2>3
<1> QED BY <1>2, <1>3 DEF Leads

\* DiscoveredStorePath, for any state of the files.
HomeIn(fl, w, k) ==
  /\ k \in DOMAIN Search[w] /\ Has(fl, Search[w][k])
  /\ \A j \in 1..(k - 1) : ~ Has(fl, Search[w][j])

InDir(fl, d) == IF fl[<<d, "current">>] # None THEN <<d, "current">> ELSE <<d, "legacy">>

DiscoveredIn(fl, w) ==
  IF \E k \in DOMAIN Search[w] : HomeIn(fl, w, k)
  THEN InDir(fl, Search[w][CHOOSE k \in DOMAIN Search[w] : HomeIn(fl, w, k)])
  ELSE Default(w)

LEMMA SearchNowAndNext ==
  ASSUME NEW w
  PROVE  Discovered(w) = DiscoveredIn(file, w) /\ Discovered(w)' = DiscoveredIn(file', w)
BY DEF Discovered, DiscoveredIn, IsHome, HomeIn, HasStore, Has, StoreIn, InDir, Default

LEMMA DiscoveredSpot ==
  ASSUME NEW fl, NEW w \in Cwd, NEW d \in Dir, Leads(Stocked(fl), w, d)
  PROVE  DiscoveredIn(fl, w) = Spot(fl, d)
<1>1. \A k : HomeIn(fl, w, k) <=> First(Stocked(fl), w, k)
  <2>1. \A e \in Dir : Has(fl, e) <=> e \in Stocked(fl)
    BY DEF Stocked
  <2>2. \A j \in DOMAIN Search[w] : Search[w][j] \in Dir
    BY SearchShape
  <2>3. \A k \in DOMAIN Search[w] : \A j \in 1..(k - 1) : j \in DOMAIN Search[w]
    BY SearchShape
  <2> QED BY <2>1, <2>2, <2>3 DEF HomeIn, First
<1>2. CASE \E k \in DOMAIN Search[w] : HomeIn(fl, w, k)
  <2> DEFINE k == CHOOSE k \in DOMAIN Search[w] : HomeIn(fl, w, k)
  <2>1. k \in DOMAIN Search[w] /\ HomeIn(fl, w, k)
    BY <1>2
  <2>2. DiscoveredIn(fl, w) = InDir(fl, Search[w][k])
    BY <1>2 DEF DiscoveredIn
  <2> HIDE DEF k
  <2>3. Search[w][k] \in Dir /\ Has(fl, Search[w][k])
    BY <2>1, SearchShape DEF HomeIn
  <2>4. Leads(Stocked(fl), w, Search[w][k])
    BY <1>1, <2>1 DEF Leads
  <2>5. Search[w][k] = d
    BY <2>4, LeadsSomewhere
  <2>6. InDir(fl, d) = Spot(fl, d)
    BY <2>3, <2>5 DEF InDir, Spot, Has
  <2> QED BY <2>2, <2>5, <2>6
<1>3. CASE ~ \E k \in DOMAIN Search[w] : HomeIn(fl, w, k)
  <2>1. ~ \E k : First(Stocked(fl), w, k)
    BY <1>1, <1>3 DEF First
  <2>2. d = Last(w) /\ Last(w) \notin Stocked(fl)
    BY <2>1, SearchShape DEF Leads, Last
  <2>3. DiscoveredIn(fl, w) = <<d, "current">>
    BY <1>3, <2>2 DEF DiscoveredIn, Default, Last
  <2> QED BY <2>2, <2>3 DEF Spot, Stocked, Has
<1> QED BY <1>2, <1>3

\* Every directory keeps the place its search leads to.
LEMMA PlaceStays ==
  ASSUME Grows, NEW w \in Cwd
  PROVE  \E d \in Dir : Discovered(w) = Spot(file, d) /\ Discovered(w)' = Spot(file', d)
<1>1. PICK d \in Dir : Leads(Stocked(file), w, d)
  BY LeadsSomewhere
<1>2. Stocked(file) \subseteq Stocked(file')
  BY DEF Grows, HasStore, Stocked, Has
<1>3. \A e \in Stocked(file') \ Stocked(file) : IsRoot(e)
  BY DEF Grows, HasStore, Stocked, Has
<1>4. Leads(Stocked(file'), w, d)
  BY <1>1, <1>2, <1>3, LeadsTheSameWay
<1>5. DiscoveredIn(file, w) = Spot(file, d) /\ DiscoveredIn(file', w) = Spot(file', d)
  BY <1>1, <1>4, DiscoveredSpot
<1> QED BY <1>5, SearchNowAndNext

\* What is written where a search leads leaves all searches where they were.
LEMMA WrittenInPlace ==
  ASSUME FileTypes, NEW e \in Dir, NEW c, c # None, file' = [file EXCEPT ![Spot(file, e)] = c]
  PROVE  /\ \A d \in Dir : Spot(file', d) = Spot(file, d)
         /\ \A d \in Dir : file'[Spot(file, d)] = IF d = e THEN c ELSE file[Spot(file, d)]
<1>1. \A d \in Dir, k \in {"legacy", "current"} : <<d, k>> \in Path
  BY Names
<1>2. Spot(file, e) \in Path
  BY <1>1 DEF Spot
<1>3. \A g \in Path : file'[g] = IF g = Spot(file, e) THEN c ELSE file[g]
  BY <1>2 DEF FileTypes
<1>4. ASSUME NEW d \in Dir PROVE Spot(file', d) = Spot(file, d)
  BY <1>1, <1>3 DEF Spot
<1>5. \A d \in Dir : Spot(file, d) \in Path /\ Spot(file, d)[1] = d
  BY <1>1 DEF Spot
<1>6. ASSUME NEW d \in Dir PROVE file'[Spot(file, d)] = IF d = e THEN c ELSE file[Spot(file, d)]
  <2>1. Spot(file, d) = Spot(file, e) <=> d = e
    BY <1>5
  <2>2. Spot(file, d) \in Path
    BY <1>5
  <2> HIDE DEF Spot
  <2> QED BY <1>3, <2>1, <2>2
<1> QED BY <1>4, <1>6
-----------------------------------------------------------------------------
(* As long as commands do not overlap and no copy replaces another, the    *)
(* one process there is works where its search leads (Fits), what it will  *)
(* overwrite is in a copy before it does (Copied), and whatever was        *)
(* reported as stored is in the store or in a copy beside it (IsFound).    *)
Shows(c, t) == c \notin {None, Torn} /\ Bearing(c, t) # {}

InCopy(d, t) == \E c \in copies : c.path[1] = d /\ Shows(c.db, t)

IsFound(w, t) == Shows(file[Discovered(w)], t) \/ InCopy(Discovered(w)[1], t)

Copied(p) ==
  \A x \in told : Discovered(x.cwd)[1] = path[p][1] => InCopy(path[p][1], x.title)

Fits(p) ==
  pc[p] # "idle" =>
    /\ path[p] = Discovered(cmd[p].cwd)
    /\ pc[p] = "save" => mem[p] = Parsed(file[path[p]])
    /\ pc[p] = "write" => file[path[p]] = Torn
    /\ pc[p] \in {"read", "truncate"} /\ (cmd[p].kind = "import" => cmd[p].backup) => Copied(p)

Orderly ==
  /\ \A p, q \in Proc : pc[p] # "idle" /\ pc[q] # "idle" => p = q
  /\ \A p \in Proc : Fits(p)
  /\ \A x \in told : IsFound(x.cwd, x.title)

FoundInv == Inv /\ (~ overlapped /\ ~ hurried => Orderly)

LEMMA SpotShape == ASSUME NEW fl, NEW d PROVE Spot(fl, d)[1] = d
BY DEF Spot

\* A task stays found if what showed it still does, or a copy has been made.
LEMMA StaysFound ==
  ASSUME Grows, copies \subseteq copies', NEW w \in Cwd, NEW t, IsFound(w, t),
         \A d \in Dir : d = Discovered(w)[1] /\ Shows(file[Spot(file, d)], t) =>
                         Shows(file'[Spot(file', d)], t) \/ InCopy(d, t)'
  PROVE  IsFound(w, t)'
<1>1. PICK d \in Dir : Discovered(w) = Spot(file, d) /\ Discovered(w)' = Spot(file', d)
  BY PlaceStays
<1>2. Discovered(w)[1] = d /\ Discovered(w)'[1] = d
  BY <1>1, SpotShape
<1>3. InCopy(d, t) => InCopy(d, t)'
  BY DEF InCopy, Shows, Bearing
<1>4. CASE Shows(file[Discovered(w)], t)
  <2>1. Shows(file'[Discovered(w)'], t) \/ InCopy(d, t)'
    BY <1>1, <1>2, <1>4
  <2>2. Shows(file[Discovered(w)], t)' <=> Shows(file'[Discovered(w)'], t)
    BY DEF Shows, Bearing
  <2>3. InCopy(Discovered(w)[1], t)' <=> InCopy(d, t)'
    BY <1>2 DEF InCopy
  <2> QED BY <2>1, <2>2, <2>3 DEF IsFound
<1>5. CASE InCopy(Discovered(w)[1], t)
  <2>1. InCopy(d, t)'
    BY <1>2, <1>3, <1>5
  <2>2. InCopy(Discovered(w)[1], t)' <=> InCopy(d, t)'
    BY <1>2 DEF InCopy
  <2> QED BY <2>1, <2>2 DEF IsFound
<1> QED BY <1>4, <1>5 DEF IsFound

\* Where a process works.
LEMMA PlaceOf ==
  ASSUME Inv, Grows, NEW p \in Proc, pc[p] # "idle", Fits(p)
  PROVE  \E e \in Dir, w \in Cwd : /\ w = cmd[p].cwd
                                   /\ path[p] = Spot(file, e) /\ path[p][1] = e
                                   /\ Discovered(w)' = Spot(file', e)
<1>1. PICK w \in Cwd : w = cmd[p].cwd
  BY DEF Inv, SlotTypes, CommandFits, Command
<1>2. PICK e \in Dir : Discovered(w) = Spot(file, e) /\ Discovered(w)' = Spot(file', e)
  BY PlaceStays
<1>3. path[p] = Spot(file, e)
  BY <1>1, <1>2 DEF Fits
<1>4. path[p][1] = e
  BY <1>3, SpotShape
<1> QED BY <1>1, <1>2, <1>3, <1>4

\* With one process, it is enough to look at that one.
LEMMA OneProcess ==
  ASSUME Orderly, NEW p \in Proc, pc[p] # "idle", \A q \in Proc \ {p} : pc'[q] = pc[q],
         Fits(p)', (\A x \in told : IsFound(x.cwd, x.title))'
  PROVE  Orderly'
<1>1. \A q \in Proc \ {p} : pc'[q] = "idle"
  BY DEF Orderly
<1>2. ASSUME NEW q \in Proc, q # p PROVE Fits(q)'
  BY <1>1, <1>2 DEF Fits
<1> QED BY <1>1, <1>2 DEF Orderly

\* A step that changes no file, no copy and no report.
LEMMA QuietStep ==
  ASSUME Orderly, NEW p \in Proc, pc[p] # "idle", \A q \in Proc \ {p} : pc'[q] = pc[q],
         Fits(p)', UNCHANGED <<file, copies, told>>
  PROVE  Orderly'
<1>1. \A w : Discovered(w)' = Discovered(w)
  BY DEF Discovered, IsHome, HasStore, StoreIn, Default
<1>2. \A w, t : IsFound(w, t) => IsFound(w, t)'
  BY <1>1 DEF IsFound, InCopy, Shows, Bearing
<1>3. (\A x \in told : IsFound(x.cwd, x.title))'
  BY <1>2 DEF Orderly
<1> QED BY <1>3, OneProcess

\* A process that goes on without writing.
LEMMA Onward ==
  ASSUME Inv, Orderly, NEW p \in Proc, pc[p] # "idle", NEW s \in Step \ {"idle", "write"}, Goto(p, s),
         path'[p] = path[p], UNCHANGED <<file, copies, told, cmd>>,
         s = "save" => mem'[p] = Parsed(file[path[p]]),
         s \in {"read", "truncate"} /\ (cmd[p].kind = "import" => cmd[p].backup) => Copied(p)
  PROVE  Orderly'
<1>1. pc'[p] = s /\ \A q \in Proc \ {p} : pc'[q] = pc[q]
  BY DEF Goto, Inv, SlotTypes
<1>2. \A w : Discovered(w)' = Discovered(w)
  BY DEF Discovered, IsHome, HasStore, StoreIn, Default
<1>3. Copied(p) => Copied(p)'
  BY <1>2 DEF Copied, InCopy, Shows, Bearing
<1>4. path[p] = Discovered(cmd[p].cwd)
  BY DEF Orderly, Fits
<1>5. path'[p] = Discovered(cmd[p].cwd)'
  <2>1. Discovered(cmd[p].cwd)' = Discovered(cmd[p].cwd)
    BY DEF Discovered, IsHome, HasStore, StoreIn, Default
  <2> QED BY <1>4, <2>1
<1>6. Fits(p)'
  BY <1>1, <1>3, <1>5 DEF Fits
<1> QED BY <1>1, <1>6, QuietStep

LEMMA OverOrderly ==
  ASSUME Inv, Orderly, NEW p \in Proc, Quit(p) \/ NothingToRepair(p)
  PROVE  Orderly'
<1>1. /\ pc[p] # "idle" /\ UNCHANGED <<file, copies, told>>
      /\ pc'[p] = "idle" /\ \A q \in Proc \ {p} : pc'[q] = pc[q]
  BY DEF Quit, NothingToRepair, Exit, Goto, Inv, SlotTypes, aux
<1>2. Fits(p)'
  BY <1>1 DEF Fits
<1> QED BY <1>1, <1>2, QuietStep

LEMMA LookOrderly ==
  ASSUME Inv, Orderly, NEW p \in Proc, LookForStore(p) \/ MissStore(p)
  PROVE  Orderly'
<1>1. CASE MissStore(p)
  BY <1>1, Onward DEF MissStore, Step, aux
<1>2. CASE LookForStore(p)
  <2>1. pc[p] = "migrate" /\ UNCHANGED <<file, copies, told, cmd>> /\ (Goto(p, "load") \/ Goto(p, "move"))
    BY <1>2 DEF LookForStore, aux
  <2>2. Fits(p) /\ Grows
    BY <2>1, SameFiles DEF Orderly
  <2>3. PICK e \in Dir : path[p] = Spot(file, e) /\ path[p][1] = e
    BY <2>1, <2>2, PlaceOf
  <2>4. file[Target(p)] # None => path[p] = Target(p)
    BY <2>3 DEF Target, Spot
  <2>5. path'[p] = path[p]
    BY <1>2, <2>4 DEF LookForStore, Inv, SlotTypes
  <2> QED BY <2>1, <2>5, Onward DEF Step
<1> QED BY <1>1, <1>2

LEMMA ReadOrderly ==
  ASSUME Inv, Orderly, NEW p \in Proc,
         Load(p) \/ Examine(p) \/ ReadForImport(p) \/ ReadForRepair(p)
  PROVE  Orderly'
<1>1. pc[p] # "idle" /\ UNCHANGED <<file, copies, told, cmd, path>> /\ Fits(p)
  BY DEF Load, Examine, ReadForImport, ReadForRepair, Orderly, aux
<1>2. CASE Load(p)
  <2>1. mem'[p] = Parsed(file[path[p]])
    BY <1>2 DEF Load, Inv, SlotTypes
  <2> QED BY <1>1, <1>2, <2>1, Onward DEF Load, Step
<1>3. CASE Examine(p)
  BY <1>1, <1>3, Onward DEF Examine, Step
<1>4. CASE ReadForImport(p) \/ ReadForRepair(p)
  <2>1. pc[p] = "read" /\ Goto(p, "truncate")
    BY <1>4 DEF ReadForImport, ReadForRepair
  <2>2. (cmd[p].kind = "import" => cmd[p].backup) => Copied(p)
    BY <1>1, <2>1 DEF Fits
  <2> QED BY <1>1, <2>1, <2>2, Onward DEF Step
<1> QED BY <1>2, <1>3, <1>4

\* Unless there is no store yet, what was reported is in the store.
LEMMA FoundHere ==
  ASSUME Inv, Orderly, NEW p \in Proc, pc[p] # "idle", NEW x \in told,
         Discovered(x.cwd)[1] = path[p][1]
  PROVE  Shows(file[path[p]], x.title) \/ InCopy(path[p][1], x.title)
<1>1. PICK w \in Cwd : w = x.cwd
  BY DEF Inv, AuxTypes
<1>2. PICK v \in Cwd : v = cmd[p].cwd
  BY DEF Inv, SlotTypes, CommandFits, Command
<1>3. PICK d \in Dir : Leads(Stocked(file), w, d)
  BY LeadsSomewhere
<1>4. PICK e \in Dir : Leads(Stocked(file), v, e)
  BY LeadsSomewhere
<1>5. Discovered(x.cwd) = Spot(file, d) /\ path[p] = Spot(file, e)
  BY <1>1, <1>2, <1>3, <1>4, DiscoveredSpot, SearchNowAndNext DEF Orderly, Fits
<1>6. d = e
  BY <1>5, SpotShape
<1>7. IsFound(x.cwd, x.title)
  BY DEF Orderly
<1> QED BY <1>5, <1>6, <1>7 DEF IsFound

LEMMA NothingToBackupOrderly ==
  ASSUME Inv, Orderly, NEW p \in Proc, NothingToBackup(p)
  PROVE  Orderly'
<1>1. /\ pc[p] # "idle" /\ file[path[p]] = None /\ Goto(p, "read")
      /\ UNCHANGED <<file, copies, told, cmd, path>>
  BY DEF NothingToBackup, aux
<1>2. Copied(p)
  BY <1>1, FoundHere DEF Copied, Shows
<1> QED BY <1>1, <1>2, Onward DEF Step

\* A copy that replaces no other one adds to what is found.
LEMMA CopiesGrow ==
  ASSUME NEW f, NEW kind, Keep(f, kind), ~ hurried'
  PROVE  /\ copies \subseteq copies'
         /\ \E c \in copies' : c.path = f /\ c.db = file[f]
<1> DEFINE new == [path |-> f, kind |-> kind, second |-> now, db |-> file[f]]
           old == {c \in copies : c.path = f /\ c.kind = kind /\ c.second = now}
<1>1. copies' = (copies \ old) \cup {new} /\ old \subseteq {new}
  BY DEF Keep
<1>2. new.path = f /\ new.db = file[f]
  OBVIOUS
<1> HIDE DEF new, old
<1> QED BY <1>1, <1>2

LEMMA BackupOrderly ==
  ASSUME Inv, Orderly, NEW p \in Proc, Backup(p), ~ hurried'
  PROVE  Orderly'
<1>1. /\ pc[p] = "backup" /\ file[path[p]] # None /\ Keep(path[p], "backup") /\ Goto(p, "read")
      /\ UNCHANGED <<file, now, cmd, path, mem, told, overlapped, started>>
  BY DEF Backup
<1>2. copies \subseteq copies' /\ \E c \in copies' : c.path = path[p] /\ c.db = file[path[p]]
  BY <1>1, CopiesGrow
<1>3. Grows /\ Fits(p)
  BY <1>1, SameFiles DEF Orderly
<1>4. \A w : Discovered(w)' = Discovered(w)
  BY <1>1 DEF Discovered, IsHome, HasStore, StoreIn, Default
<1>5. \A d, t : InCopy(d, t) => InCopy(d, t)'
  BY <1>2 DEF InCopy, Shows, Bearing
<1>6. (\A x \in told : IsFound(x.cwd, x.title))'
  <2>1. \A w, t : IsFound(w, t) => IsFound(w, t)'
    BY <1>1, <1>4, <1>5 DEF IsFound, Shows, Bearing
  <2> QED BY <1>1, <2>1 DEF Orderly
<1>7. Copied(p)'
  <2> SUFFICES ASSUME NEW x \in told, Discovered(x.cwd)[1] = path[p][1]
               PROVE  InCopy(path[p][1], x.title)'
    BY <1>1, <1>4 DEF Copied
  <2>1. Shows(file[path[p]], x.title) \/ InCopy(path[p][1], x.title)
    BY <1>1, FoundHere
  <2>2. CASE Shows(file[path[p]], x.title)
    BY <1>1, <1>2, <2>2 DEF InCopy, Shows, Bearing
  <2>3. CASE InCopy(path[p][1], x.title)
    BY <1>1, <1>2, <2>3 DEF InCopy, Shows, Bearing
  <2> QED BY <2>1, <2>2, <2>3
<1>8. pc'[p] = "read" /\ \A q \in Proc \ {p} : pc'[q] = pc[q]
  BY <1>1 DEF Goto, Inv, SlotTypes
<1>9. Fits(p)'
  <2>1. Discovered(cmd[p].cwd)' = Discovered(cmd[p].cwd)
    BY <1>1 DEF Discovered, IsHome, HasStore, StoreIn, Default
  <2>2. path'[p] = Discovered(cmd[p].cwd)'
    BY <1>1, <1>3, <2>1 DEF Fits
  <2> QED BY <1>7, <1>8, <2>2 DEF Fits
<1> QED BY <1>1, <1>6, <1>8, <1>9, OneProcess

\* A move takes the store with it, to where the search finds it.
LEMMA MoveOrderly ==
  ASSUME Inv, Orderly, Grows, NEW p \in Proc, MoveStore(p)
  PROVE  Orderly'
<1> DEFINE t == Target(p)
<1>1. /\ pc[p] = "move" /\ file[path[p]] # None /\ Goto(p, "load")
      /\ file' = [file EXCEPT ![t] = file[path[p]], ![path[p]] = None]
      /\ path' = [Renamed(path[p], t) EXCEPT ![p] = t]
      /\ UNCHANGED <<copies, now, cmd, mem, told>>
  BY DEF MoveStore, aux
<1>2. Fits(p)
  BY DEF Orderly
<1>3. PICK e \in Dir, w \in Cwd : /\ w = cmd[p].cwd /\ path[p] = Spot(file, e) /\ path[p][1] = e
                                  /\ Discovered(w)' = Spot(file', e)
  BY <1>1, <1>2, PlaceOf
<1>4. path[p] = <<e, "legacy">> /\ t = <<e, "current">> /\ path[p] \in Path /\ t \in Path /\ t # path[p]
  BY <1>1, <1>3, Names DEF Spot, Target, Inv, MovesLegacy
<1> HIDE DEF t
<1>5. \A g \in Path : file'[g] = IF g = path[p] THEN None
                                 ELSE IF g = t THEN file[path[p]] ELSE file[g]
  BY <1>1, <1>4 DEF Inv, FileTypes
<1>6. Spot(file', e) = t /\ file'[t] = file[path[p]]
  BY <1>1, <1>4, <1>5 DEF Spot
<1>7. ASSUME NEW d \in Dir, d # e PROVE file'[Spot(file', d)] = file[Spot(file, d)]
  <2>1. ASSUME NEW k \in {"legacy", "current"} PROVE file'[<<d, k>>] = file[<<d, k>>]
    <3>1. <<d, k>> \in Path
      BY Names
    <3>2. <<d, k>> # <<e, "legacy">> /\ <<d, k>> # <<e, "current">>
      BY <1>7
    <3> QED BY <1>4, <1>5, <3>1, <3>2
  <2> QED BY <2>1 DEF Spot
<1>8. \A d \in Dir : file'[Spot(file', d)] = file[Spot(file, d)]
  BY <1>3, <1>6, <1>7
<1>9. (\A x \in told : IsFound(x.cwd, x.title))'
  <2> SUFFICES ASSUME NEW x \in told PROVE IsFound(x.cwd, x.title)'
    BY <1>1
  <2>1. x.cwd \in Cwd /\ IsFound(x.cwd, x.title)
    BY DEF Inv, AuxTypes, Orderly
  <2> QED BY <1>1, <1>8, <2>1, StaysFound
<1>10. pc'[p] = "load" /\ \A q \in Proc \ {p} : pc'[q] = pc[q]
  BY <1>1 DEF Goto, Inv, SlotTypes
<1>11. path'[p] = t
  <2>1. Renamed(path[p], t) = [q \in Proc |-> Renamed(path[p], t)[q]]
    BY DEF Renamed
  <2> QED BY <1>1, <2>1
<1>12. Fits(p)'
  <2>1. Discovered(cmd[p].cwd)' = Discovered(w)'
    BY <1>1, <1>3
  <2> QED BY <1>3, <1>6, <1>10, <1>11, <2>1 DEF Fits
<1> QED BY <1>1, <1>9, <1>10, <1>12, OneProcess

\* A process that overwrites the store where it works.
LEMMA WriteHere ==
  ASSUME Inv, Orderly, Grows, NEW p \in Proc, pc[p] # "idle", NEW c, c # None,
         file' = [file EXCEPT ![path[p]] = c]
  PROVE  /\ file'[path[p]] = c
         /\ \A w \in Cwd : Discovered(w)' = Discovered(w)
         /\ \A w \in Cwd : \A t :
              (/\ copies \subseteq copies'
               /\ IsFound(w, t)
               /\ Discovered(w)[1] = path[p][1] =>
                    ((Shows(file[path[p]], t) => Shows(c, t)) \/ InCopy(path[p][1], t)))
              => IsFound(w, t)'
<1>1. Fits(p) /\ FileTypes
  BY DEF Orderly, Inv
<1>2. PICK e \in Dir : path[p] = Spot(file, e) /\ path[p][1] = e
  BY <1>1, PlaceOf
<1>3. /\ \A d \in Dir : Spot(file', d) = Spot(file, d)
      /\ \A d \in Dir : file'[Spot(file, d)] = IF d = e THEN c ELSE file[Spot(file, d)]
  BY <1>1, <1>2, WrittenInPlace
<1>4. ASSUME NEW w \in Cwd PROVE Discovered(w)' = Discovered(w)
  BY <1>3, PlaceStays
<1>5. ASSUME NEW w \in Cwd, NEW t, copies \subseteq copies', IsFound(w, t),
             Discovered(w)[1] = path[p][1] =>
               (Shows(file[path[p]], t) => Shows(c, t)) \/ InCopy(path[p][1], t)
      PROVE  IsFound(w, t)'
  <2> SUFFICES ASSUME NEW d \in Dir, d = Discovered(w)[1], Shows(file[Spot(file, d)], t)
               PROVE  Shows(file'[Spot(file', d)], t) \/ InCopy(d, t)'
    BY <1>5, StaysFound
  <2>1. InCopy(d, t) => InCopy(d, t)'
    BY <1>5 DEF InCopy, Shows, Bearing
  <2>2. CASE d = e
    BY <1>2, <1>3, <1>5, <2>1, <2>2
  <2>3. CASE d # e
    BY <1>3, <2>3
  <2> QED BY <2>2, <2>3
<1> QED BY <1>2, <1>3, <1>4, <1>5

LEMMA SaveAddOrderly ==
  ASSUME Inv, Orderly, Grows, NEW p \in Proc, SaveAdd(p), ~ overlapped
  PROVE  Orderly'
<1>1. PICK t \in Title, w \in Cwd : t = cmd[p].title /\ w = cmd[p].cwd
  BY BusyPath DEF SaveAdd, CommandFits, AddSteps, Command
<1>2. /\ pc[p] = "save" /\ Exit(p, Renamed(Gone, path[p])) /\ UNCHANGED copies
      /\ mem[p].next + Cardinality(Unknown(mem[p], {t})) <= MaxId
      /\ told' = told \cup {[cwd |-> w, title |-> t]}
  BY <1>1 DEF SaveAdd
<1>3. PICK f \in Numberings(mem[p], {t}) : file' = [file EXCEPT ![path[p]] = EnsureIssues(mem[p], f)]
  BY <1>1 DEF SaveAdd
<1>4. PICK c : c = EnsureIssues(mem[p], f)
  OBVIOUS
<1>5. /\ c \in Stores /\ Bearing(c, t) # {}
      /\ \A u \in Title : Bearing(mem[p], u) # {} => Bearing(c, u) # {}
  BY <1>2, <1>4, AddedStore DEF Inv, SlotTypes
<1>6. c \notin {None, Torn}
  BY <1>5, Names
<1>7. path[p] = Discovered(w) /\ mem[p] = Parsed(file[path[p]])
  BY <1>1, <1>2 DEF Orderly, Fits
<1>8. \A u \in Title : Shows(file[path[p]], u) => Shows(c, u)
  BY <1>5, <1>6, <1>7 DEF Shows, Parsed
<1>9. file' = [file EXCEPT ![path[p]] = c] /\ c # None
  BY <1>3, <1>4, <1>6
<1>10. ASSUME NEW x \in told PROVE IsFound(x.cwd, x.title)'
  <2>1. x.cwd \in Cwd /\ x.title \in Title /\ IsFound(x.cwd, x.title)
    BY DEF Inv, AuxTypes, Orderly
  <2> QED BY <1>2, <1>8, <1>9, <2>1, WriteHere
<1>11. IsFound(w, t)'
  <2>1. file'[path[p]] = c /\ Discovered(w)' = Discovered(w)
    BY <1>2, <1>9, WriteHere
  <2>2. Shows(c, t) /\ file'[Discovered(w)'] = c
    BY <1>5, <1>6, <1>7, <2>1 DEF Shows
  <2>3. Shows(file[Discovered(w)], t)' <=> Shows(file'[Discovered(w)'], t)
    BY DEF Shows, Bearing
  <2> QED BY <2>2, <2>3 DEF IsFound
<1>12. (\A x \in told : IsFound(x.cwd, x.title))'
  <2> SUFFICES ASSUME NEW x \in told' PROVE IsFound(x.cwd, x.title)'
    OBVIOUS
  <2>1. CASE x \in told
    BY <1>10, <2>1
  <2>2. CASE x \notin told
    <3>1. x.cwd = w /\ x.title = t
      BY <1>2, <2>2
    <3> QED BY <1>11, <3>1
  <2> QED BY <2>1, <2>2
<1>13. pc'[p] = "idle" /\ \A q \in Proc \ {p} : pc'[q] = pc[q]
  BY <1>2 DEF Exit, Goto, Inv, SlotTypes
<1>14. Fits(p)'
  BY <1>13 DEF Fits
<1> QED BY <1>2, <1>12, <1>13, <1>14, OneProcess

\* The file is torn only after it has been copied, or was given up.
LEMMA TruncateOrderly ==
  ASSUME Inv, Orderly, Grows, NEW p \in Proc, Truncate(p)
  PROVE  Orderly'
<1>1. /\ pc[p] = "truncate" /\ file' = [file EXCEPT ![path[p]] = Torn] /\ Goto(p, "write")
      /\ told' = IF cmd[p].kind = "import" /\ ~ cmd[p].backup THEN {} ELSE told
      /\ UNCHANGED <<copies, cmd, path>>
  BY DEF Truncate
<1>2. Torn # None
  BY Names
<1>3. /\ file'[path[p]] = Torn
      /\ \A w \in Cwd : Discovered(w)' = Discovered(w)
  BY <1>1, <1>2, WriteHere
<1>4. ASSUME NEW x \in told' PROVE IsFound(x.cwd, x.title)'
  <2>1. x \in told /\ (cmd[p].kind = "import" => cmd[p].backup)
    BY <1>1, <1>4
  <2>2. Copied(p)
    BY <1>1, <2>1 DEF Orderly, Fits
  <2>3. x.cwd \in Cwd /\ IsFound(x.cwd, x.title)
    BY <2>1 DEF Inv, AuxTypes, Orderly
  <2>4. Discovered(x.cwd)[1] = path[p][1] => InCopy(path[p][1], x.title)
    BY <2>1, <2>2 DEF Copied
  <2> QED BY <1>1, <1>2, <2>3, <2>4, WriteHere
<1>5. pc'[p] = "write" /\ \A q \in Proc \ {p} : pc'[q] = pc[q]
  BY <1>1 DEF Goto, Inv, SlotTypes
<1>6. Fits(p)'
  <2>1. PICK w \in Cwd : w = cmd[p].cwd
    BY <1>1 DEF Inv, SlotTypes, CommandFits, Command
  <2>2. path[p] = Discovered(w)
    BY <1>1, <2>1 DEF Orderly, Fits
  <2>3. path'[p] = Discovered(w)' /\ Discovered(cmd[p].cwd)' = Discovered(w)'
    BY <1>1, <1>3, <2>1, <2>2
  <2> QED BY <1>1, <1>3, <1>5, <2>3 DEF Fits
<1>7. (\A x \in told : IsFound(x.cwd, x.title))'
  BY <1>4
<1> QED BY <1>1, <1>5, <1>6, <1>7, OneProcess

\* What was in a file that is torn is in a copy, or lost before.
LEMMA WriteOrderly ==
  ASSUME Inv, Orderly, Grows, NEW p \in Proc, Write(p), ~ overlapped
  PROVE  Orderly'
<1>1. /\ pc[p] = "write" /\ Exit(p, path) /\ UNCHANGED copies
      /\ told' = IF cmd[p].kind = "import" THEN Told(p, mem[p]) ELSE told
  BY DEF Write
<1>2. PICK w \in Cwd : w = cmd[p].cwd
  BY <1>1 DEF Inv, SlotTypes, CommandFits, Command
<1>3. Fits(p) /\ path[p] = Discovered(w) /\ file[path[p]] = Torn
  BY <1>1, <1>2 DEF Orderly, Fits
<1>4. path[p] # Gone
  <2>1. PICK e \in Dir : path[p] = Spot(file, e)
    BY <1>1, <1>3, PlaceOf
  <2> QED BY <2>1, Names DEF Spot
<1>5. file' = [file EXCEPT ![path[p]] = mem[p]]
  BY <1>3, <1>4 DEF Write
<1>6. PICK c \in Stores : c = mem[p]
  BY DEF Inv, SlotTypes
<1>7. c \notin {None, Torn} /\ file' = [file EXCEPT ![path[p]] = c]
  BY <1>5, <1>6, Names
<1>8. ASSUME NEW x \in told PROVE IsFound(x.cwd, x.title)'
  <2>1. x.cwd \in Cwd /\ IsFound(x.cwd, x.title) /\ ~ Shows(file[path[p]], x.title)
    BY <1>3 DEF Inv, AuxTypes, Orderly, Shows
  <2> QED BY <1>1, <1>7, <2>1, WriteHere
<1>9. ASSUME NEW i \in Ids(c) PROVE IsFound(w, c.title[i])'
  <2>1. file'[path[p]] = c /\ Discovered(w)' = Discovered(w)
    BY <1>1, <1>7, WriteHere
  <2>2. Shows(c, c.title[i])
    BY <1>7 DEF Shows, Bearing, Ids
  <2>3. file'[Discovered(w)'] = c
    BY <1>3, <2>1
  <2>4. PICK t : t = c.title[i]
    OBVIOUS
  <2>5. Shows(file[Discovered(w)], t)' <=> Shows(file'[Discovered(w)'], t)
    BY DEF Shows, Bearing
  <2> QED BY <2>2, <2>3, <2>4, <2>5 DEF IsFound
<1>10. told' \subseteq told \cup {[cwd |-> w, title |-> t] : t \in Title \cap {c.title[i] : i \in Ids(c)}}
  BY <1>1, <1>2, <1>6 DEF Told
<1>11. (\A x \in told : IsFound(x.cwd, x.title))'
  <2> SUFFICES ASSUME NEW x \in told' PROVE IsFound(x.cwd, x.title)'
    OBVIOUS
  <2>1. CASE x \in told
    BY <1>8, <2>1
  <2>2. CASE x \notin told
    <3>1. PICK i \in Ids(c) : x.cwd = w /\ x.title = c.title[i]
      BY <1>10, <2>2
    <3> QED BY <1>9, <3>1
  <2> QED BY <2>1, <2>2
<1>12. pc'[p] = "idle" /\ \A q \in Proc \ {p} : pc'[q] = pc[q]
  BY <1>1 DEF Exit, Goto, Inv, SlotTypes
<1>13. Fits(p)'
  BY <1>12 DEF Fits
<1> QED BY <1>1, <1>11, <1>12, <1>13, OneProcess

\* A command that starts alone starts where its search leads.
LEMMA BeginOrderly ==
  ASSUME Inv, Orderly, NEW p \in Proc, NEW c, NEW step \in {"migrate", "backup", "read", "examine"},
         Begin(p, c, step), step = "read" => c.kind = "import" /\ ~ c.backup, ~ overlapped'
  PROVE  Orderly'
<1>1. /\ \A q \in Proc : pc[q] = "idle"
      /\ UNCHANGED <<file, copies, told>>
  BY DEF Begin
<1>2. /\ pc'[p] = step /\ cmd'[p] = c /\ path'[p] = Discovered(c.cwd)
      /\ \A q \in Proc \ {p} : pc'[q] = "idle"
  BY <1>1 DEF Begin, Inv, SlotTypes
<1>3. PICK w : w = c.cwd
  OBVIOUS
<1>4. ASSUME NEW v PROVE Discovered(v)' = Discovered(v)
  BY <1>1 DEF Discovered, IsHome, HasStore, StoreIn, Default
<1>5. path'[p] = Discovered(w) /\ cmd'[p].cwd = w
  BY <1>2, <1>3
<1>6. Discovered(w)' = Discovered(w) /\ Discovered(cmd[p].cwd)' = Discovered(w)'
  BY <1>4, <1>5
<1>7. \A q \in Proc : Fits(q)'
  BY <1>2, <1>5, <1>6 DEF Fits
<1>8. \A d, t : InCopy(d, t) => InCopy(d, t)'
  BY <1>1 DEF InCopy, Shows, Bearing
<1>9. \A v, t : IsFound(v, t) => IsFound(v, t)'
  BY <1>1, <1>4, <1>8 DEF IsFound, Shows, Bearing
<1> QED BY <1>1, <1>2, <1>7, <1>9 DEF Orderly

LEMMA StartOrderly ==
  ASSUME Inv, Orderly, NEW p \in Proc, Start(p), ~ overlapped'
  PROVE  Orderly'
<1>1. PICK w \in Cwd :
        \/ \E t \in Title : BeginAdd(p, w, t)
        \/ \E m \in {"merge", "replace"}, b \in BOOLEAN, x \in Importable : BeginImport(p, w, m, b, x)
        \/ BeginDoctor(p, w)
  BY DEF Start
<1>2. ASSUME NEW t \in Title, BeginAdd(p, w, t) PROVE Orderly'
  BY <1>2, BeginOrderly DEF BeginAdd
<1>3. ASSUME NEW m \in {"merge", "replace"}, NEW b \in BOOLEAN, NEW x \in Importable, BeginImport(p, w, m, b, x)
      PROVE  Orderly'
  <2>1. PICK c : c = [kind |-> "import", cwd |-> w, mode |-> m, backup |-> b, source |-> x]
    OBVIOUS
  <2>2. c.kind = "import" /\ c.backup = b
    BY <2>1
  <2>3. CASE b
    <3>1. Begin(p, c, "backup")
      BY <1>3, <2>1, <2>3 DEF BeginImport
    <3> QED BY <3>1, BeginOrderly
  <2>4. CASE ~ b
    <3>1. Begin(p, c, "read")
      BY <1>3, <2>1, <2>4 DEF BeginImport
    <3> QED BY <2>2, <2>4, <3>1, BeginOrderly
  <2> QED BY <2>3, <2>4
<1>4. CASE BeginDoctor(p, w)
  BY <1>4, BeginOrderly DEF BeginDoctor
<1> QED BY <1>1, <1>2, <1>3, <1>4

\* A step of no process that at most adds a copy.
LEMMA BystanderOrderly ==
  ASSUME Orderly, UNCHANGED <<file, pc, cmd, path, mem, told>>, copies \subseteq copies'
  PROVE  Orderly'
<1>1. \A w : Discovered(w)' = Discovered(w)
  BY DEF Discovered, IsHome, HasStore, StoreIn, Default
<1>2. \A d, t : InCopy(d, t) => InCopy(d, t)'
  BY DEF InCopy, Shows, Bearing
<1>3. \A w, t : IsFound(w, t) => IsFound(w, t)'
  BY <1>1, <1>2 DEF IsFound, Shows, Bearing
<1>4. ASSUME NEW p \in Proc PROVE Fits(p)'
  <2>1. Fits(p)
    BY DEF Orderly
  <2>2. Copied(p) => Copied(p)'
    BY <1>1, <1>2 DEF Copied
  <2>3. Discovered(cmd[p].cwd)' = Discovered(cmd[p].cwd)
    BY DEF Discovered, IsHome, HasStore, StoreIn, Default
  <2> QED BY <2>1, <2>2, <2>3 DEF Fits
<1> QED BY <1>3, <1>4 DEF Orderly

LEMMA Memory == ASSUME [Next]_vars PROVE (overlapped => overlapped') /\ (hurried => hurried')
<1>1. ASSUME NEW p \in Proc, Start(p) PROVE (overlapped => overlapped') /\ (hurried => hurried')
  <2>1. PICK c, step : Begin(p, c, step)
    BY <1>1 DEF Start, BeginAdd, BeginImport, BeginDoctor
  <2> QED BY <2>1, Zenon DEF Begin
<1>2. ASSUME NEW p \in Proc, Adds(p) PROVE overlapped' = overlapped /\ hurried' = hurried
  BY <1>2 DEF Adds, LookForStore, MoveStore, MissStore, Load, SaveAdd, aux
<1>3. ASSUME NEW p \in Proc, Overwrites(p) PROVE (overlapped => overlapped') /\ (hurried => hurried')
  <2>1. CASE Backup(p)
    BY <2>1, ZenonT(30) DEF Backup, Keep
  <2>2. CASE Examine(p) \/ NothingToBackup(p) \/ ReadForImport(p) \/ ReadForRepair(p) \/ NothingToRepair(p)
    <3>1. UNCHANGED aux
      BY <2>2 DEF Examine, NothingToBackup, ReadForImport, ReadForRepair, NothingToRepair
    <3> QED BY <3>1 DEF aux
  <2>3. CASE Truncate(p) \/ Write(p)
    BY <2>3 DEF Truncate, Write
  <2> QED BY <1>3, <2>1, <2>2, <2>3 DEF Overwrites
<1>4. ASSUME NEW p \in Proc, Quit(p) PROVE overlapped' = overlapped /\ hurried' = hurried
  BY <1>4 DEF Quit, aux
<1>5. ASSUME NEW w \in Cwd, Snapshot(w) PROVE (overlapped => overlapped') /\ (hurried => hurried')
  BY <1>5 DEF Snapshot, Keep
<1>6. ASSUME Tick \/ UNCHANGED vars PROVE overlapped' = overlapped /\ hurried' = hurried
  BY <1>6 DEF Tick, vars, aux
<1>7. CASE \E p \in Proc : Start(p) \/ Adds(p) \/ Overwrites(p) \/ Quit(p)
  <2>1. PICK p \in Proc : Start(p) \/ Adds(p) \/ Overwrites(p) \/ Quit(p)
    BY <1>7
  <2>2. CASE Start(p) \/ Overwrites(p)
    BY <1>1, <1>3, <2>2, Zenon
  <2>3. CASE Adds(p) \/ Quit(p)
    BY <1>2, <1>4, <2>3
  <2> QED BY <2>1, <2>2, <2>3
<1>8. CASE \E w \in Cwd : Snapshot(w)
  BY <1>5, <1>8, Zenon
<1>9. CASE Tick \/ UNCHANGED vars
  BY <1>6, <1>9
<1> QED BY <1>7, <1>8, <1>9, Zenon DEF Next

LEMMA NextFound == FoundInv /\ [Next]_vars => FoundInv'
<1> SUFFICES ASSUME FoundInv, [Next]_vars PROVE FoundInv'
  OBVIOUS
<1>1. Inv /\ Inv' /\ Grows
  BY NextInv DEF FoundInv
<1>2. SUFFICES ASSUME ~ overlapped', ~ hurried' PROVE Orderly'
  BY <1>1 DEF FoundInv
<1>3. Orderly /\ ~ overlapped
  BY <1>2, Memory DEF FoundInv
<1>4. ASSUME NEW p \in Proc, Start(p) \/ Adds(p) \/ Overwrites(p) \/ Quit(p) PROVE Orderly'
  <2>1. CASE Start(p)
    BY <1>1, <1>2, <1>3, <2>1, StartOrderly
  <2>2. CASE Adds(p)
    BY <1>1, <1>3, <2>2, LookOrderly, MoveOrderly, ReadOrderly, SaveAddOrderly DEF Adds
  <2>3. CASE Overwrites(p) \/ Quit(p)
    BY <1>1, <1>2, <1>3, <2>3, ReadOrderly, BackupOrderly, NothingToBackupOrderly, OverOrderly,
       TruncateOrderly, WriteOrderly DEF Overwrites
  <2> QED BY <1>4, <2>1, <2>2, <2>3
<1>5. ASSUME NEW w \in Cwd, Snapshot(w) PROVE Orderly'
  <2>1. /\ UNCHANGED <<file, pc, cmd, path, mem, told>> /\ Keep(Discovered(w), "snap")
    BY <1>5 DEF Snapshot
  <2>2. copies \subseteq copies'
    BY <1>2, <2>1, CopiesGrow
  <2> QED BY <1>3, <2>1, <2>2, BystanderOrderly
<1>6. CASE Tick \/ UNCHANGED vars
  BY <1>3, <1>6, BystanderOrderly DEF Tick, vars, aux
<1> QED BY <1>4, <1>5, <1>6 DEF Next

LEMMA InitFound == Init => FoundInv
BY InitInv DEF Init, FoundInv, Orderly, Fits

(* What pt add and pt import reported as stored is there for the next      *)
(* command: through the move of a legacy store, imports and repairs, and   *)
(* also after a kill between truncating and writing, when it is in the     *)
(* copy that was made before.                                              *)
THEOREM StoredTasksStayFound == Spec => []StoredTasksAreFound
<1>1. FoundInv => StoredTasksAreFound
  <2> SUFFICES ASSUME FoundInv, ~ overlapped, ~ hurried, NEW x \in told PROVE Found(x.cwd, x.title)
    BY DEF StoredTasksAreFound
  <2>1. /\ Shows(file[Discovered(x.cwd)], x.title)
        \/ InCopy(Discovered(x.cwd)[1], x.title)
    BY DEF FoundInv, Orderly, IsFound
  <2>2. CASE Shows(file[Discovered(x.cwd)], x.title)
    BY <2>2 DEF Shows, Found
  <2>3. CASE InCopy(Discovered(x.cwd)[1], x.title)
    <3>1. PICK c \in copies : c.path[1] = Discovered(x.cwd)[1] /\ Shows(c.db, x.title)
      BY <2>3 DEF InCopy
    <3> QED BY <3>1 DEF Shows, Found
  <2> QED BY <2>1, <2>2, <2>3
<1>2. FoundInv /\ [Next]_vars => FoundInv'
  BY NextFound
<1> QED BY <1>1, <1>2, InitFound, PTL DEF Spec
-----------------------------------------------------------------------------
(* Importing into a store what was imported into it before.                *)

\* What a merge m of x into e does to titles and the rest, rows aside.
Merged(e, x, m) ==
  /\ m.title \in [Id -> Title \cup {Absent}]
  /\ \A i \in Id : i \notin Ids(x) \/ i \in Ids(e) => m.title[i] = e.title[i]
  /\ \A i \in Ids(x) \ Ids(e) :
       m.title[i] = IF Bearing(e, x.title[i]) = {} THEN x.title[i] ELSE e.title[i]
  /\ m.deps = [i \in Id |-> IF x.deps[i] # {} THEN x.deps[i] ELSE e.deps[i]]
  /\ m.next = IF x.next > e.next THEN x.next ELSE e.next
  /\ m.titleMap = [t \in Title |-> IF \E i \in Id : m.title[i] = t
                                   THEN CHOOSE i \in Id : m.title[i] = t ELSE 0]
  /\ m = [next |-> m.next, title |-> m.title, row |-> m.row,
          deps |-> m.deps, titleMap |-> m.titleMap]

\* The rows of m under titles of x are those of x.
TakesRows(x, m) ==
  /\ \A i \in Ids(m), j \in Ids(x) : x.title[j] = m.title[i] => m.row[i] = x.row[j]
  /\ m.row = [i \in Id |-> m.row[i]]

LEMMA MergeParts ==
  ASSUME NEW e \in Stores, NEW x \in Stores
  PROVE  Merged(e, x, Merge(e, x))
<1> DEFINE m == Merge(e, x)
<1>1. Ids(e) \subseteq Id /\ Ids(x) \subseteq Id
  BY DEF Ids
<1>2. m.title \in [Id -> Title \cup {Absent}]
  BY MergedStore, StoreFields
<1> QED BY <1>1, <1>2 DEF Merge, Merged

LEMMA MergeRows ==
  ASSUME NEW e \in Stores, NEW x \in Stores,
         \A i, j \in Ids(x) : x.title[i] = x.title[j] => i = j
  PROVE  TakesRows(x, Merge(e, x))
<1> DEFINE m == Merge(e, x)
           added == {i \in Ids(x) \ Ids(e) : Bearing(e, x.title[i]) = {}}
           updated == {i \in Ids(e) : Bearing(x, e.title[i]) # {}}
<1>1. /\ m.title = [i \in Id |-> IF i \in added THEN x.title[i] ELSE e.title[i]]
      /\ m.row = [i \in Id |-> IF i \in added THEN x.row[i]
                               ELSE IF i \in updated
                               THEN x.row[CHOOSE j \in Bearing(x, e.title[i]) : TRUE]
                               ELSE e.row[i]]
  BY DEF Merge
<1> HIDE DEF added, updated, m
<1>2. ASSUME NEW i \in Ids(m), NEW j \in Ids(x), x.title[j] = m.title[i]
      PROVE  m.row[i] = x.row[j]
  <2>1. i \in Id /\ j \in Id /\ m.title[i] # Absent /\ x.title[j] # Absent
    BY DEF Ids
  <2>2. CASE i \in added
    <3>1. i \in Ids(x) /\ x.title[i] = x.title[j]
      BY <1>1, <1>2, <2>1, <2>2 DEF added
    <3> QED BY <1>1, <2>1, <2>2, <3>1
  <2>3. CASE i \notin added
    <3>1. e.title[i] = x.title[j] /\ i \in Ids(e)
      BY <1>1, <1>2, <2>1, <2>3 DEF Ids
    <3>2. j \in Bearing(x, e.title[i])
      BY <2>1, <3>1 DEF Bearing, Ids
    <3>3. Bearing(x, e.title[i]) = {j}
      BY <2>1, <3>1, <3>2 DEF Bearing, Ids
    <3>4. i \in updated
      BY <3>1, <3>2 DEF updated
    <3> QED BY <1>1, <2>1, <2>3, <3>3, <3>4
  <2> QED BY <2>2, <2>3
<1> QED BY <1>1, <1>2 DEF TakesRows, m

(* A merging import keeps every title of both stores, except that an       *)
(* imported issue whose number another title has is skipped; and importing *)
(* the same file once more, as one does after a kill, changes nothing.     *)
THEOREM ImportTwiceIsImportOnce ==
  ASSUME NEW e \in Stores, NEW x \in Stores,
         \A i, j \in Ids(x) : x.title[i] = x.title[j] => i = j
  PROVE  /\ \A t \in Title : Bearing(e, t) # {} => Bearing(Merge(e, x), t) # {}
         /\ \A i \in Ids(x) \ Ids(e) : Bearing(Merge(e, x), x.title[i]) # {}
         /\ Merge(Merge(e, x), x) = Merge(e, x)
<1> DEFINE m == Merge(e, x)  n == Merge(m, x)
<1>1. m \in Stores /\ n \in Stores
  BY MergedStore
<1>2. /\ Merged(e, x, m) /\ Merged(m, x, n)
      /\ TakesRows(x, m) /\ TakesRows(x, n)
  BY <1>1, MergeParts, MergeRows
<1> HIDE DEF m, n
<1>3. Ids(e) \subseteq Id /\ Ids(x) \subseteq Id /\ Ids(m) \subseteq Id
  BY DEF Ids
<1>4. ASSUME NEW t \in Title, Bearing(e, t) # {} PROVE Bearing(m, t) # {}
  <2>1. PICK i \in Ids(e) : e.title[i] = t
    BY <1>4, StoreAssumption DEF Bearing, Ids
  <2>2. m.title[i] = t
    BY <1>2, <1>3, <2>1 DEF Merged
  <2>3. i \in Bearing(m, t)
    BY <2>1, <2>2, <1>3 DEF Bearing, Ids
  <2> QED BY <2>3
<1>5. ASSUME NEW i \in Ids(x) \ Ids(e) PROVE Bearing(m, x.title[i]) # {}
  <2>1. CASE Bearing(e, x.title[i]) # {}
    <3>1. x.title[i] \in Title
      BY StoreFields DEF Ids
    <3> QED BY <1>4, <2>1, <3>1
  <2>2. CASE Bearing(e, x.title[i]) = {}
    <3>1. m.title[i] = x.title[i] /\ i \in Id /\ x.title[i] # Absent
      BY <1>2, <2>2 DEF Merged, Ids
    <3>2. i \in Bearing(m, x.title[i])
      BY <3>1 DEF Bearing, Ids
    <3> QED BY <3>2
  <2> QED BY <2>1, <2>2
<1>6. Ids(e) \subseteq Ids(m)
  BY <1>2, <1>3 DEF Merged, Ids
<1>7. n.title = m.title
  <2>1. n.title \in [Id -> Title \cup {Absent}] /\ m.title \in [Id -> Title \cup {Absent}]
    BY <1>1, <1>2 DEF Merged
  <2>2. ASSUME NEW i \in Id PROVE n.title[i] = m.title[i]
    <3>1. CASE i \in Ids(x) \ Ids(m)
      BY <1>1, <1>2, <1>5, <1>6, <3>1 DEF Merged
    <3>2. CASE i \notin Ids(x) \/ i \in Ids(m)
      BY <1>1, <1>2, <3>2 DEF Merged
    <3> QED BY <3>1, <3>2
  <2> QED BY <2>1, <2>2
<1>8. n.row = m.row
  <2>1. n.row = [i \in Id |-> n.row[i]] /\ m.row = [i \in Id |-> m.row[i]]
    BY <1>1, <1>2 DEF TakesRows
  <2>2. ASSUME NEW i \in Id PROVE n.row[i] = m.row[i]
    <3>1. CASE i \in Ids(m) /\ \E j \in Ids(x) : x.title[j] = m.title[i]
      <4>1. i \in Ids(n)
        BY <1>7, <3>1 DEF Ids
      <4> QED BY <1>1, <1>2, <1>7, <3>1, <4>1 DEF TakesRows
    <3>2. CASE i \in Ids(m) /\ ~ \E j \in Ids(x) : x.title[j] = m.title[i]
      <4>1. i \notin Ids(x) \ Ids(m) /\ Bearing(x, m.title[i]) = {}
        BY <3>2 DEF Bearing, Ids
      <4> QED BY <4>1 DEF Merge, n
    <3>3. CASE i \notin Ids(m)
      <4>1. i \in Ids(x) => Bearing(m, x.title[i]) # {}
        BY <1>5, <1>6, <3>3
      <4> QED BY <3>3, <4>1 DEF Merge, n
    <3> QED BY <3>1, <3>2, <3>3
  <2> QED BY <2>1, <2>2
<1>9. n.deps = m.deps
  BY <1>1, <1>2 DEF Merged
<1>10. n.next = m.next
  BY <1>1, <1>2, StoreFields, StoreAssumption DEF Merged
<1>11. n.titleMap = m.titleMap
  BY <1>1, <1>2, <1>7 DEF Merged
<1>12. n = m
  BY <1>1, <1>2, <1>7, <1>8, <1>9, <1>10, <1>11 DEF Merged
<1> QED BY <1>2, <1>4, <1>5, <1>12 DEF m, n
=============================================================================
