----------------------------- MODULE StoreFiles -----------------------------
(***************************************************************************)
(* Where the store is and what replaces it: the search for the store file  *)
(* and the move of a legacy one (pkg/pt/client.go), pt import, pt snapshot *)
(* (cmd/pt/export.go, main.go) and pt doctor --fix (doctor.go), beside an  *)
(* ordinary command, pt add.                                               *)
(*                                                                         *)
(* pt add writes a temporary file and renames it, under the file lock.     *)
(* Import and doctor overwrite the file in place and take no lock: between *)
(* truncating and writing, everybody reads a file that does not parse,     *)
(* which load takes for an empty store.                                    *)
(*                                                                         *)
(* Abstractions.  A store is its PlanStore half, an empty dependency list  *)
(* counts as none, and titles are unique (Planning has the renames that    *)
(* may break that).  Each read, copy or file replacement is one step.  An  *)
(* export is a file to import like a copy of the store.  PT_DB and --db,   *)
(* which name the file and skip the search, are left out.                  *)
(***************************************************************************)
EXTENDS PlanStore, Sequences

CONSTANTS
  Dir,        \* directories that may hold a store
  Cwd,        \* where commands are run
  Search,     \* Search[w]: the directories looked into from w, in order
  Foreign,    \* stores of other projects, exported
  Old,        \* what an older pt left in a legacy file
  Proc,       \* process slots
  MaxSecond,  \* bound: seconds that copies are named by
  MaxCommands, MaxRacing,  \* bounds: commands, also counting those that overlap
  None,       \* no such file; an empty slot
  Torn,       \* the content of a file that was truncated and not written
  Gone        \* an open file that has no name any more

(* The last directory of a search is a repository's root (the main one's   *)
(* for a worktree); a search that meets it ends there.                     *)
ASSUME StoreFilesAssumption ==
  /\ Search \in [Cwd -> Seq(Dir)] /\ \A w \in Cwd : Search[w] # <<>>
  /\ \A v, w \in Cwd : \A k \in 1..(Len(Search[w]) - 1) : Search[w][k] # Search[v][Len(Search[v])]
  /\ Foreign \subseteq {db \in Db : Coherent(db)} /\ Old \in Db /\ Coherent(Old)
  /\ MaxSecond \in Nat /\ MaxCommands \in Nat /\ MaxRacing \in Nat
  /\ None \notin Db /\ Torn \notin Db /\ None # Torn
  /\ Gone \notin Dir \X {"legacy", "current"}

VARIABLES
  file,       \* file[<<d, "current">>]: d/.pt/db.json; <<d, "legacy">>: d/.pt.db.json
  copies,     \* backups and snapshots, which are named by the second
  now,        \* the second
  pc,         \* pc[p]: what process p does next
  cmd,        \* cmd[p]: its command line, with the imported store
  path,       \* path[p]: the store file it has chosen, or opened
  mem,        \* mem[p]: its copy of the store
  told,       \* auxiliary: the titles reported as stored, and to whom
  overlapped, \* auxiliary: two processes have existed at the same time
  hurried,    \* auxiliary: a copy replaced another one of the same second
  started     \* auxiliary: how many commands have been started

aux == <<told, overlapped, hurried, started>>
vars == <<file, copies, now, pc, cmd, path, mem, aux>>

Path == Dir \X {"legacy", "current"}

Content == Db \cup {Torn}

Copy == [path : Path, kind : {"backup", "snap"}, second : 0..MaxSecond, db : Content]

Command ==
  [kind : {"add"}, cwd : Cwd, title : Title]
    \cup [kind : {"import"}, cwd : Cwd, mode : {"merge", "replace"}, backup : BOOLEAN, source : Db]
    \cup [kind : {"doctor"}, cwd : Cwd]

Step == {"idle", "migrate", "move", "load", "save",
         "examine", "backup", "read", "truncate", "write"}
-----------------------------------------------------------------------------
\* findStoreInDir
HasStore(d) == \E k \in {"legacy", "current"} : file[<<d, k>>] # None

StoreIn(d) == IF file[<<d, "current">>] # None THEN <<d, "current">> ELSE <<d, "legacy">>

\* The k-th directory is the first one on the way with a store.
IsHome(w, k) ==
  /\ k \in DOMAIN Search[w] /\ HasStore(Search[w][k])
  /\ \A j \in 1..(k - 1) : ~ HasStore(Search[w][j])

Default(w) == <<Search[w][Len(Search[w])], "current">>

\* DiscoveredStorePath
Discovered(w) ==
  IF \E k \in DOMAIN Search[w] : IsHome(w, k)
  THEN StoreIn(Search[w][CHOOSE k \in DOMAIN Search[w] : IsHome(w, k)])
  ELSE Default(w)

\* What load and a merging import make of a file.
Parsed(c) == IF c \in {None, Torn} THEN EmptyDb ELSE c

\* A merge that keeps its own NextID.
MergeKeepingNext(e, x) ==
  LET added == {i \in Ids(x) \ Ids(e) : Bearing(e, x.title[i]) = {}}
      title == [i \in Id |-> IF i \in added THEN x.title[i] ELSE e.title[i]]
  IN [e EXCEPT !.title = title,
               !.titleMap = [t \in Title |-> IF \E i \in Id : title[i] = t
                                             THEN CHOOSE i \in Id : title[i] = t ELSE 0]]

\* A merge that makes room for the imported numbers after its own.
MergeAddingNext(e, x) == [e EXCEPT !.next = e.next + x.next]

(* cmdImport, merge.  An imported issue of a known title replaces that     *)
(* issue, id and all; one of a new title is added under its own id, or     *)
(* dropped where the id is taken.  Dependencies are overwritten by id,     *)
(* whatever became of the issue.                                           *)
Merge(e, x) ==
  LET added == {i \in Ids(x) \ Ids(e) : Bearing(e, x.title[i]) = {}}
      title == [i \in Id |-> IF i \in added THEN x.title[i] ELSE e.title[i]]
      updated == {i \in Ids(e) : Bearing(x, e.title[i]) # {}}
  IN [next |-> IF x.next > e.next THEN x.next ELSE e.next,
      title |-> title,
      row |-> [i \in Id |-> IF i \in added THEN x.row[i]
                            ELSE IF i \in updated THEN x.row[CHOOSE j \in Bearing(x, e.title[i]) : TRUE]
                            ELSE e.row[i]],
      deps |-> [i \in Id |-> IF x.deps[i] # {} THEN x.deps[i] ELSE e.deps[i]],
      titleMap |-> [t \in Title |-> IF \E i \in Id : title[i] = t
                                    THEN CHOOSE i \in Id : title[i] = t ELSE 0]]

\* The warnings of runDoctorChecks: it asks for dependencies by the rows' ids.
BrokenDeps(db) == \E i \in Ids(db) : ~ db.deps[db.row[i]] \subseteq Ids(db)

Ill(c) == c \notin {None, Torn} => BrokenDeps(c)

\* applyDoctorFixes, broken_deps
Repaired(db) == [db EXCEPT !.deps = [i \in Id |-> db.deps[i] \cap Ids(db)]]
-----------------------------------------------------------------------------
Init ==
  /\ file \in [Path -> {None, Old}] /\ \A d \in Dir : file[<<d, "current">>] = None
  /\ copies = {}
  /\ now = 0
  /\ pc = [p \in Proc |-> "idle"]
  /\ cmd = [p \in Proc |-> None]
  /\ path = [p \in Proc |-> Gone]
  /\ mem = [p \in Proc |-> EmptyDb]
  /\ told = {}
  /\ overlapped = FALSE
  /\ hurried = FALSE
  /\ started = 0

Begin(p, c, step) ==
  /\ pc[p] = "idle"
  /\ pc' = [pc EXCEPT ![p] = step]
  /\ cmd' = [cmd EXCEPT ![p] = c]
  /\ path' = [path EXCEPT ![p] = Discovered(c.cwd)]
  /\ overlapped' = (overlapped \/ \E q \in Proc : pc[q] # "idle")
  /\ told' = IF overlapped' THEN {} ELSE told
  /\ started' = started + 1
  /\ started' <= IF overlapped' THEN MaxRacing ELSE MaxCommands
  /\ UNCHANGED <<file, copies, now, mem, hurried>>

BeginAdd(p, w, t) == Begin(p, [kind |-> "add", cwd |-> w, title |-> t], "migrate")

\* An import that takes a merge to be harmless and copies the store only
\* before it replaces it.
BeginImportTrustingMerge(p, w, m, b, x) ==
  Begin(p, [kind |-> "import", cwd |-> w, mode |-> m, backup |-> b, source |-> x],
        IF b /\ m = "replace" THEN "backup" ELSE "read")

\* The imported file is read and parsed before anything else happens.
BeginImport(p, w, m, b, x) ==
  Begin(p, [kind |-> "import", cwd |-> w, mode |-> m, backup |-> b, source |-> x],
        IF b THEN "backup" ELSE "read")

BeginDoctor(p, w) ==
  /\ file[Discovered(w)] # None
  /\ Begin(p, [kind |-> "doctor", cwd |-> w], "examine")

Goto(p, step) == pc' = [pc EXCEPT ![p] = step]

Exit(p, paths) ==
  /\ Goto(p, "idle")
  /\ cmd' = [cmd EXCEPT ![p] = None]
  /\ path' = [paths EXCEPT ![p] = Gone]
  /\ mem' = [mem EXCEPT ![p] = EmptyDb]

\* Killed, refused, or a write that failed: what is half done stays half done.
Quit(p) ==
  /\ pc[p] # "idle"
  /\ Exit(p, path)
  /\ UNCHANGED <<file, copies, now, aux>>

(* A file gets the name b, and loses the name a if it had one: who has it  *)
(* open writes there, and who had opened b writes to no file at all, now   *)
(* and afterwards.                                                         *)
Renamed(a, b) ==
  [q \in Proc |-> IF pc[q] # "write" \/ path[q] = Gone THEN path[q]
                  ELSE IF path[q] = a THEN b ELSE IF path[q] = b THEN Gone ELSE path[q]]

Told(p, db) == IF overlapped THEN told
               ELSE told \cup {[cwd |-> cmd[p].cwd, title |-> t] : t \in Title \cap {db.title[i] : i \in Ids(db)}}
-----------------------------------------------------------------------------
(* maybeMigrateLegacyStore: looks, and then moves.                         *)
Target(p) == <<path[p][1], "current">>

LookForStore(p) ==
  /\ pc[p] = "migrate"
  /\ IF path[p][2] = "legacy" /\ file[Target(p)] = None /\ file[path[p]] # None
     THEN Goto(p, "move") /\ UNCHANGED path
     ELSE /\ Goto(p, "load")
          /\ path' = [path EXCEPT ![p] = IF file[Target(p)] # None THEN Target(p) ELSE @]
  /\ UNCHANGED <<file, copies, now, cmd, mem, aux>>

\* A move to where the command was run, not to where the store was found.
MoveStoreHere(p) ==
  LET to == <<Search[cmd[p].cwd][1], "current">> IN
  /\ pc[p] = "move" /\ file[path[p]] # None
  /\ file' = [file EXCEPT ![to] = file[path[p]], ![path[p]] = None]
  /\ path' = [Renamed(path[p], to) EXCEPT ![p] = to]
  /\ Goto(p, "load")
  /\ UNCHANGED <<copies, now, cmd, mem, aux>>

MoveStore(p) ==
  /\ pc[p] = "move" /\ file[path[p]] # None
  /\ file' = [file EXCEPT ![Target(p)] = file[path[p]], ![path[p]] = None]
  /\ path' = [Renamed(path[p], Target(p)) EXCEPT ![p] = Target(p)]
  /\ Goto(p, "load")
  /\ UNCHANGED <<copies, now, cmd, mem, aux>>

\* The rename fails: the legacy path is kept.
MissStore(p) ==
  /\ pc[p] = "move" /\ file[path[p]] = None
  /\ Goto(p, "load")
  /\ UNCHANGED <<file, copies, now, cmd, path, mem, aux>>

Load(p) ==
  /\ pc[p] = "load"
  /\ mem' = [mem EXCEPT ![p] = Parsed(file[path[p]])]
  /\ Goto(p, "save")
  /\ UNCHANGED <<file, copies, now, cmd, path, aux>>

SaveAdd(p) ==
  LET t == cmd[p].title IN
  /\ pc[p] = "save"
  /\ mem[p].next + Cardinality(Unknown(mem[p], {t})) <= MaxId
  /\ \E f \in Numberings(mem[p], {t}) :
       file' = [file EXCEPT ![path[p]] = EnsureIssues(mem[p], f)]
  /\ told' = IF overlapped THEN told ELSE told \cup {[cwd |-> cmd[p].cwd, title |-> t]}
  /\ Exit(p, Renamed(Gone, path[p]))
  /\ UNCHANGED <<copies, now, overlapped, hurried, started>>
-----------------------------------------------------------------------------
\* A copy of the file at f: a copy of the same name is overwritten.
Keep(f, kind) ==
  LET new == [path |-> f, kind |-> kind, second |-> now, db |-> file[f]]
      old == {c \in copies : c.path = f /\ c.kind = kind /\ c.second = now}
  IN /\ copies' = (copies \ old) \cup {new}
     /\ hurried' = (hurried \/ ~ old \subseteq {new})

Backup(p) ==
  /\ pc[p] = "backup" /\ file[path[p]] # None
  /\ Keep(path[p], "backup")
  /\ Goto(p, "read")
  /\ UNCHANGED <<file, now, cmd, path, mem, told, overlapped, started>>

\* Import into a store that does not exist yet.
NothingToBackup(p) ==
  /\ pc[p] = "backup" /\ file[path[p]] = None /\ cmd[p].kind = "import"
  /\ Goto(p, "read")
  /\ UNCHANGED <<file, copies, now, cmd, path, mem, aux>>

ReadForImport(p) ==
  /\ pc[p] = "read" /\ cmd[p].kind = "import"
  /\ mem' = [mem EXCEPT ![p] = IF cmd[p].mode = "replace" THEN cmd[p].source
                               ELSE Merge(Parsed(file[path[p]]), cmd[p].source)]
  /\ Goto(p, "truncate")
  /\ UNCHANGED <<file, copies, now, cmd, path, aux>>

Examine(p) ==
  /\ pc[p] = "examine" /\ Ill(file[path[p]])
  /\ mem' = [mem EXCEPT ![p] = Parsed(file[path[p]])]
  /\ Goto(p, "backup")
  /\ UNCHANGED <<file, copies, now, cmd, path, aux>>

\* applyDoctorFixes reads the file again.
HasRepair(p) ==
  /\ BrokenDeps(mem[p]) /\ file[path[p]] \notin {None, Torn}
  /\ Repaired(file[path[p]]) # file[path[p]]

ReadForRepair(p) ==
  /\ pc[p] = "read" /\ cmd[p].kind = "doctor" /\ HasRepair(p)
  /\ mem' = [mem EXCEPT ![p] = Repaired(file[path[p]])]
  /\ Goto(p, "truncate")
  /\ UNCHANGED <<file, copies, now, cmd, path, aux>>

NothingToRepair(p) ==
  /\ \/ pc[p] = "examine" /\ ~ Ill(file[path[p]])
     \/ pc[p] = "read" /\ cmd[p].kind = "doctor" /\ ~ HasRepair(p)
  /\ Exit(p, path)
  /\ UNCHANGED <<file, copies, now, aux>>

(* os.WriteFile, first half.  Who asked for no backup gives up what was    *)
(* there.                                                                  *)
Truncate(p) ==
  /\ pc[p] = "truncate"
  /\ file' = [file EXCEPT ![path[p]] = Torn]
  /\ told' = IF cmd[p].kind = "import" /\ ~ cmd[p].backup THEN {} ELSE told
  /\ Goto(p, "write")
  /\ UNCHANGED <<copies, now, cmd, path, mem, overlapped, hurried, started>>

(* The second half.  Over the text of another writer a shorter one leaves  *)
(* a rest behind, which does not parse.                                    *)
Write(p) ==
  /\ pc[p] = "write"
  /\ IF path[p] = Gone THEN UNCHANGED file
     ELSE \E c \in IF file[path[p]] = Torn THEN {mem[p]} ELSE {mem[p], Torn} :
            file' = [file EXCEPT ![path[p]] = c]
  /\ told' = IF cmd[p].kind = "import" THEN Told(p, mem[p]) ELSE told
  /\ Exit(p, path)
  /\ UNCHANGED <<copies, now, overlapped, hurried, started>>

Snapshot(w) ==
  /\ file[Discovered(w)] # None
  /\ started < IF overlapped THEN MaxRacing ELSE MaxCommands
  /\ Keep(Discovered(w), "snap")
  /\ started' = started + 1
  /\ UNCHANGED <<file, now, pc, cmd, path, mem, told, overlapped>>

Tick ==
  /\ now < MaxSecond
  /\ now' = now + 1
  /\ UNCHANGED <<file, copies, pc, cmd, path, mem, aux>>
-----------------------------------------------------------------------------
Importable == (Foreign \cup {c.db : c \in copies}) \ {Torn}

Start(p) ==
  \E w \in Cwd :
    \/ \E t \in Title : BeginAdd(p, w, t)
    \/ \E m \in {"merge", "replace"}, b \in BOOLEAN, x \in Importable : BeginImport(p, w, m, b, x)
    \/ BeginDoctor(p, w)

Adds(p) == LookForStore(p) \/ MoveStore(p) \/ MissStore(p) \/ Load(p) \/ SaveAdd(p)

Overwrites(p) ==
  \/ Examine(p) \/ Backup(p) \/ NothingToBackup(p)
  \/ ReadForImport(p) \/ ReadForRepair(p) \/ NothingToRepair(p)
  \/ Truncate(p) \/ Write(p)

Next ==
  \/ \E p \in Proc : Start(p) \/ Adds(p) \/ Overwrites(p) \/ Quit(p)
  \/ \E w \in Cwd : Snapshot(w)
  \/ Tick

Spec == Init /\ [][Next]_vars
-----------------------------------------------------------------------------
TypeOK ==
  /\ file \in [Path -> Content \cup {None}]
  /\ copies \subseteq Copy
  /\ now \in 0..MaxSecond
  /\ pc \in [Proc -> Step]
  /\ DOMAIN cmd = Proc /\ \A p \in Proc : pc[p] # "idle" => cmd[p] \in Command
  /\ path \in [Proc -> Path \cup {Gone}]
  /\ \A p \in Proc : path[p] = Gone => pc[p] \in {"idle", "write"}
  /\ mem \in [Proc -> Db]
  /\ told \subseteq [cwd : Cwd, title : Title]
  /\ overlapped \in BOOLEAN /\ hurried \in BOOLEAN /\ started \in Nat

(* Whatever is merged, restored, repaired or torn, and whoever interferes: *)
(* no store will give a number twice (no id is above NextID), and no entry *)
(* of its title map points at an issue of another title: add --deps and    *)
(* rename, which go through the map, never take one title for another.     *)
(* They may still differ from sync about the number: after a merge a row   *)
(* can bear another id than its key, and sync goes by the one in the row.  *)
Numbered(db) ==
  /\ Ids(db) \subseteq 1..db.next
  /\ \A t \in Title : db.titleMap[t] # 0 => db.title[db.titleMap[t]] = t

StoresMakeSense ==
  /\ \A f \in Path : file[f] \notin {None, Torn} => Numbered(file[f])
  /\ \A p \in Proc : Numbered(mem[p])
  /\ \A c \in copies : c.db # Torn => Numbered(c.db)

(* What a command reported as stored can be found from where it was run:   *)
(* in the store that the next command there will load or, after an import  *)
(* was killed or replaced the store, in a copy beside it.  Not claimed for *)
(* commands that overlap, for copies made within one second, or for what   *)
(* import --backup=false was told to overwrite.                            *)
Found(w, t) ==
  LET f == Discovered(w)
      beside == {c.db : c \in {d \in copies : d.path[1] = f[1]}}
  IN \E db \in ({file[f]} \cup beside) \ {None, Torn} : Bearing(db, t) # {}

StoredTasksAreFound ==
  ~ overlapped /\ ~ hurried => \A x \in told : Found(x.cwd, x.title)

(* The search for the store from a directory never changes its answer once *)
(* it has one, through migrations, imports, kills and races: no command    *)
(* leaves a store nearer by, or takes away the one there was.              *)
SearchIsStable ==
  [][\A w \in Cwd : \A k \in DOMAIN Search[w] : IsHome(w, k) => IsHome(w, k)']_vars
=============================================================================
