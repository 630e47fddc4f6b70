----------------------------- MODULE Directory -----------------------------
(***************************************************************************)
(* The public directory (modules/directory) and the rows it lists: the     *)
(* departments, offices and faculty members an administrator maintains     *)
(* (modules/departments, offices and faculty).                             *)
(*                                                                         *)
(* A list is read through a Redis cache. On a miss the loader queries the  *)
(* rows and their number, two queries at a time, and the page is stored    *)
(* when both have answered. A mutation commits first and then deletes the  *)
(* cached pages its rows appear on, one kind of page after the other.      *)
(* Every command to Redis may fail; it is then only logged.                *)
(*                                                                         *)
(* One key stands for the pages of a kind. Checks that come before a       *)
(* commit are not steps of their own: what they look for, the unique and   *)
(* foreign keys decide again at the commit.                                *)
(*                                                                         *)
(* Some definitions stand before the one they vary as an error of the code *)
(* would; the properties below notice every such error.                    *)
(***************************************************************************)
EXTENDS Naturals, FiniteSets

CONSTANTS Departments, Offices, Faculty,  \* ids of rows
          Names,       \* names of departments, offices and people
          Positions,   \* FacultyPosition, or a part of it
          Workers,     \* requests the server runs at a time
          MaxCommits,  \* bound: commits of mutations
          None         \* SQL NULL, and a missing key

Member == [name : Names, position : Positions, department : Departments, active : BOOLEAN]

ASSUME RowsAssumption ==
  /\ Positions \subseteq {"DEAN", "CHAIR", "PROFESSOR"}
  /\ MaxCommits \in Nat
  /\ None \notin Names \cup Member

VARIABLES
  department, office,  \* name of each row, or None
  faculty,             \* FacultyProfile rows joined with their user, or None
  cache,               \* the page cached for each kind, or None
  job,                 \* what each worker is doing
  commits,             \* number of commits
  overtaken,           \* history: workers at a load since whose start a
                       \* mutation has committed
  missed               \* history: kinds whose cached page a mutation left
                       \* alone, or failed to delete

rows == <<department, office, faculty>>
history == <<overtaken, missed>>
directoryVars == <<rows, cache, job, commits, history>>

-----------------------------------------------------------------------------
Kinds == {"departments", "offices", "faculty"}

(* The rows of a directory page, from the rows of the database. *)
Units(table) == {[id |-> u, name |-> table[u]] : u \in {v \in DOMAIN table : table[v] # None}}

AllMembers == {f \in Faculty : faculty[f] # None}

ActiveMembers == {f \in Faculty : faculty[f] # None /\ faculty[f].active}

Card(f) == [id |-> f, name |-> faculty[f].name, position |-> faculty[f].position,
            department |-> department[faculty[f].department]]

Listed(k) == CASE k = "departments" -> Units(department)
               [] k = "offices"     -> Units(office)
               [] k = "faculty"     -> {Card(f) : f \in ActiveMembers}

UnitCount(table) == Cardinality({u \in DOMAIN table : table[u] # None})

Counted(k) == CASE k = "departments" -> UnitCount(department)
                [] k = "offices"     -> UnitCount(office)
                [] k = "faculty"     -> Cardinality(ActiveMembers)

Unit(Ids) == [id : Ids, name : Names]
Cards == [id : Faculty, name : Names, position : Positions, department : Names]
Data == (SUBSET Unit(Departments)) \cup (SUBSET Unit(Offices)) \cup (SUBSET Cards)
Page == [data : Data, total : Nat, overtaken : BOOLEAN]

Idle == [op |-> "idle"]
Load == [op : {"load"}, kind : Kinds, data : Data \cup {None}, total : Nat \cup {None}]
Invalidation == [op : {"invalidate"}, kinds : SUBSET Kinds]

DirectoryTypeOK ==
  /\ department \in [Departments -> Names \cup {None}]
  /\ office \in [Offices -> Names \cup {None}]
  /\ faculty \in [Faculty -> Member \cup {None}]
  /\ cache \in [Kinds -> Page \cup {None}]
  /\ job \in [Workers -> {Idle} \cup Load \cup Invalidation]
  /\ commits \in 0..MaxCommits
  /\ overtaken \subseteq Workers
  /\ missed \subseteq Kinds

(* The unique key on the name of a table. *)
Free(table, u, n) == \A v \in DOMAIN table \ {u} : table[v] # n
Unique(table) == \A u \in DOMAIN table : table[u] # None => Free(table, u, table[u])

(* The server starts on any database its keys admit. *)
DirectoryInit ==
  /\ department \in [Departments -> Names \cup {None}] /\ Unique(department)
  /\ office \in [Offices -> Names \cup {None}] /\ Unique(office)
  /\ faculty \in [Faculty -> Member \cup {None}]
  /\ \A f \in AllMembers : department[faculty[f].department] # None
  /\ cache = [k \in Kinds |-> None]
  /\ job = [w \in Workers |-> Idle]
  /\ commits = 0
  /\ overtaken = {}
  /\ missed = {}

-----------------------------------------------------------------------------
(* cacheGetOrSet. A hit changes nothing; a miss, and an error of redis.get, *)
(* start the loader. Its two queries see the rows at moments of their own. *)

StartLoad(w, k) ==
  /\ job[w] = Idle
  /\ job' = [job EXCEPT ![w] = [op |-> "load", kind |-> k, data |-> None, total |-> None]]
  /\ UNCHANGED <<rows, cache, commits, history>>

QueryRows(w) ==
  /\ job[w].op = "load" /\ job[w].data = None
  /\ job' = [job EXCEPT ![w].data = Listed(job[w].kind)]
  /\ UNCHANGED <<rows, cache, commits, history>>

QueryTotal(w) ==
  /\ job[w].op = "load" /\ job[w].total = None
  /\ job' = [job EXCEPT ![w].total = Counted(job[w].kind)]
  /\ UNCHANGED <<rows, cache, commits, history>>

Loaded(w) == job[w].op = "load" /\ None \notin {job[w].data, job[w].total}

(* The page is answered and stored. *)
Store(w) ==
  LET k == job[w].kind IN
  /\ Loaded(w)
  /\ cache' = [cache EXCEPT ![k] = [data |-> job[w].data, total |-> job[w].total,
                                    overtaken |-> w \in overtaken]]
  /\ job' = [job EXCEPT ![w] = Idle]
  /\ overtaken' = overtaken \ {w}
  /\ missed' = missed \ {k}
  /\ UNCHANGED <<rows, commits>>

(* Nothing is stored: redis.set failed, there is no Redis, the time to     *)
(* live is 0, a query failed, or the process stopped.                      *)
EndLoad(w) ==
  /\ job[w].op = "load"
  /\ job' = [job EXCEPT ![w] = Idle]
  /\ overtaken' = overtaken \ {w}
  /\ UNCHANGED <<rows, cache, commits, missed>>

Remove(k) ==
  /\ cache' = [cache EXCEPT ![k] = None]
  /\ missed' = missed \ {k}

(* The time to live of a page runs out. *)
Expire(k) ==
  /\ cache[k] # None
  /\ Remove(k)
  /\ UNCHANGED <<rows, job, commits, overtaken>>

-----------------------------------------------------------------------------
(* Mutations: a commit, then invalidateCachePattern for some kinds. *)

Commit ==
  /\ commits < MaxCommits
  /\ commits' = commits + 1
  /\ overtaken' = overtaken \cup {w \in Workers : job[w].op = "load"}

ThenInvalidate(w, kinds) ==
  /\ job[w] = Idle
  /\ job' = [job EXCEPT ![w] = [op |-> "invalidate", kinds |-> kinds]]
  /\ UNCHANGED <<cache, missed>>

CreateDepartment(w, d, n) ==
  /\ department[d] = None /\ Free(department, d, n)
  /\ department' = [department EXCEPT ![d] = n]
  /\ Commit /\ ThenInvalidate(w, {"departments"})
  /\ UNCHANGED <<office, faculty>>

UpdateOwnPageOnly(w, d, n) ==
  /\ department[d] # None /\ Free(department, d, n)
  /\ department' = [department EXCEPT ![d] = n]
  /\ Commit /\ ThenInvalidate(w, {"departments"})
  /\ UNCHANGED <<office, faculty>>

UpdateDepartment(w, d, n) ==
  /\ department[d] # None /\ Free(department, d, n)
  /\ department' = [department EXCEPT ![d] = n]
  /\ Commit /\ ThenInvalidate(w, {"departments", "faculty"})
  /\ UNCHANGED <<office, faculty>>

(* Refused (P2003) while a faculty profile refers to the department, also  *)
(* one whose user is inactive.                                             *)
DeleteDepartment(w, d) ==
  /\ department[d] # None
  /\ \A f \in AllMembers : faculty[f].department # d
  /\ department' = [department EXCEPT ![d] = None]
  /\ Commit /\ ThenInvalidate(w, {"departments", "faculty"})
  /\ UNCHANGED <<office, faculty>>

WriteOffice(w, o, n) ==
  /\ office' = [office EXCEPT ![o] = n]
  /\ Commit /\ ThenInvalidate(w, {"offices"})
  /\ UNCHANGED <<department, faculty>>

CreateOffice(w, o, n) == office[o] = None /\ Free(office, o, n) /\ WriteOffice(w, o, n)
UpdateOffice(w, o, n) == office[o] # None /\ Free(office, o, n) /\ WriteOffice(w, o, n)
DeleteOffice(w, o) == office[o] # None /\ WriteOffice(w, o, None)

WriteMember(w, f, m) ==
  /\ faculty' = [faculty EXCEPT ![f] = m]
  /\ Commit /\ ThenInvalidate(w, {"faculty"})
  /\ UNCHANGED <<department, office>>

CreateFaculty(w, f, m) ==
  faculty[f] = None /\ department[m.department] # None /\ m.active /\ WriteMember(w, f, m)

ReactivateFaculty(w, f, m) ==
  /\ faculty[f] # None /\ department[m.department] # None
  /\ m.active
  /\ WriteMember(w, f, m)

(* Any of the fields; the role of the user follows the position. *)
UpdateFaculty(w, f, m) ==
  /\ faculty[f] # None /\ department[m.department] # None
  /\ m.active = faculty[f].active
  /\ WriteMember(w, f, m)

(* The profile stays; its user becomes inactive, for good. *)
DeleteFaculty(w, f) ==
  /\ faculty[f] # None
  /\ WriteMember(w, f, [faculty[f] EXCEPT !.active = FALSE])

(* A faculty member edits their own profile, perhaps after a deactivation  *)
(* that their session has not noticed: no page is invalidated.             *)
UpdateProfile(f, n) ==
  /\ faculty[f] # None
  /\ faculty' = [faculty EXCEPT ![f].name = n]
  /\ Commit
  /\ missed' = IF cache["faculty"] # None THEN missed \cup {"faculty"} ELSE missed
  /\ UNCHANGED <<department, office, cache, job>>

(* One of the invalidations under way reaches its page, or fails. *)
Done(w, k) ==
  LET left == job[w].kinds \ {k} IN
  job' = [job EXCEPT ![w] = IF left = {} THEN Idle ELSE [@ EXCEPT !.kinds = left]]

Invalidate(w, k) ==
  /\ job[w].op = "invalidate" /\ k \in job[w].kinds
  /\ Remove(k) /\ Done(w, k)
  /\ UNCHANGED <<rows, commits, overtaken>>

FailToInvalidate(w, k) ==
  /\ job[w].op = "invalidate" /\ k \in job[w].kinds
  /\ Done(w, k)
  /\ missed' = IF cache[k] # None THEN missed \cup {k} ELSE missed
  /\ UNCHANGED <<rows, cache, commits, overtaken>>

-----------------------------------------------------------------------------
Read(w) == (\E k \in Kinds : StartLoad(w, k)) \/ QueryRows(w) \/ QueryTotal(w)
             \/ Store(w) \/ EndLoad(w)

Mutate(w) ==
  \/ \E d \in Departments : DeleteDepartment(w, d)
  \/ \E d \in Departments, n \in Names : CreateDepartment(w, d, n) \/ UpdateDepartment(w, d, n)
  \/ \E o \in Offices : DeleteOffice(w, o)
  \/ \E o \in Offices, n \in Names : CreateOffice(w, o, n) \/ UpdateOffice(w, o, n)
  \/ \E f \in Faculty : DeleteFaculty(w, f)
  \/ \E f \in Faculty, m \in Member : CreateFaculty(w, f, m) \/ UpdateFaculty(w, f, m)
  \/ \E k \in Kinds : Invalidate(w, k) \/ FailToInvalidate(w, k)

DirectoryNext ==
  \/ \E w \in Workers : Read(w) \/ Mutate(w)
  \/ \E f \in Faculty, n \in Names : UpdateProfile(f, n)
  \/ \E k \in Kinds : Expire(k)

DirectorySpec == DirectoryInit /\ [][DirectoryNext]_directoryVars

-----------------------------------------------------------------------------
(* Properties. *)

Pending(k) == \E w \in Workers : job[w].op = "invalidate" /\ k \in job[w].kinds

(* A cached page that differs from the rows is about to be deleted, or was *)
(* loaded while a mutation committed (its loader was overtaken), or the    *)
(* invalidation that was to delete it failed, or its rows were changed by  *)
(* a profile update, which invalidates nothing: in every other case a      *)
(* reader is answered with the rows as they are. Its total and its rows    *)
(* are of one moment, although two queries fetch them, unless a mutation   *)
(* committed while they ran.                                               *)
PagesAreExplained ==
  \A k \in Kinds : cache[k] # None =>
    /\ cache[k].data # Listed(k) => Pending(k) \/ cache[k].overtaken \/ k \in missed
    /\ ~cache[k].overtaken => cache[k].total = Cardinality(cache[k].data)
=============================================================================
