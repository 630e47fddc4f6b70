--------------------------- MODULE SessionsProofs ---------------------------
(***************************************************************************)
(* Theorems about Directory and Sessions, for any rows, workers, tokens    *)
(* and times to live: why a cached page may differ from the rows, and when *)
(* a session whose account was deactivated or given another role ends.     *)
(***************************************************************************)
EXTENDS Sessions, FiniteSetTheorems, TLAPS

USE RowsAssumption

(* Totals are numbers of rows. *)
FiniteRows == IsFiniteSet(Departments) /\ IsFiniteSet(Offices) /\ IsFiniteSet(Faculty)

(* The mutations of the directory, with the kinds of pages each invalidates. *)
Mutation(w, kinds) ==
  \/ /\ kinds = {"departments", "faculty"}
     /\ \E d \in Departments : DeleteDepartment(w, d) \/ \E n \in Names : UpdateDepartment(w, d, n)
  \/ /\ kinds = {"departments"}
     /\ \E d \in Departments, n \in Names : CreateDepartment(w, d, n)
  \/ /\ kinds = {"offices"}
     /\ \E o \in Offices : DeleteOffice(w, o)
          \/ \E n \in Names : CreateOffice(w, o, n) \/ UpdateOffice(w, o, n)
  \/ /\ kinds = {"faculty"}
     /\ \E f \in Faculty : DeleteFaculty(w, f)
          \/ \E m \in Member : CreateFaculty(w, f, m) \/ UpdateFaculty(w, f, m)
KindsInvalidated == {{"departments", "faculty"}, {"departments"}, {"offices"}, {"faculty"}}

(* A step of the directory is one of these. *)
LEMMA DirectoryCases ==
  ASSUME DirectoryNext
  PROVE  \/ \E w \in Workers :
              \/ \E k \in Kinds : StartLoad(w, k) \/ Invalidate(w, k) \/ FailToInvalidate(w, k)
              \/ QueryRows(w) \/ QueryTotal(w) \/ Store(w) \/ EndLoad(w)
              \/ \E kinds \in KindsInvalidated : Mutation(w, kinds)
         \/ \E f \in Faculty, n \in Names : UpdateProfile(f, n)
         \/ \E k \in Kinds : Expire(k)
<1>. SUFFICES ASSUME NEW w \in Workers, Mutate(w)
              PROVE  \/ \E k \in Kinds : Invalidate(w, k) \/ FailToInvalidate(w, k)
                     \/ \E kinds \in KindsInvalidated : Mutation(w, kinds)
  BY DEF DirectoryNext, Read
<1>1. CASE \E d \in Departments : DeleteDepartment(w, d) \/ \E n \in Names : UpdateDepartment(w, d, n)
  <2>1. Mutation(w, {"departments", "faculty"})
    BY <1>1 DEF Mutation
  <2>. QED
    BY <2>1 DEF KindsInvalidated
<1>2. CASE \E d \in Departments, n \in Names : CreateDepartment(w, d, n)
  <2>1. Mutation(w, {"departments"})
    BY <1>2 DEF Mutation
  <2>. QED
    BY <2>1 DEF KindsInvalidated
<1>3. CASE \E o \in Offices : DeleteOffice(w, o)
             \/ \E n \in Names : CreateOffice(w, o, n) \/ UpdateOffice(w, o, n)
  <2>1. Mutation(w, {"offices"})
    BY <1>3 DEF Mutation
  <2>. QED
    BY <2>1 DEF KindsInvalidated
<1>4. CASE \E f \in Faculty : DeleteFaculty(w, f)
             \/ \E m \in Member : CreateFaculty(w, f, m) \/ UpdateFaculty(w, f, m)
  <2>1. Mutation(w, {"faculty"})
    BY <1>4 DEF Mutation
  <2>. QED
    BY <2>1 DEF KindsInvalidated
<1>. QED
  BY <1>1, <1>2, <1>3, <1>4 DEF Mutate

-----------------------------------------------------------------------------
(***************************************************************************)
(* Rows. Every member belongs to a department that exists, and a mutation  *)
(* changes no page of a kind that it does not invalidate.                  *)
(***************************************************************************)
RowsOK ==
  /\ department \in [Departments -> Names \cup {None}]
  /\ office \in [Offices -> Names \cup {None}]
  /\ faculty \in [Faculty -> Member \cup {None}]
  /\ \A f \in Faculty : faculty[f] # None =>
       faculty[f] \in Member /\ department[faculty[f].department] # None

LEMMA MembersTyped ==
  /\ \A m \in Member : /\ m.name \in Names /\ m.position \in Positions
                       /\ m.department \in Departments /\ m.active \in BOOLEAN
                       /\ [m EXCEPT !.active = FALSE] \in Member
                       /\ [m EXCEPT !.active = FALSE].department = m.department
                       /\ ~[m EXCEPT !.active = FALSE].active
  /\ \A m \in Member, n \in Names :
       /\ [m EXCEPT !.name = n] \in Member
       /\ [m EXCEPT !.name = n].department = m.department
       /\ [m EXCEPT !.name = n].active = m.active
BY DEF Member

LEMMA ListedTyped ==
  ASSUME RowsOK, NEW k \in Kinds
  PROVE  Listed(k) \in Data
<1>1. CASE k = "departments"
  <2>1. Listed(k) = Units(department)
    BY <1>1 DEF Listed
  <2>2. Units(department) \subseteq Unit(Departments)
    BY DEF RowsOK, Units, Unit
  <2>. QED
    BY <2>1, <2>2 DEF Data
<1>2. CASE k = "offices"
  <2>1. Listed(k) = Units(office)
    BY <1>2 DEF Listed
  <2>2. Units(office) \subseteq Unit(Offices)
    BY DEF RowsOK, Units, Unit
  <2>. QED
    BY <2>1, <2>2 DEF Data
<1>3. CASE k = "faculty"
  <2>1. ASSUME NEW f \in ActiveMembers PROVE Card(f) \in Cards
    <3>1. f \in Faculty /\ faculty[f] \in Member /\ department[faculty[f].department] # None
      BY DEF RowsOK, ActiveMembers
    <3>2. /\ faculty[f].name \in Names /\ faculty[f].position \in Positions
          /\ faculty[f].department \in Departments
      BY <3>1, MembersTyped
    <3>3. department[faculty[f].department] \in Names
      BY <3>1, <3>2 DEF RowsOK
    <3>. QED
      BY <3>1, <3>2, <3>3 DEF Card, Cards
  <2>2. Listed(k) = {Card(f) : f \in ActiveMembers}
    BY <1>3 DEF Listed
  <2>3. {Card(f) : f \in ActiveMembers} \subseteq Cards
    BY <2>1
  <2>. QED
    BY <2>2, <2>3 DEF Data
<1>. QED
  BY <1>1, <1>2, <1>3 DEF Kinds

(* The total of a page is the number of its rows: each row is listed once. *)
LEMMA CountedIsListed ==
  ASSUME FiniteRows, RowsOK, NEW k \in Kinds
  PROVE  Counted(k) = Cardinality(Listed(k)) /\ Counted(k) \in Nat
<1>0. ASSUME NEW row, IsFiniteSet(DOMAIN row), \A x \in DOMAIN row : row[x].id = x
      PROVE  /\ Cardinality(DOMAIN row) = Cardinality({row[x] : x \in DOMAIN row})
             /\ Cardinality(DOMAIN row) \in Nat
  <2>. DEFINE S == DOMAIN row  T == {row[x] : x \in S}  g == [x \in S |-> row[x]]
  <2>1. g \in Bijection(S, T)
    BY <1>0 DEF Bijection, Injection, IsInjective, Surjection
  <2>2. ExistsBijection(S, T)
    BY <2>1 DEF ExistsBijection
  <2>. QED
    BY <1>0, <2>2, FS_Bijection, FS_CardinalityType
<1>1. CASE k = "departments"
  <2>. DEFINE S == {u \in Departments : department[u] # None}
              row == [u \in S |-> [id |-> u, name |-> department[u]]]
  <2>1. IsFiniteSet(S) /\ DOMAIN department = Departments
    BY FS_Subset DEF FiniteRows, RowsOK
  <2>2. DOMAIN row = S /\ \A u \in S : row[u].id = u
    OBVIOUS
  <2>3. Listed(k) = {row[u] : u \in S} /\ Counted(k) = Cardinality(S)
    BY <1>1, <2>1 DEF Counted, UnitCount, Listed, Units
  <2>. HIDE DEF S, row
  <2>. QED
    BY <1>0, <2>1, <2>2, <2>3
<1>2. CASE k = "offices"
  <2>. DEFINE S == {u \in Offices : office[u] # None}
              row == [u \in S |-> [id |-> u, name |-> office[u]]]
  <2>1. IsFiniteSet(S) /\ DOMAIN office = Offices
    BY FS_Subset DEF FiniteRows, RowsOK
  <2>2. DOMAIN row = S /\ \A u \in S : row[u].id = u
    OBVIOUS
  <2>3. Listed(k) = {row[u] : u \in S} /\ Counted(k) = Cardinality(S)
    BY <1>2, <2>1 DEF Counted, UnitCount, Listed, Units
  <2>. HIDE DEF S, row
  <2>. QED
    BY <1>0, <2>1, <2>2, <2>3
<1>3. CASE k = "faculty"
  <2>. DEFINE row == [f \in ActiveMembers |-> Card(f)]
  <2>1. IsFiniteSet(ActiveMembers) /\ DOMAIN row = ActiveMembers
    BY FS_Subset DEF FiniteRows, ActiveMembers
  <2>2. \A f \in ActiveMembers : row[f].id = f
    BY DEF Card
  <2>3. Listed(k) = {row[f] : f \in ActiveMembers} /\ Counted(k) = Cardinality(ActiveMembers)
    BY <1>3 DEF Counted, Listed
  <2>. HIDE DEF row
  <2>. QED
    BY <1>0, <2>1, <2>2, <2>3
<1>. QED
  BY <1>1, <1>2, <1>3 DEF Kinds

(* What a mutation does to the rows and to the pages they appear on. *)
LEMMA MutationOfRows ==
  ASSUME RowsOK, NEW w \in Workers, NEW kinds, Mutation(w, kinds)
  PROVE  /\ RowsOK'
         /\ \A k \in Kinds \ kinds : Listed(k)' = Listed(k)
         /\ Commit /\ ThenInvalidate(w, kinds)
         /\ kinds \subseteq Kinds /\ kinds # {}
<1>. DEFINE Goal == /\ RowsOK'
                    /\ \A k \in Kinds \ kinds : Listed(k)' = Listed(k)
                    /\ Commit /\ ThenInvalidate(w, kinds)
                    /\ kinds \subseteq Kinds /\ kinds # {}
<1>0. /\ department' = department => Listed("departments")' = Listed("departments")
      /\ office' = office => Listed("offices")' = Listed("offices")
  BY DEF Listed, Units
<1>1. ASSUME NEW d \in Departments, NEW n, n = None \/ n \in Names,
             department' = [department EXCEPT ![d] = n], UNCHANGED <<office, faculty>>,
             \A f \in AllMembers : faculty[f].department # d
      PROVE  RowsOK' /\ Listed("faculty")' = Listed("faculty")
  <2>1. \A f \in Faculty : faculty[f] # None =>
          /\ faculty[f] \in Member /\ faculty[f].department \in Departments
          /\ department'[faculty[f].department] = department[faculty[f].department]
    BY <1>1, MembersTyped DEF RowsOK, AllMembers
  <2>2. RowsOK'
    BY <1>1, <2>1 DEF RowsOK
  <2>3. ActiveMembers' = ActiveMembers
    BY <1>1 DEF ActiveMembers
  <2>4. \A f \in ActiveMembers : Card(f)' = Card(f)
    BY <1>1, <2>1 DEF ActiveMembers, Card
  <2>. QED
    BY <2>2, <2>3, <2>4 DEF Listed
<1>2. ASSUME NEW d \in Departments, NEW n \in Names, department[d] = None,
             department' = [department EXCEPT ![d] = n], UNCHANGED <<office, faculty>>
      PROVE  RowsOK' /\ Listed("faculty")' = Listed("faculty")
  <2>1. \A f \in AllMembers : faculty[f].department # d
    BY <1>2 DEF RowsOK, AllMembers
  <2>. QED
    BY <1>1, <1>2, <2>1
<1>3. ASSUME NEW f \in Faculty, NEW m \in Member, department[m.department] # None,
             faculty' = [faculty EXCEPT ![f] = m], UNCHANGED <<department, office>>
      PROVE  RowsOK'
  BY <1>3 DEF RowsOK
<1>4. ASSUME NEW d \in Departments, DeleteDepartment(w, d), kinds = {"departments", "faculty"}
      PROVE  Goal
  BY <1>0, <1>1, <1>4 DEF DeleteDepartment, Kinds
<1>5. ASSUME NEW d \in Departments, NEW n \in Names, UpdateDepartment(w, d, n),
             kinds = {"departments", "faculty"}
      PROVE  Goal
  <2>1. RowsOK'
    BY <1>5, MembersTyped DEF RowsOK, UpdateDepartment
  <2>. QED
    BY <1>0, <1>5, <2>1 DEF UpdateDepartment, Kinds
<1>6. ASSUME NEW d \in Departments, NEW n \in Names, CreateDepartment(w, d, n),
             kinds = {"departments"}
      PROVE  Goal
  BY <1>0, <1>2, <1>6 DEF CreateDepartment, Kinds
<1>7. ASSUME NEW o \in Offices, NEW n, n = None \/ n \in Names, WriteOffice(w, o, n),
             kinds = {"offices"}
      PROVE  Goal
  <2>1. UNCHANGED <<department, faculty>> /\ office' = [office EXCEPT ![o] = n]
        /\ Commit /\ ThenInvalidate(w, kinds)
    BY <1>7 DEF WriteOffice
  <2>2. RowsOK'
    BY <1>7, <2>1 DEF RowsOK
  <2>3. Listed("faculty")' = Listed("faculty")
    BY <2>1 DEF Listed, ActiveMembers, Card
  <2>. QED
    BY <1>0, <1>7, <2>1, <2>2, <2>3 DEF Kinds
<1>8. ASSUME NEW f \in Faculty, NEW m \in Member, department[m.department] # None,
             WriteMember(w, f, m), kinds = {"faculty"}
      PROVE  Goal
  BY <1>0, <1>3, <1>8 DEF WriteMember, Kinds
<1>9. ASSUME NEW f \in Faculty, DeleteFaculty(w, f), kinds = {"faculty"} PROVE Goal
  <2>. DEFINE m == [faculty[f] EXCEPT !.active = FALSE]
  <2>1. m \in Member /\ department[m.department] # None
    BY <1>9, MembersTyped DEF DeleteFaculty, RowsOK
  <2>2. WriteMember(w, f, m)
    BY <1>9 DEF DeleteFaculty
  <2>. HIDE DEF m
  <2>. QED
    BY <1>8, <1>9, <2>1, <2>2
<1>. HIDE DEF Goal
<1>10. Goal
  <2>1. CASE kinds = {"departments", "faculty"}
             /\ \E d \in Departments : DeleteDepartment(w, d) \/ \E n \in Names : UpdateDepartment(w, d, n)
    BY <1>4, <1>5, <2>1
  <2>2. CASE kinds = {"departments"} /\ \E d \in Departments, n \in Names : CreateDepartment(w, d, n)
    BY <1>6, <2>2
  <2>3. CASE kinds = {"offices"}
             /\ \E o \in Offices : DeleteOffice(w, o)
                  \/ \E n \in Names : CreateOffice(w, o, n) \/ UpdateOffice(w, o, n)
    BY <1>7, <2>3 DEF DeleteOffice, CreateOffice, UpdateOffice
  <2>4. CASE kinds = {"faculty"}
             /\ \E f \in Faculty : DeleteFaculty(w, f)
                  \/ \E m \in Member : CreateFaculty(w, f, m) \/ UpdateFaculty(w, f, m)
    BY <1>8, <1>9, <2>4 DEF CreateFaculty, UpdateFaculty
  <2>. QED
    BY <2>1, <2>2, <2>3, <2>4 DEF Mutation
<1>. QED
  BY <1>10 DEF Goal

LEMMA ProfileOfRows ==
  ASSUME RowsOK, NEW f \in Faculty, NEW n \in Names, UpdateProfile(f, n)
  PROVE  RowsOK' /\ \A k \in Kinds \ {"faculty"} : Listed(k)' = Listed(k)
<1>. DEFINE m == [faculty[f] EXCEPT !.name = n]
<1>1. m \in Member /\ m.department = faculty[f].department /\ department[m.department] # None
  BY MembersTyped DEF RowsOK, UpdateProfile
<1>2. UNCHANGED <<department, office>> /\ faculty' = [faculty EXCEPT ![f] = m]
  BY DEF UpdateProfile, RowsOK
<1>. HIDE DEF m
<1>. QED
  BY <1>1, <1>2 DEF RowsOK, Listed, Units, Kinds

-----------------------------------------------------------------------------
(***************************************************************************)
(* Pages. What a load that no mutation has overtaken has read is what the  *)
(* rows still are, so the page it stores is of one moment.                 *)
(***************************************************************************)
LoadIsCurrent(w) ==
  job[w].op = "load" /\ w \notin overtaken =>
    /\ job[w].data # None => job[w].data = Listed(job[w].kind)
    /\ job[w].total # None => job[w].total = Counted(job[w].kind)
LoadsAreCurrent == \A w \in Workers : LoadIsCurrent(w)
PagesInv == DirectoryTypeOK /\ RowsOK /\ LoadsAreCurrent /\ PagesAreExplained

(* The jobs of the directory. *)
LEMMA JobsTyped ==
  /\ Idle.op = "idle" /\ Idle \notin Load \cup Invalidation
  /\ \A j \in Load : /\ j.op = "load" /\ j.kind \in Kinds /\ j.data \in Data \cup {None}
                     /\ j.total \in Nat \cup {None}
                     /\ \A x \in Data : LET i == [j EXCEPT !.data = x] IN
                          i \in Load /\ i.kind = j.kind /\ i.data = x /\ i.total = j.total
                     /\ \A x \in Nat : LET i == [j EXCEPT !.total = x] IN
                          i \in Load /\ i.kind = j.kind /\ i.data = j.data /\ i.total = x
  /\ \A j \in Invalidation : /\ j.op = "invalidate" /\ j.kinds \subseteq Kinds
                             /\ \A K \in SUBSET Kinds : LET i == [j EXCEPT !.kinds = K] IN
                                  i \in Invalidation /\ i.kinds = K
  /\ \A k \in Kinds : [op |-> "load", kind |-> k, data |-> None, total |-> None] \in Load
  /\ \A K \in SUBSET Kinds : [op |-> "invalidate", kinds |-> K] \in Invalidation
<1>. HIDE DEF Data, Kinds
<1>. QED
  BY DEF Idle, Load, Invalidation

LEMMA JobOf ==
  ASSUME DirectoryTypeOK, NEW w \in Workers
  PROVE  /\ job[w].op = "idle" => job[w] = Idle
         /\ job[w].op = "load" => job[w] \in Load
         /\ job[w].op = "invalidate" => job[w] \in Invalidation
BY JobsTyped DEF DirectoryTypeOK

(* A step of one worker that leaves the rows alone. *)
LEMMA JobStep ==
  ASSUME PagesInv, NEW w \in Workers, NEW j \in {Idle} \cup Load \cup Invalidation,
         job' = [job EXCEPT ![w] = j], UNCHANGED <<rows, commits>>,
         overtaken' = overtaken \/ (overtaken' = overtaken \ {w} /\ j = Idle),
         cache' \in [Kinds -> Page \cup {None}], missed' \subseteq Kinds,
         j.op = "load" /\ w \notin overtaken =>
           /\ j.data # None => j.data = Listed(j.kind)
           /\ j.total # None => j.total = Counted(j.kind)
  PROVE  DirectoryTypeOK' /\ RowsOK' /\ LoadsAreCurrent'
<1>0. job \in [Workers -> {Idle} \cup Load \cup Invalidation] /\ RowsOK /\ LoadsAreCurrent
  BY DEF PagesInv, DirectoryTypeOK
<1>1. DirectoryTypeOK' /\ RowsOK'
  BY DEF PagesInv, DirectoryTypeOK, RowsOK, rows
<1>2. \A k : Listed(k)' = Listed(k) /\ Counted(k)' = Counted(k)
  BY DEF rows, Listed, Counted, UnitCount, Units, ActiveMembers, Card
<1>3. ASSUME NEW v \in Workers PROVE LoadIsCurrent(v)'
  <2>1. CASE v = w
    <3>1. job'[v] = j
      BY <1>0, <2>1
    <3>2. j.op = "load" => overtaken' = overtaken
      BY JobsTyped
    <3>. QED
      BY <1>2, <2>1, <3>1, <3>2 DEF LoadIsCurrent
  <2>2. CASE v # w
    BY <1>0, <1>2, <2>2 DEF LoadIsCurrent, LoadsAreCurrent
  <2>. QED
    BY <2>1, <2>2
<1>. QED
  BY <1>1, <1>3 DEF LoadsAreCurrent

(* Pages after such a step: an invalidation still pending explains what it *)
(* did before.                                                             *)
LEMMA PageKept ==
  ASSUME PagesAreExplained, UNCHANGED rows, NEW k \in Kinds,
         cache'[k] = cache[k], Pending(k) => Pending(k)', k \in missed => k \in missed'
  PROVE  cache'[k] # None =>
           /\ cache'[k].data # Listed(k)' => Pending(k)' \/ cache'[k].overtaken \/ k \in missed'
           /\ ~cache'[k].overtaken => cache'[k].total = Cardinality(cache'[k].data)
<1>1. Listed(k)' = Listed(k)
  BY DEF rows, Listed, Units, ActiveMembers, Card
<1>. QED
  BY <1>1 DEF PagesAreExplained

LEMMA LoadSteps ==
  ASSUME FiniteRows, PagesInv, NEW w \in Workers,
         \/ \E k \in Kinds : StartLoad(w, k)
         \/ QueryRows(w) \/ QueryTotal(w) \/ Store(w) \/ EndLoad(w)
  PROVE  PagesInv'
<1>0. /\ job \in [Workers -> {Idle} \cup Load \cup Invalidation]
      /\ cache \in [Kinds -> Page \cup {None}] /\ missed \subseteq Kinds
      /\ LoadIsCurrent(w) /\ PagesAreExplained /\ RowsOK /\ DirectoryTypeOK
      /\ \A k \in Kinds : Listed(k) \in Data
                          /\ Counted(k) = Cardinality(Listed(k)) /\ Counted(k) \in Nat
  BY ListedTyped, CountedIsListed DEF PagesInv, DirectoryTypeOK, LoadsAreCurrent
<1>1. ASSUME NEW j \in {Idle} \cup Load, job' = [job EXCEPT ![w] = j], job[w].op # "invalidate",
             UNCHANGED rows
      PROVE  /\ \A k \in Kinds : Pending(k) => Pending(k)'
             /\ UNCHANGED <<cache, missed>> => PagesAreExplained'
  <2>1. ASSUME NEW k \in Kinds, Pending(k) PROVE Pending(k)'
    BY <1>0, <1>1, <2>1 DEF Pending
  <2>. QED
    BY <1>0, <2>1, PageKept, <1>1 DEF PagesAreExplained
<1>2. ASSUME NEW j \in {Idle} \cup Load, job' = [job EXCEPT ![w] = j], job[w].op # "invalidate",
             UNCHANGED <<rows, cache, commits, missed>>,
             overtaken' = overtaken \/ (overtaken' = overtaken \ {w} /\ j = Idle),
             j.op = "load" /\ w \notin overtaken =>
               /\ j.data # None => j.data = Listed(j.kind)
               /\ j.total # None => j.total = Counted(j.kind)
      PROVE  PagesInv'
  <2>1. PagesAreExplained'
    BY <1>1, <1>2
  <2>2. DirectoryTypeOK' /\ RowsOK' /\ LoadsAreCurrent'
    BY <1>0, <1>2, JobStep
  <2>. QED
    BY <2>1, <2>2 DEF PagesInv
<1>3. ASSUME NEW k \in Kinds, StartLoad(w, k) PROVE PagesInv'
  <2>. DEFINE j == [op |-> "load", kind |-> k, data |-> None, total |-> None]
  <2>1. j \in Load /\ j.data = None /\ j.total = None /\ job[w].op # "invalidate"
    BY <1>3, JobsTyped DEF StartLoad, Idle
  <2>2. job' = [job EXCEPT ![w] = j] /\ UNCHANGED <<rows, cache, commits, missed, overtaken>>
    BY <1>3 DEF StartLoad, history
  <2>. HIDE DEF j
  <2>. QED
    BY <1>2, <2>1, <2>2
<1>4. CASE QueryRows(w)
  <2>. DEFINE x == Listed(job[w].kind)  j == [job[w] EXCEPT !.data = x]
  <2>1. job[w] \in Load /\ job[w].kind \in Kinds /\ x \in Data /\ job[w].op = "load"
    BY <1>0, <1>4, JobOf, JobsTyped DEF QueryRows
  <2>2. j \in Load /\ j.kind = job[w].kind /\ j.data = x /\ j.total = job[w].total
    BY <2>1, JobsTyped
  <2>3. job' = [job EXCEPT ![w] = j] /\ UNCHANGED <<rows, cache, commits, missed, overtaken>>
    BY <1>0, <1>4 DEF QueryRows, history
  <2>. HIDE DEF j
  <2>. QED
    BY <1>0, <1>2, <2>1, <2>2, <2>3 DEF LoadIsCurrent
<1>5. CASE QueryTotal(w)
  <2>. DEFINE x == Counted(job[w].kind)  j == [job[w] EXCEPT !.total = x]
  <2>1. job[w] \in Load /\ job[w].kind \in Kinds /\ x \in Nat /\ job[w].op = "load"
    BY <1>0, <1>5, JobOf, JobsTyped DEF QueryTotal
  <2>2. j \in Load /\ j.kind = job[w].kind /\ j.data = job[w].data /\ j.total = x
    BY <2>1, JobsTyped
  <2>3. job' = [job EXCEPT ![w] = j] /\ UNCHANGED <<rows, cache, commits, missed, overtaken>>
    BY <1>0, <1>5 DEF QueryTotal, history
  <2>. HIDE DEF j
  <2>. QED
    BY <1>0, <1>2, <2>1, <2>2, <2>3 DEF LoadIsCurrent
<1>6. CASE Store(w)
  <2>0. PICK k : k = job[w].kind
    OBVIOUS
  <2>. DEFINE page == [data |-> job[w].data, total |-> job[w].total, overtaken |-> w \in overtaken]
  <2>1. /\ job[w] \in Load /\ k \in Kinds /\ job[w].op = "load"
        /\ job[w].data \in Data /\ job[w].total \in Nat
        /\ job[w].data # None /\ job[w].total # None
    BY <1>0, <1>6, <2>0, JobOf, JobsTyped DEF Store, Loaded
  <2>2. /\ page \in Page /\ page.data = job[w].data /\ page.total = job[w].total
        /\ page.overtaken = (w \in overtaken)
    BY <2>1 DEF Page
  <2>3. /\ cache' = [cache EXCEPT ![k] = page] /\ missed' = missed \ {k}
        /\ job' = [job EXCEPT ![w] = Idle] /\ overtaken' = overtaken \ {w}
        /\ UNCHANGED <<rows, commits>>
    BY <1>6, <2>0 DEF Store
  <2>4. w \notin overtaken => page.data = Listed(k) /\ page.total = Cardinality(page.data)
    BY <1>0, <2>0, <2>1, <2>2 DEF LoadIsCurrent
  <2>5. Listed(k)' = Listed(k)
    BY <2>3 DEF rows, Listed, Units, ActiveMembers, Card
  <2>. HIDE DEF page
  <2>6. ASSUME NEW l \in Kinds
        PROVE  cache'[l] # None =>
                 /\ cache'[l].data # Listed(l)' => Pending(l)' \/ cache'[l].overtaken \/ l \in missed'
                 /\ ~cache'[l].overtaken => cache'[l].total = Cardinality(cache'[l].data)
    <3>1. CASE l = k
      <4>1. cache'[l] = page
        BY <1>0, <2>1, <2>3, <3>1
      <4>2. Listed(l)' = Listed(k)
        BY <2>5, <3>1
      <4>. QED
        BY <2>2, <2>4, <4>1, <4>2
    <3>2. CASE l # k
      <4>1. Pending(l) => Pending(l)'
        BY <1>1, <2>1, <2>3
      <4>. QED
        BY <1>0, <2>3, <3>2, <4>1, PageKept
    <3>. QED
      BY <3>1, <3>2
  <2>7. cache' \in [Kinds -> Page \cup {None}] /\ missed' \subseteq Kinds
    BY <1>0, <2>1, <2>2, <2>3
  <2>8. DirectoryTypeOK' /\ RowsOK' /\ LoadsAreCurrent'
    BY <2>3, <2>7, JobStep, JobsTyped
  <2>. QED
    BY <2>6, <2>8 DEF PagesInv, PagesAreExplained
<1>7. CASE EndLoad(w)
  <2>1. job' = [job EXCEPT ![w] = Idle] /\ overtaken' = overtaken \ {w} /\ job[w].op = "load"
        /\ UNCHANGED <<rows, cache, commits, missed>>
    BY <1>7 DEF EndLoad
  <2>. QED
    BY <1>2, <2>1, JobsTyped
<1>. QED
  BY <1>3, <1>4, <1>5, <1>6, <1>7

LEMMA InvalidationSteps ==
  ASSUME PagesInv, NEW w \in Workers, NEW k \in Kinds, Invalidate(w, k) \/ FailToInvalidate(w, k)
  PROVE  PagesInv'
<1>0. /\ job \in [Workers -> {Idle} \cup Load \cup Invalidation] /\ DirectoryTypeOK
      /\ cache \in [Kinds -> Page \cup {None}] /\ missed \subseteq Kinds /\ PagesAreExplained
  BY DEF PagesInv, DirectoryTypeOK
<1>. DEFINE rest == job[w].kinds \ {k}
            j == IF rest = {} THEN Idle ELSE [job[w] EXCEPT !.kinds = rest]
<1>1. job[w] \in Invalidation /\ job[w].kinds \subseteq Kinds /\ job[w].op = "invalidate"
  BY <1>0, JobOf, JobsTyped DEF Invalidate, FailToInvalidate
<1>2. /\ j \in {Idle} \cup Invalidation
      /\ rest # {} => j.op = "invalidate" /\ j.kinds = rest
  <2>1. rest \in SUBSET Kinds
    BY <1>1
  <2>2. LET i == [job[w] EXCEPT !.kinds = rest] IN
          i \in Invalidation /\ i.kinds = rest /\ i.op = "invalidate"
    <3>. HIDE DEF rest
    <3>. QED
      BY <1>1, <2>1, JobsTyped
  <2>. QED
    BY <2>2
<1>3. job' = [job EXCEPT ![w] = j] /\ UNCHANGED <<rows, commits, overtaken>>
  BY <1>0 DEF Invalidate, FailToInvalidate, Done
<1>. HIDE DEF j
<1>4. ASSUME NEW l \in Kinds, l # k, Pending(l) PROVE Pending(l)'
  <2>1. PICK v \in Workers : job[v].op = "invalidate" /\ l \in job[v].kinds
    BY <1>4 DEF Pending
  <2>2. job'[v].op = "invalidate" /\ l \in job'[v].kinds
    BY <1>0, <1>2, <1>3, <1>4, <2>1
  <2>. QED
    BY <2>2 DEF Pending
<1>5. /\ cache' \in [Kinds -> Page \cup {None}] /\ missed' \subseteq Kinds
      /\ \A l \in Kinds : l # k => cache'[l] = cache[l] /\ (l \in missed => l \in missed')
      /\ cache'[k] = None \/ (cache'[k] = cache[k] /\ k \in missed')
  BY <1>0 DEF Invalidate, FailToInvalidate, Remove
<1>6. j.op # "load"
  BY <1>2, JobsTyped
<1>7. DirectoryTypeOK' /\ RowsOK' /\ LoadsAreCurrent'
  BY <1>2, <1>3, <1>5, <1>6, JobStep
<1>8. ASSUME NEW l \in Kinds
      PROVE  cache'[l] # None =>
               /\ cache'[l].data # Listed(l)' => Pending(l)' \/ cache'[l].overtaken \/ l \in missed'
               /\ ~cache'[l].overtaken => cache'[l].total = Cardinality(cache'[l].data)
  <2>1. CASE l # k
    BY <1>0, <1>3, <1>4, <1>5, <2>1, PageKept
  <2>2. CASE l = k
    BY <1>0, <1>5, <2>2 DEF PagesAreExplained
  <2>. QED
    BY <2>1, <2>2
<1>. QED
  BY <1>7, <1>8 DEF PagesInv, PagesAreExplained

(* A mutation, and a member's edit of their own profile: loads under way   *)
(* are overtaken, and every page that changes is invalidated or missed.    *)
LEMMA CommitSteps ==
  ASSUME PagesInv,
         \/ \E w \in Workers, kinds \in KindsInvalidated : Mutation(w, kinds)
         \/ \E f \in Faculty, n \in Names : UpdateProfile(f, n)
  PROVE  PagesInv'
<1>0. /\ job \in [Workers -> {Idle} \cup Load \cup Invalidation] /\ DirectoryTypeOK /\ RowsOK
      /\ cache \in [Kinds -> Page \cup {None}] /\ missed \subseteq Kinds /\ PagesAreExplained
      /\ commits \in 0..MaxCommits /\ overtaken \subseteq Workers
  BY DEF PagesInv, DirectoryTypeOK
<1>1. ASSUME Commit
      PROVE  /\ commits' \in 0..MaxCommits /\ overtaken' \subseteq Workers
             /\ \A w \in Workers : job[w].op = "load" => w \in overtaken'
  <2>1. commits + 1 \in 0..MaxCommits
    BY <1>0, <1>1 DEF Commit
  <2>. QED
    BY <1>0, <1>1, <2>1 DEF Commit
<1>2. ASSUME NEW w \in Workers, NEW kinds, Mutation(w, kinds) PROVE PagesInv'
  <2>. DEFINE j == [op |-> "invalidate", kinds |-> kinds]
  <2>1. /\ RowsOK' /\ Commit /\ UNCHANGED <<cache, missed>>
        /\ \A k \in Kinds \ kinds : Listed(k)' = Listed(k)
        /\ kinds \subseteq Kinds /\ job[w] = Idle /\ job' = [job EXCEPT ![w] = j]
    BY <1>0, <1>2, MutationOfRows DEF ThenInvalidate
  <2>2. j \in Invalidation /\ j.op = "invalidate" /\ j.kinds = kinds
    BY <2>1, JobsTyped
  <2>. HIDE DEF j
  <2>3. job' \in [Workers -> {Idle} \cup Load \cup Invalidation]
    BY <1>0, <2>1, <2>2
  <2>4. DirectoryTypeOK'
    BY <1>0, <1>1, <2>1, <2>3 DEF DirectoryTypeOK, RowsOK
  <2>5. ASSUME NEW v \in Workers PROVE LoadIsCurrent(v)'
    <3>1. job'[v].op = "load" => v \in overtaken'
      BY <1>0, <1>1, <2>1, <2>2
    <3>. QED
      BY <3>1 DEF LoadIsCurrent
  <2>6. ASSUME NEW k \in Kinds
        PROVE  cache'[k] # None =>
                 /\ cache'[k].data # Listed(k)' => Pending(k)' \/ cache'[k].overtaken \/ k \in missed'
                 /\ ~cache'[k].overtaken => cache'[k].total = Cardinality(cache'[k].data)
    <3>1. CASE k \in kinds
      <4>1. job'[w].op = "invalidate" /\ k \in job'[w].kinds
        BY <1>0, <2>1, <2>2, <3>1
      <4>2. Pending(k)'
        BY <4>1 DEF Pending
      <4>. QED
        BY <1>0, <2>1, <4>2 DEF PagesAreExplained
    <3>2. CASE k \notin kinds
      <4>1. ASSUME Pending(k) PROVE Pending(k)'
        <5>1. PICK v \in Workers : job[v].op = "invalidate" /\ k \in job[v].kinds
          BY <4>1 DEF Pending
        <5>2. job'[v].op = "invalidate" /\ k \in job'[v].kinds
          BY <1>0, <2>1, <5>1, JobsTyped
        <5>. QED
          BY <5>2 DEF Pending
      <4>. QED
        BY <1>0, <2>1, <3>2, <4>1 DEF PagesAreExplained
    <3>. QED
      BY <3>1, <3>2
  <2>. QED
    BY <2>1, <2>4, <2>5, <2>6 DEF PagesInv, LoadsAreCurrent, PagesAreExplained
<1>3. ASSUME NEW f \in Faculty, NEW n \in Names, UpdateProfile(f, n) PROVE PagesInv'
  <2>1. /\ RowsOK' /\ Commit /\ UNCHANGED <<cache, job>>
        /\ \A k \in Kinds \ {"faculty"} : Listed(k)' = Listed(k)
        /\ missed' = IF cache["faculty"] # None THEN missed \cup {"faculty"} ELSE missed
    BY <1>0, <1>3, ProfileOfRows DEF UpdateProfile
  <2>2. missed \subseteq missed' /\ missed' \subseteq Kinds
    BY <1>0, <2>1 DEF Kinds
  <2>3. DirectoryTypeOK'
    BY <1>0, <1>1, <2>1, <2>2 DEF DirectoryTypeOK, RowsOK
  <2>4. ASSUME NEW v \in Workers PROVE LoadIsCurrent(v)'
    BY <1>1, <2>1 DEF LoadIsCurrent
  <2>5. ASSUME NEW k \in Kinds
        PROVE  cache'[k] # None =>
                 /\ cache'[k].data # Listed(k)' => Pending(k)' \/ cache'[k].overtaken \/ k \in missed'
                 /\ ~cache'[k].overtaken => cache'[k].total = Cardinality(cache'[k].data)
    <3>1. Pending(k)' = Pending(k)
      BY <2>1 DEF Pending
    <3>. QED
      BY <1>0, <2>1, <2>2, <3>1 DEF PagesAreExplained
  <2>. QED
    BY <2>1, <2>3, <2>4, <2>5 DEF PagesInv, LoadsAreCurrent, PagesAreExplained
<1>. QED
  BY <1>2, <1>3

LEMMA ExpireSteps ==
  ASSUME PagesInv, NEW k \in Kinds, Expire(k)
  PROVE  PagesInv'
<1>1. /\ cache \in [Kinds -> Page \cup {None}] /\ missed \subseteq Kinds /\ PagesAreExplained
      /\ cache' = [cache EXCEPT ![k] = None] /\ missed' = missed \ {k}
      /\ UNCHANGED <<rows, job, commits, overtaken>>
  BY DEF PagesInv, DirectoryTypeOK, Expire, Remove
<1>2. DirectoryTypeOK' /\ RowsOK'
  BY <1>1 DEF PagesInv, DirectoryTypeOK, RowsOK, rows
<1>3. \A l : Listed(l)' = Listed(l) /\ Counted(l)' = Counted(l)
  BY <1>1 DEF rows, Listed, Counted, UnitCount, Units, ActiveMembers, Card
<1>4. LoadsAreCurrent'
  BY <1>1, <1>3 DEF PagesInv, LoadsAreCurrent, LoadIsCurrent
<1>5. ASSUME NEW l \in Kinds
      PROVE  cache'[l] # None =>
               /\ cache'[l].data # Listed(l)' => Pending(l)' \/ cache'[l].overtaken \/ l \in missed'
               /\ ~cache'[l].overtaken => cache'[l].total = Cardinality(cache'[l].data)
  <2>1. Pending(l)' = Pending(l)
    BY <1>1 DEF Pending
  <2>2. l # k => cache'[l] = cache[l] /\ (l \in missed => l \in missed')
    BY <1>1
  <2>3. l = k => cache'[l] = None
    BY <1>1
  <2>. QED
    BY <1>1, <2>1, <2>2, <2>3, PageKept
<1>. QED
  BY <1>2, <1>4, <1>5 DEF PagesInv, PagesAreExplained

LEMMA PagesInductive ==
  ASSUME FiniteRows
  PROVE  Spec => []PagesInv
<1>1. Init => PagesInv
  <2>. SUFFICES ASSUME Init PROVE PagesInv
    OBVIOUS
  <2>1. DirectoryInit
    BY DEF Init
  <2>2. RowsOK
    BY <2>1 DEF DirectoryInit, RowsOK, AllMembers
  <2>3. DirectoryTypeOK
    BY <2>1 DEF DirectoryInit, DirectoryTypeOK
  <2>4. LoadsAreCurrent /\ PagesAreExplained
    BY <2>1 DEF DirectoryInit, LoadsAreCurrent, LoadIsCurrent, PagesAreExplained, Idle
  <2>. QED
    BY <2>2, <2>3, <2>4 DEF PagesInv
<1>2. PagesInv /\ [Next]_vars => PagesInv'
  <2>. SUFFICES ASSUME PagesInv, [Next]_vars PROVE PagesInv'
    OBVIOUS
  <2>1. CASE UNCHANGED directoryVars
    <3>1. UNCHANGED <<department, office, faculty, cache, job, commits, overtaken, missed>>
      BY <2>1 DEF directoryVars, rows, history
    <3>2. \A k : Listed(k)' = Listed(k) /\ Counted(k)' = Counted(k) /\ Pending(k)' = Pending(k)
      BY <3>1 DEF Listed, Counted, UnitCount, Units, ActiveMembers, Card, Pending
    <3>. QED
      BY <3>1, <3>2 DEF PagesInv, DirectoryTypeOK, RowsOK, LoadsAreCurrent, LoadIsCurrent,
                        PagesAreExplained
  <2>2. CASE DirectoryNext
    BY <2>2, DirectoryCases, LoadSteps, InvalidationSteps, CommitSteps, ExpireSteps
  <2>. QED
    BY <2>1, <2>2 DEF Next, vars
<1>. QED
  BY <1>1, <1>2, PTL DEF Spec

(* A cached page that differs from the rows has one of the known causes,   *)
(* and its rows and total are of one moment unless a mutation overtook its *)
(* load (cacheGetOrSet, invalidateCachePattern and their callers).         *)
THEOREM StalePagesAreExplained ==
  ASSUME FiniteRows
  PROVE  Spec => []PagesAreExplained
BY PagesInductive, PTL DEF PagesInv

-----------------------------------------------------------------------------
(***************************************************************************)
(* Sessions. The time for which an answer is still kept and the time since *)
(* the last acceptance add up to the time to live at most; the account of  *)
(* every token and of every login has a row, which never goes and, once    *)
(* inactive, stays so; and nothing is known or asked about an ended token  *)
(* that could let it in again.                                             *)
(***************************************************************************)
TokenTypes ==
  /\ token \in [Tokens -> Claim \cup {None}]
  /\ left \in [Tokens -> 0..TTL] /\ quiet \in [Tokens -> 0..TTL]
  /\ check \in [Checks -> Check]
  /\ ended \subseteq Tokens
ClocksAgree == \A t \in Tokens : left[t] + quiet[t] <= TTL
AccountsExist ==
  /\ \A t \in Tokens : token[t] # None => token[t] \in Claim /\ faculty[token[t].user] # None
  /\ \A c \in Checks :
       /\ check[c].op = "login" => faculty[check[c].claim.user] # None
       /\ check[c].op = "lookup" => token[check[c].token] # None
EndedFor(t) ==
  /\ token[t] # None /\ ~Active(t) /\ left[t] = 0
  /\ \A c \in Checks : LookedUp(c, t) => ~check[c].valid
SessionInv == RowsOK /\ TokenTypes /\ ClocksAgree /\ AccountsExist /\ \A t \in ended : EndedFor(t)

LEMMA ChecksTyped ==
  /\ NoCheck \in Check /\ NoCheck.op = "idle"
  /\ \A x \in Claim : LET i == [op |-> "login", claim |-> x] IN
       i \in Check /\ i.op = "login" /\ i.claim = x
  /\ \A t \in Tokens, b \in BOOLEAN : LET i == [op |-> "lookup", token |-> t, valid |-> b] IN
       i \in Check /\ i.op = "lookup" /\ i.token = t /\ i.valid = b
  /\ \A i \in Check : /\ i.op = "login" => i.claim \in Claim
                      /\ i.op = "lookup" => i.token \in Tokens /\ i.valid \in BOOLEAN
                      /\ i.op = "idle" => i = NoCheck
  /\ \A x \in Claim : x.user \in Faculty /\ x.role \in Positions
<1>1. \A x \in Claim : x.user \in Faculty /\ x.role \in Positions
  BY DEF Claim
<1>2. /\ NoCheck \in Check /\ NoCheck.op = "idle"
      /\ \A x \in Claim : LET i == [op |-> "login", claim |-> x] IN
           i \in Check /\ i.op = "login" /\ i.claim = x
      /\ \A t \in Tokens, b \in BOOLEAN : LET i == [op |-> "lookup", token |-> t, valid |-> b] IN
           i \in Check /\ i.op = "lookup" /\ i.token = t /\ i.valid = b
      /\ \A i \in Check : /\ i.op = "login" => i.claim \in Claim
                          /\ i.op = "lookup" => i.token \in Tokens /\ i.valid \in BOOLEAN
                          /\ i.op = "idle" => i = NoCheck
  BY DEF NoCheck, Check
<1>. QED
  BY <1>1, <1>2

(* No step removes a member's row, or makes an inactive member active. *)
LEMMA MembersStay ==
  ASSUME RowsOK, DirectoryNext
  PROVE  /\ RowsOK'
         /\ \A f \in Faculty : faculty[f] # None =>
              faculty'[f] # None /\ (~faculty[f].active => ~faculty'[f].active)
<1>. DEFINE Stay == \A f \in Faculty : faculty[f] # None =>
                      faculty'[f] # None /\ (~faculty[f].active => ~faculty'[f].active)
<1>1. ASSUME UNCHANGED rows PROVE RowsOK' /\ Stay
  BY <1>1 DEF RowsOK, rows
<1>2. ASSUME NEW f \in Faculty, NEW m \in Member, faculty' = [faculty EXCEPT ![f] = m],
             faculty[f] # None => (~faculty[f].active => ~m.active)
      PROVE  Stay
  BY <1>2 DEF RowsOK
<1>3. ASSUME NEW w \in Workers, NEW kinds, Mutation(w, kinds) PROVE RowsOK' /\ Stay
  <2>1. RowsOK'
    BY <1>3, MutationOfRows
  <2>2. faculty' = faculty => Stay
    OBVIOUS
  <2>3. ASSUME NEW f \in Faculty, DeleteFaculty(w, f) PROVE Stay
    <3>1. [faculty[f] EXCEPT !.active = FALSE] \in Member
          /\ ~[faculty[f] EXCEPT !.active = FALSE].active
      BY <2>3, MembersTyped DEF DeleteFaculty, RowsOK
    <3>. QED
      BY <1>2, <2>3, <3>1 DEF DeleteFaculty, WriteMember
  <2>4. ASSUME NEW f \in Faculty, NEW m \in Member, CreateFaculty(w, f, m) \/ UpdateFaculty(w, f, m)
        PROVE  Stay
    BY <1>2, <2>4 DEF CreateFaculty, UpdateFaculty, WriteMember
  <2>. HIDE DEF Stay
  <2>. QED
    BY <1>3, <2>1, <2>2, <2>3, <2>4 DEF Mutation, DeleteDepartment, UpdateDepartment,
       CreateDepartment, DeleteOffice, CreateOffice, UpdateOffice, WriteOffice
<1>4. ASSUME NEW f \in Faculty, NEW n \in Names, UpdateProfile(f, n) PROVE RowsOK' /\ Stay
  <2>. DEFINE m == [faculty[f] EXCEPT !.name = n]
  <2>1. m \in Member /\ m.active = faculty[f].active /\ faculty' = [faculty EXCEPT ![f] = m]
    BY <1>4, MembersTyped DEF RowsOK, UpdateProfile
  <2>. HIDE DEF m
  <2>. QED
    BY <1>2, <1>4, <2>1, ProfileOfRows
<1>. HIDE DEF Stay
<1>5. RowsOK' /\ Stay
  BY <1>1, <1>3, <1>4, DirectoryCases DEF StartLoad, QueryRows, QueryTotal, Store, EndLoad, Expire,
     Invalidate, FailToInvalidate
<1>. QED
  BY <1>5 DEF Stay

LEMMA SessionInductive == Spec => []SessionInv
<1>1. Init => SessionInv
  <2>. SUFFICES ASSUME Init PROVE SessionInv
    OBVIOUS
  <2>1. RowsOK
    BY DEF Init, DirectoryInit, RowsOK, AllMembers
  <2>2. TokenTypes /\ ClocksAgree
    BY TTLAssumption, ChecksTyped DEF Init, TokenTypes, ClocksAgree
  <2>3. AccountsExist /\ ended = {}
    BY ChecksTyped DEF Init, AccountsExist
  <2>. QED
    BY <2>1, <2>2, <2>3 DEF SessionInv
<1>2. SessionInv /\ [Next]_vars => SessionInv'
  <2>. SUFFICES ASSUME SessionInv, [Next]_vars PROVE SessionInv'
    OBVIOUS
  <2>0. /\ RowsOK /\ AccountsExist /\ TokenTypes /\ ClocksAgree /\ TTL \in Nat
        /\ token \in [Tokens -> Claim \cup {None}] /\ check \in [Checks -> Check]
        /\ left \in [Tokens -> 0..TTL] /\ quiet \in [Tokens -> 0..TTL]
        /\ ended \subseteq Tokens /\ \A t \in ended : EndedFor(t)
    BY TTLAssumption DEF SessionInv, TokenTypes
  <2>1. ASSUME UNCHANGED sessionVars, RowsOK',
               \A f \in Faculty : faculty[f] # None =>
                 faculty'[f] # None /\ (~faculty[f].active => ~faculty'[f].active)
        PROVE  SessionInv'
    <3>1. UNCHANGED <<token, left, check, quiet, ended>>
      BY <2>1 DEF sessionVars
    <3>2. AccountsExist'
      <4>1. \A t \in Tokens : token[t] # None => token[t].user \in Faculty
        BY <2>0, ChecksTyped DEF AccountsExist
      <4>2. \A c \in Checks : check[c].op = "login" => check[c].claim.user \in Faculty
        BY <2>0, ChecksTyped
      <4>. QED
        BY <2>0, <2>1, <3>1, <4>1, <4>2 DEF AccountsExist
    <3>3. ASSUME NEW t \in ended PROVE EndedFor(t)'
      <4>1. token[t] \in Claim /\ token[t].user \in Faculty /\ faculty[token[t].user] # None
        BY <2>0, ChecksTyped DEF AccountsExist, EndedFor
      <4>. QED
        BY <2>0, <2>1, <3>1, <4>1 DEF EndedFor, Active, LookedUp
    <3>. QED
      BY <2>0, <2>1, <3>1, <3>2, <3>3 DEF SessionInv, TokenTypes, ClocksAgree
  <2>2. CASE DirectoryNext /\ UNCHANGED sessionVars
    BY <2>0, <2>1, <2>2, MembersStay
  <2>3. CASE UNCHANGED vars
    BY <2>0, <2>1, <2>3 DEF vars, directoryVars, rows, RowsOK
  <2>. DEFINE Still == UNCHANGED <<department, office, faculty>>
  <2>4. Still => RowsOK'
    BY <2>0 DEF RowsOK
  <2>5. UNCHANGED directoryVars => Still
    BY DEF directoryVars, rows
  (* A login or a lookup begins, goes on or ends.                          *)
  <2>6. ASSUME Still, NEW c \in Checks, NEW i \in Check, check' = [check EXCEPT ![c] = i],
               UNCHANGED <<token, left, quiet, ended>>,
               i.op = "login" => faculty[i.claim.user] # None,
               i.op = "lookup" => token[i.token] # None,
               \A t \in ended : i.op = "lookup" /\ i.token = t => ~i.valid
        PROVE  SessionInv'
    <3>1. TokenTypes' /\ ClocksAgree'
      BY <2>0, <2>6 DEF TokenTypes, ClocksAgree
    <3>2. AccountsExist'
      BY <2>0, <2>6 DEF AccountsExist
    <3>3. ASSUME NEW t \in ended PROVE EndedFor(t)'
      BY <2>0, <2>6 DEF EndedFor, Active, LookedUp
    <3>. QED
      BY <2>4, <2>6, <3>1, <3>2, <3>3 DEF SessionInv
  <2>7. ASSUME Still, NEW c \in Checks, NEW f \in Faculty, StartLogin(c, f) PROVE SessionInv'
    <3>. DEFINE x == [user |-> f, role |-> faculty[f].position]
                i == [op |-> "login", claim |-> x]
    <3>1. faculty[f] \in Member /\ x \in Claim /\ faculty[f] # None /\ x.user = f
      BY <2>0, <2>7, MembersTyped DEF StartLogin, ActiveMembers, RowsOK, Claim
    <3>2. check' = [check EXCEPT ![c] = i] /\ UNCHANGED <<token, left, quiet, ended>>
      BY <2>7 DEF StartLogin
    <3>. HIDE DEF x
    <3>3. i \in Check /\ i.op = "login" /\ i.claim = x
      BY <3>1, ChecksTyped
    <3>. HIDE DEF i
    <3>. QED
      BY <2>6, <2>7, <3>1, <3>2, <3>3
  <2>8. ASSUME Still, NEW c \in Checks, NEW t \in Tokens, Sign(c, t) PROVE SessionInv'
    <3>1. /\ check[c].op = "login" /\ check[c].claim \in Claim /\ token[t] = None
          /\ faculty[check[c].claim.user] # None
          /\ token' = [token EXCEPT ![t] = check[c].claim]
          /\ check' = [check EXCEPT ![c] = NoCheck] /\ UNCHANGED <<left, quiet, ended>>
      BY <2>0, <2>8, ChecksTyped DEF Sign, AccountsExist
    <3>2. TokenTypes' /\ ClocksAgree'
      BY <2>0, <3>1, ChecksTyped DEF TokenTypes, ClocksAgree
    <3>3. \A u \in Tokens : token'[u] = IF u = t THEN check[c].claim ELSE token[u]
      BY <2>0, <3>1
    <3>4. \A b \in Checks : check'[b] = IF b = c THEN NoCheck ELSE check[b]
      BY <2>0, <3>1
    <3>5. \A b \in Checks : check[b].op = "lookup" => check[b].token \in Tokens /\ check[b].token # t
      BY <2>0, <3>1, ChecksTyped DEF AccountsExist
    <3>6. AccountsExist'
      <4>1. \A u \in Tokens : token'[u] # None => token'[u] \in Claim /\ faculty'[token'[u].user] # None
        BY <2>0, <2>8, <3>1, <3>3 DEF AccountsExist
      <4>2. \A b \in Checks : /\ check'[b].op = "login" => faculty'[check'[b].claim.user] # None
                              /\ check'[b].op = "lookup" => token'[check'[b].token] # None
        BY <2>0, <2>8, <3>3, <3>4, <3>5, ChecksTyped DEF AccountsExist
      <4>. QED
        BY <4>1, <4>2 DEF AccountsExist
    <3>7. ASSUME NEW u \in ended PROVE EndedFor(u)'
      <4>1. u \in Tokens /\ u # t
        BY <2>0, <3>1 DEF EndedFor
      <4>. QED
        BY <2>0, <2>8, <3>1, <3>3, <3>4, <4>1, ChecksTyped DEF EndedFor, Active, LookedUp
    <3>. QED
      BY <2>4, <2>8, <3>1, <3>2, <3>6, <3>7 DEF SessionInv
  <2>9. ASSUME Still, NEW c \in Checks, NEW t \in Tokens, StartLookup(c, t) PROVE SessionInv'
    <3>. DEFINE v == Valid(t)  i == [op |-> "lookup", token |-> t, valid |-> v]
    <3>1. /\ token[t] # None /\ check' = [check EXCEPT ![c] = i]
          /\ UNCHANGED <<token, left, quiet, ended>>
      BY <2>9 DEF StartLookup
    <3>2. v \in BOOLEAN /\ (t \in ended => ~v)
      <4>1. token[t] \in Claim /\ token[t].user \in Faculty /\ faculty[token[t].user] \in Member
        BY <2>0, <3>1, ChecksTyped DEF AccountsExist, RowsOK
      <4>2. Active(t) \in BOOLEAN
        BY <4>1, MembersTyped DEF Active
      <4>. QED
        BY <2>0, <4>2 DEF Valid, EndedFor
    <3>. HIDE DEF v
    <3>3. i \in Check /\ i.op = "lookup" /\ i.token = t /\ i.valid = v
      BY <3>2, ChecksTyped
    <3>. HIDE DEF i
    <3>. QED
      BY <2>6, <2>9, <3>1, <3>2, <3>3
  (* A request is let through: never one of an ended token.                *)
  <2>10. ASSUME Still, NEW t \in Tokens \ ended, Accept(t), UNCHANGED <<token, ended>>,
                check' = check \/ \E c \in Checks : check' = [check EXCEPT ![c] = NoCheck]
         PROVE  SessionInv'
    <3>1. check' \in [Checks -> Check] /\ \A c \in Checks : check'[c] \in {check[c], NoCheck}
      BY <2>0, <2>10, ChecksTyped
    <3>2. left' \in [Tokens -> 0..TTL] /\ quiet' \in [Tokens -> 0..TTL]
          /\ \A u \in Tokens : /\ u = t => left'[u] = TTL /\ quiet'[u] = 0
                               /\ u # t => left'[u] = left[u] /\ quiet'[u] = quiet[u]
      BY <2>0, <2>10 DEF Accept
    <3>3. TokenTypes'
      BY <2>0, <2>10, <3>1, <3>2 DEF TokenTypes
    <3>4. ClocksAgree'
      BY <2>0, <3>2 DEF ClocksAgree
    <3>5. AccountsExist'
      BY <2>0, <2>10, <3>1, ChecksTyped DEF AccountsExist
    <3>6. ASSUME NEW u \in ended PROVE EndedFor(u)'
      BY <2>0, <2>10, <3>1, <3>2, ChecksTyped DEF EndedFor, Active, LookedUp
    <3>. QED
      BY <2>4, <2>10, <3>3, <3>4, <3>5, <3>6 DEF SessionInv
  <2>11. ASSUME Still, NEW t \in Tokens, Hit(t) PROVE SessionInv'
    <3>1. t \notin ended
      BY <2>0, <2>11 DEF Hit, EndedFor
    <3>. QED
      BY <2>10, <2>11, <3>1 DEF Hit, AcceptFor
  <2>12. ASSUME Still, NEW c \in Checks, NEW t \in Tokens, AcceptLookup(c, t) PROVE SessionInv'
    <3>1. t \notin ended
      BY <2>0, <2>12 DEF AcceptLookup, EndedFor
    <3>. QED
      BY <2>10, <2>12, <3>1 DEF AcceptLookup
  <2>13. ASSUME Still, NEW c \in Checks, NEW t \in Tokens, RefuseLookup(c, t) PROVE SessionInv'
    <3>1. /\ check' = [check EXCEPT ![c] = NoCheck] /\ UNCHANGED <<token, left, quiet>>
          /\ token[t] # None /\ check[c].op = "lookup"
          /\ ended' = IF ~Active(t) /\ Alone(c, t) THEN ended \cup {t} ELSE ended
      BY <2>0, <2>13 DEF RefuseLookup, AccountsExist, LookedUp
    <3>2. \A b \in Checks : check'[b] = IF b = c THEN NoCheck ELSE check[b]
      BY <2>0, <3>1
    <3>3. TokenTypes' /\ ClocksAgree'
      BY <2>0, <3>1, ChecksTyped DEF TokenTypes, ClocksAgree
    <3>4. AccountsExist'
      BY <2>0, <2>13, <3>1, <3>2, ChecksTyped DEF AccountsExist
    <3>5. ASSUME NEW u \in ended PROVE EndedFor(u)'
      BY <2>0, <2>13, <3>1, <3>2, ChecksTyped DEF EndedFor, Active, LookedUp
    <3>6. ~Active(t) /\ Alone(c, t) => EndedFor(t)'
      BY <2>0, <2>13, <3>1, <3>2, ChecksTyped DEF EndedFor, Alone, Active, LookedUp
    <3>. QED
      BY <2>4, <2>13, <3>1, <3>3, <3>4, <3>5, <3>6 DEF SessionInv
  <2>14. ASSUME Still, Tick PROVE SessionInv'
    <3>1. \A t \in Tokens :
            /\ left'[t] = IF left[t] > 0 THEN left[t] - 1 ELSE 0
            /\ quiet'[t] = IF quiet[t] < TTL THEN quiet[t] + 1 ELSE TTL
            /\ left[t] \in 0..TTL /\ quiet[t] \in 0..TTL /\ left[t] + quiet[t] <= TTL
      BY <2>0, <2>14 DEF Tick, ClocksAgree
    <3>2. \A t \in Tokens : left'[t] \in 0..TTL /\ quiet'[t] \in 0..TTL
                            /\ left'[t] + quiet'[t] <= TTL /\ (left[t] = 0 => left'[t] = 0)
      BY <2>0, <3>1
    <3>3. UNCHANGED <<token, check, ended>> /\ left' \in [Tokens -> 0..TTL]
          /\ quiet' \in [Tokens -> 0..TTL]
      BY <2>14, <3>2 DEF Tick
    <3>4. AccountsExist' /\ \A t \in ended : EndedFor(t)'
      BY <2>0, <2>14, <3>2, <3>3 DEF AccountsExist, EndedFor, Active, LookedUp
    <3>. QED
      BY <2>0, <2>4, <2>14, <3>2, <3>3, <3>4 DEF SessionInv, TokenTypes, ClocksAgree
  <2>. HIDE DEF Still
  <2>. QED
    BY <2>2, <2>3, <2>5, <2>7, <2>8, <2>9, <2>11, <2>12, <2>13, <2>14
       DEF Next, SessionNext, Request
<1>. QED
  BY <1>1, <1>2, PTL DEF Spec

-----------------------------------------------------------------------------
(* Every variable keeps its type, those of the directory included. *)
THEOREM TypeCorrect ==
  ASSUME FiniteRows
  PROVE  Spec => []TypeOK
BY PagesInductive, SessionInductive, PTL DEF PagesInv, SessionInv, TokenTypes, TypeOK

(* A token of a deactivated or changed account is accepted without a new   *)
(* look only while its requests follow each other within the time to live  *)
(* (authenticate).                                                         *)
THEOREM PausesEndStaleSessions == Spec => PauseEndsStaleSession
<1>1. ASSUME SessionInv, [Next]_vars
      PROVE  [\A t \in Tokens : Accepted(t) /\ ~Valid(t) =>
                quiet[t] < TTL \/ \E c \in Checks : LookedUp(c, t) /\ check'[c] # check[c]]_vars
  <2>1. ASSUME NEW t \in Tokens, Hit(t) PROVE quiet[t] < TTL
    <3>1. left[t] \in 0..TTL /\ quiet[t] \in 0..TTL /\ left[t] + quiet[t] <= TTL /\ left[t] > 0
      BY <1>1, <2>1 DEF SessionInv, TokenTypes, ClocksAgree, Hit
    <3>. QED
      BY <3>1, TTLAssumption
  <2>2. ASSUME NEW t \in Tokens, NEW c \in Checks, AcceptLookup(c, t)
        PROVE  LookedUp(c, t) /\ check'[c] # check[c]
    <3>1. check'[c] = NoCheck
      BY <1>1, <2>2 DEF SessionInv, TokenTypes, AcceptLookup
    <3>. QED
      BY <2>2, <3>1, ChecksTyped DEF AcceptLookup, LookedUp
  <2>. QED
    BY <2>1, <2>2 DEF Accepted
<1>. QED
  BY <1>1, SessionInductive, PTL DEF Spec, PauseEndsStaleSession

(* A deactivated user whose token was refused, with no other lookup of it  *)
(* under way, is never let in with it again (authenticate and the          *)
(* operations on accounts).                                                *)
THEOREM RefusalsAreFinal == Spec => RefusedForGood
<1>1. ASSUME SessionInv, [Next]_vars
      PROVE  [\A t \in ended : ~Accepted(t)]_vars
  BY <1>1 DEF SessionInv, TokenTypes, EndedFor, Accepted, Hit, AcceptLookup
<1>. QED
  BY <1>1, SessionInductive, PTL DEF Spec, RefusedForGood
=============================================================================
