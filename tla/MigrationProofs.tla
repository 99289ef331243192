--------------------------- MODULE MigrationProofs ---------------------------
(***************************************************************************)
(* Proofs about Migrations, for any number of runners and applications, of *)
(* any releases, on any database.                                          *)
(***************************************************************************)
EXTENDS Migrations, FiniteSetTheorems, TLAPS

-----------------------------------------------------------------------------
(* The inductive invariant.                                                *)

\* From its plan to the release of the lock, a run holds it; so does an
\* application that inspects the schema.
Exclusive ==
  \A p \in Process :
    pc[p] \in {"plan", "plan_dry", "ensure", "work", "release", "inspect"} => lock = p

\* The first migration executed was the baseline, and only a schema with
\* migrations is adopted.
FirstIsBaseline ==
  /\ schema # <<>> => schema[1].version = 1
  /\ blind => schema # <<>>

\* What the steps before made sure of.
Prepared ==
  \A p \in Process : /\ pc[p] = "work" => table
                     /\ pc[p] = "inspect" => 1 \in DOMAIN release[p]
                     /\ pc[p] \in {"ensure", "work"} => p \in Runner

MigrationInv ==
  /\ TypeOK
  /\ IsFiniteSet(DOMAIN recorded)
  /\ Exclusive /\ FirstIsBaseline /\ Prepared
  /\ RecordsTellSchema /\ PlanStillValid

-----------------------------------------------------------------------------
(* Lemmas about the operators.                                             *)

\* The content of a version of a release is a file.
LEMMA FilesAreFile ==
  ASSUME NEW files \in Releases, NEW v \in DOMAIN files
  PROVE  /\ [version |-> v, content |-> files[v]] \in File
         /\ DOMAIN files \subseteq UNION {DOMAIN f : f \in Releases}
BY DEF File

\* Versions are natural numbers.
LEMMA VersionsAreNat ==
  /\ \A files \in Releases : DOMAIN files \subseteq Nat
  /\ \A f \in File : f.version \in Nat
BY MigrationsAssumption DEF File

\* A release that passes discover_migrations has the versions 1 to n.
LEMMA Contiguous ==
  ASSUME NEW S, IsFiniteSet(S), S = 1 .. Cardinality(S)
  PROVE  Cardinality(S) \in Nat /\ (S # {} => 1 \in S)
BY FS_CardinalityType

\* The version executed next is the one that follows the record.
LEMMA LeastFollows ==
  ASSUME NEW m \in Nat, NEW n \in Nat, m < n
  PROVE  Least((1 .. n) \ (1 .. m)) = m + 1
<1> DEFINE S == (1 .. n) \ (1 .. m)
<1>1. m + 1 \in S /\ \A u \in S : m + 1 <= u
  OBVIOUS
<1>2. \A v \in S : (\A u \in S : v <= u) => v = m + 1
  BY <1>1
<1> QED
  BY <1>1, <1>2 DEF Least

\* The first of a plan of one file is that file.
LEMMA LeastOfOne == Least({1}) = 1
BY DEF Least

\* Recording one more version keeps the record finite and typed.
LEMMA RecordedTyped ==
  ASSUME IsFiniteSet(DOMAIN recorded),
         \A u \in DOMAIN recorded : [version |-> u, content |-> recorded[u]] \in File,
         NEW v, NEW content, [version |-> v, content |-> content] \in File,
         recorded' = Recorded(v, content)
  PROVE  /\ DOMAIN recorded' = DOMAIN recorded \cup {v}
         /\ IsFiniteSet(DOMAIN recorded')
         /\ \A u \in DOMAIN recorded' : [version |-> u, content |-> recorded'[u]] \in File
         /\ recorded'[v] = content
         /\ \A u \in DOMAIN recorded \ {v} : recorded'[u] = recorded[u]
<1>1. DOMAIN recorded' = DOMAIN recorded \cup {v}
  BY DEF Recorded
<1>2. IsFiniteSet(DOMAIN recorded')
  BY <1>1, FS_AddElement
<1> QED
  BY <1>1, <1>2 DEF Recorded

\* While a run works on its plan, the plan is what remains of its release.
LEMMA Remaining ==
  ASSUME MigrationInv, NEW r \in Runner, pc[r] = "work", plan[r] # Nothing
  PROVE  LET files == release[r]
             m == Cardinality(DOMAIN recorded)
             n == Cardinality(DOMAIN files)
         IN  /\ files \in Releases
             /\ m \in Nat /\ n \in Nat \ {0}
             /\ DOMAIN recorded = 1 .. m /\ DOMAIN files = 1 .. n /\ m <= n
             /\ \A v \in 1 .. m : recorded[v] = files[v]
             /\ plan[r].adopt # {} => /\ m = 0 /\ n = 1 /\ Class = "complete"
                                      /\ plan[r] = [adopt |-> {1}, apply |-> {}]
             /\ plan[r].adopt = {} => /\ plan[r].apply = (1 .. n) \ (1 .. m)
                                      /\ m < n
                                      /\ m = 0 => Class = "fresh"
<1> DEFINE files == release[r]
           m == Cardinality(DOMAIN recorded)
           n == Cardinality(DOMAIN files)
<1>1. files \in Releases /\ IsFiniteSet(DOMAIN files) /\ IsFiniteSet(DOMAIN recorded)
  BY MigrationsAssumption DEF MigrationInv, TypeOK, Process
<1>2. plan[r] = Planned(files) /\ ~Refuses(files)
  BY DEF MigrationInv, PlanStillValid
<1>3. m \in Nat /\ n \in Nat
  BY <1>1, FS_CardinalityType
<1>4. DOMAIN recorded = 1 .. m /\ DOMAIN files = 1 .. n /\ n # 0 /\ m <= n
  <2>1. DOMAIN recorded = 1 .. m /\ DOMAIN files = 1 .. n /\ DOMAIN files # {}
    BY <1>2 DEF Refuses, Agrees, WellNumbered
  <2>2. DOMAIN recorded \subseteq DOMAIN files
    BY <1>2 DEF Refuses, Agrees
  <2> HIDE DEF m, n
  <2> QED
    BY <2>1, <2>2, <1>3
<1>5. \A v \in 1 .. m : recorded[v] = files[v]
  BY <1>2, <1>4 DEF Refuses, Agrees
<1>6. ASSUME plan[r].adopt # {}
      PROVE  m = 0 /\ n = 1 /\ Class = "complete" /\ plan[r] = [adopt |-> {1}, apply |-> {}]
  <2>1. DOMAIN recorded = {} /\ Class = "complete" /\ plan[r].adopt = {1}
    BY <1>2, <1>6 DEF Planned
  <2>2. DOMAIN files = {1}
    BY <1>2, <2>1 DEF Refuses, OnlyBaseline
  <2>3. plan[r] = [adopt |-> {1}, apply |-> {}]
    BY <1>2, <2>1, <2>2 DEF Planned
  <2>4. m = 0 /\ n = 1
    BY <2>1, <2>2, FS_EmptySet, FS_Singleton
  <2> QED
    BY <2>1, <2>3, <2>4
<1>7. ASSUME plan[r].adopt = {}
      PROVE  /\ plan[r].apply = (1 .. n) \ (1 .. m)
             /\ m < n /\ (m = 0 => Class = "fresh")
  <2>1. plan[r].apply = DOMAIN files \ DOMAIN recorded
    BY <1>2, <1>7 DEF Planned
  <2>2. plan[r].apply # {}
    BY <1>2, <1>7 DEF Planned, Nothing
  <2>3. m < n
    <3> HIDE DEF m, n
    <3> QED BY <2>1, <2>2, <1>3, <1>4
  <2>4. ASSUME m = 0 PROVE Class = "fresh"
    <3>1. DOMAIN recorded = {}
      BY <1>4, <2>4
    <3>2. Class # "complete"
      BY <1>2, <1>7, <3>1 DEF Planned
    <3>3. Class # "partial"
      BY <1>2, <3>1 DEF Refuses
    <3> QED BY <3>2, <3>3 DEF Class
  <2> QED
    BY <2>1, <2>3, <2>4, <1>4
<1> QED
  BY <1>1, <1>3, <1>4, <1>5, <1>6, <1>7

-----------------------------------------------------------------------------
(* The steps.                                                              *)

\* What a plan is depends only on the database and on the release.
LEMMA SamePlan ==
  ASSUME NEW r \in Runner, UNCHANGED <<schema, broken, recorded>>, release'[r] = release[r]
  PROVE  /\ Planned(release[r])' = Planned(release[r])
         /\ Refuses(release[r])' = Refuses(release[r])
BY DEF Planned, Refuses, WellNumbered, Agrees, Class, OnlyBaseline

\* A step that writes nothing and gives nobody a plan.
LEMMA NoWrite ==
  ASSUME MigrationInv, UNCHANGED <<database, blind>>, TypeOK', Exclusive', Prepared',
         \A r \in Runner : pc'[r] \in {"ensure", "work"} =>
           pc[r] \in {"ensure", "work"} /\ plan'[r] = plan[r] /\ release'[r] = release[r]
  PROVE  MigrationInv'
<1>1. FirstIsBaseline' /\ IsFiniteSet(DOMAIN recorded')
  BY DEF MigrationInv, FirstIsBaseline, database
<1>2. RecordsTellSchema'
  BY DEF MigrationInv, RecordsTellSchema, Tells, database
<1>3. PlanStillValid'
  <2> SUFFICES ASSUME NEW r \in Runner, pc'[r] \in {"ensure", "work"}
               PROVE  /\ plan'[r] = Planned(release[r])'
                      /\ plan'[r] # Nothing => ~Refuses(release[r])'
    BY DEF PlanStillValid
  <2> QED
    BY SamePlan DEF MigrationInv, PlanStillValid, database
<1> QED
  BY <1>1, <1>2, <1>3 DEF MigrationInv

\* The steps of a runner that write nothing.
LEMMA QuietKeeps ==
  ASSUME MigrationInv, NEW r \in Runner,
         Start(r) \/ Acquire(r) \/ GiveUp(r) \/ Fails(r) \/ Finish(r) \/ ReleaseLock(r)
  PROVE  MigrationInv'
<1> USE DEF MigrationInv, TypeOK, Exclusive, Prepared, To, Process
<1>1. CASE Start(r)
  <2>1. TypeOK' /\ Exclusive' /\ Prepared'
    BY <1>1 DEF Start, database
  <2> QED
    BY ONLY MigrationInv, <1>1, <2>1, NoWrite DEF Start, To, MigrationInv, TypeOK, Process
<1>2. CASE Acquire(r)
  <2>1. TypeOK' /\ Exclusive' /\ Prepared'
    BY <1>2, MigrationsAssumption DEF Acquire, Free, database
  <2> QED
    BY ONLY MigrationInv, <1>2, <2>1, NoWrite DEF Acquire, To, MigrationInv, TypeOK, Process
<1>3. CASE GiveUp(r)
  <2>1. TypeOK' /\ Exclusive' /\ Prepared'
    BY <1>3 DEF GiveUp, database
  <2> QED
    BY ONLY MigrationInv, <1>3, <2>1, NoWrite DEF GiveUp, To, MigrationInv, TypeOK, Process
<1>4. CASE Fails(r) \/ Finish(r)
  <2>1. TypeOK' /\ Exclusive' /\ Prepared'
    BY <1>4 DEF Fails, Finish, database
  <2> QED
    BY ONLY MigrationInv, <1>4, <2>1, NoWrite
       DEF Fails, Finish, To, MigrationInv, TypeOK, Process
<1>5. CASE ReleaseLock(r)
  <2>1. Nothing \in Plan
    BY DEF Nothing, Plan
  <2>2. TypeOK' /\ Exclusive' /\ Prepared'
    BY <1>5, <2>1, MigrationsAssumption DEF ReleaseLock, database
  <2> QED
    BY ONLY MigrationInv, <1>5, <2>2, NoWrite DEF ReleaseLock, To, MigrationInv, TypeOK, Process
<1> QED
  BY <1>1, <1>2, <1>3, <1>4, <1>5

\* A plan is made from the state that it will be carried out on.
LEMMA MakePlanKeeps ==
  ASSUME MigrationInv, NEW r \in Runner, MakePlan(r)
  PROVE  MigrationInv'
<1>1. CASE To(r, "release") /\ UNCHANGED plan
  <2>1. TypeOK' /\ Exclusive' /\ Prepared'
    BY <1>1 DEF MakePlan, database, MigrationInv, TypeOK, Exclusive, Prepared, To, Process
  <2> QED
    BY <1>1, <2>1, NoWrite DEF MakePlan, To, MigrationInv, TypeOK, Process
<1>2. CASE /\ ~Refuses(release[r])
           /\ plan' = [plan EXCEPT ![r] = Planned(release[r])] /\ To(r, "ensure")
  <2>1. Planned(release[r]) \in Plan
    BY FilesAreFile DEF Planned, Plan, MigrationInv, TypeOK, Process
  <2>2. TypeOK' /\ Exclusive' /\ Prepared'
    BY <1>2, <2>1
       DEF MakePlan, database, MigrationInv, TypeOK, Exclusive, Prepared, To, Process
  <2>3. UNCHANGED <<schema, broken, recorded, release>>
    BY DEF MakePlan, database
  <2>4. PlanStillValid'
    <3> SUFFICES ASSUME NEW q \in Runner, pc'[q] \in {"ensure", "work"}
                 PROVE  /\ plan'[q] = Planned(release[q])'
                        /\ plan'[q] # Nothing => ~Refuses(release[q])'
      BY DEF PlanStillValid
    <3>1. CASE q = r
      BY <1>2, <2>3, <3>1, SamePlan DEF MigrationInv, TypeOK, Process
    <3>2. CASE q # r
      BY <1>2, <2>3, <3>2, SamePlan DEF MigrationInv, TypeOK, Process, PlanStillValid, To
    <3> QED BY <3>1, <3>2
  <2>5. FirstIsBaseline' /\ IsFiniteSet(DOMAIN recorded') /\ RecordsTellSchema'
    BY <2>3 DEF MakePlan, MigrationInv, FirstIsBaseline, RecordsTellSchema, Tells
  <2> QED
    BY <2>2, <2>4, <2>5 DEF MigrationInv
<1> QED
  BY <1>1, <1>2 DEF MakePlan

\* Creating schema_migrations keeps the invariant.
LEMMA EnsureTableKeeps ==
  ASSUME MigrationInv, NEW r \in Runner, EnsureTable(r)
  PROVE  MigrationInv'
<1>1. TypeOK' /\ Exclusive' /\ Prepared'
  BY DEF EnsureTable, MigrationInv, TypeOK, Exclusive, Prepared, To, Process
<1>2. UNCHANGED <<schema, broken, recorded, release, plan, blind>>
  BY DEF EnsureTable
<1>3. FirstIsBaseline' /\ IsFiniteSet(DOMAIN recorded') /\ RecordsTellSchema'
  BY <1>2 DEF MigrationInv, FirstIsBaseline, RecordsTellSchema, Tells
<1>4. PlanStillValid'
  <2> SUFFICES ASSUME NEW q \in Runner, pc'[q] \in {"ensure", "work"}
               PROVE  /\ plan'[q] = Planned(release[q])'
                      /\ plan'[q] # Nothing => ~Refuses(release[q])'
    BY DEF PlanStillValid
  <2> QED
    BY <1>2, SamePlan DEF EnsureTable, To, MigrationInv, TypeOK, Process, PlanStillValid
<1> QED
  BY <1>1, <1>3, <1>4 DEF MigrationInv

\* While a process writes, no runner is at work on another plan.
LEMMA OnlyWriter ==
  ASSUME MigrationInv, NEW p \in Process, pc[p] \in {"work", "inspect"},
         NEW q \in Runner, q # p
  PROVE  pc[q] \notin {"ensure", "work"}
BY DEF MigrationInv, Exclusive, Process

\* Adoption: the record of the baseline alone, on a schema that has it.
LEMMA AdoptKeeps ==
  ASSUME MigrationInv, NEW r \in Runner, Adopt(r)
  PROVE  MigrationInv'
<1> DEFINE files == release[r]
<1>0. pc[r] = "work" /\ plan[r].adopt # {} /\ plan[r] # Nothing /\ r \in Process
  BY DEF Adopt, Nothing, Process
<1>1. /\ files \in Releases /\ DOMAIN files = {1} /\ DOMAIN recorded = {}
      /\ Class = "complete" /\ plan[r] = [adopt |-> {1}, apply |-> {}]
  <2>1. /\ files \in Releases /\ DOMAIN files = 1 .. 1 /\ DOMAIN recorded = 1 .. 0
        /\ Class = "complete" /\ plan[r] = [adopt |-> {1}, apply |-> {}]
    BY <1>0, Remaining
  <2>2. 1 .. 1 = {1} /\ 1 .. 0 = {}
    OBVIOUS
  <2> QED
    BY <2>1, <2>2
<1>2. recorded' = Recorded(1, files[1]) /\ [version |-> 1, content |-> files[1]] \in File
  <2>1. Least(plan[r].adopt) = 1
    BY <1>1, LeastOfOne
  <2> QED
    BY <1>1, <2>1, FilesAreFile DEF Adopt
<1>3. /\ DOMAIN recorded' = {1} /\ IsFiniteSet(DOMAIN recorded')
      /\ \A u \in DOMAIN recorded' : [version |-> u, content |-> recorded'[u]] \in File
  BY <1>1, <1>2, RecordedTyped DEF MigrationInv, TypeOK
<1>4. plan' = [plan EXCEPT ![r] = Nothing]
  <2>1. Least(plan[r].adopt) = 1
    BY <1>1, LeastOfOne
  <2>2. plan' = [plan EXCEPT ![r].adopt = plan[r].adopt \ {1}]
    BY <2>1 DEF Adopt
  <2>3. [plan[r] EXCEPT !.adopt = plan[r].adopt \ {1}] = Nothing
    <3>1. plan[r].adopt \ {1} = {}
      BY <1>1
    <3>2. [[adopt |-> {1}, apply |-> {}] EXCEPT !.adopt = {}] = [adopt |-> {}, apply |-> {}]
      OBVIOUS
    <3> QED BY <1>1, <3>1, <3>2 DEF Nothing
  <2> QED BY <2>2, <2>3
<1>5. UNCHANGED <<schema, broken, table, lock, pc, release>>
  BY DEF Adopt
<1>6. TypeOK'
  <2>1. blind' \in BOOLEAN
    BY DEF Adopt, MigrationInv, TypeOK
  <2>2. Nothing \in Plan
    BY DEF Nothing, Plan
  <2>3. table'
    BY <1>0, <1>5 DEF MigrationInv, Prepared
  <2> QED
    BY <1>3, <1>4, <1>5, <2>1, <2>2, <2>3 DEF MigrationInv, TypeOK
<1>7. Exclusive' /\ Prepared'
  BY <1>5 DEF MigrationInv, Exclusive, Prepared
<1>8. schema # <<>> /\ schema \in Seq(File)
  BY <1>1 DEF MigrationInv, TypeOK, Class
<1>9. FirstIsBaseline'
  BY <1>5, <1>8 DEF MigrationInv, FirstIsBaseline
<1>10. RecordsTellSchema'
  <2> SUFFICES ASSUME ~blind' PROVE Tells(recorded, schema)'
    BY DEF RecordsTellSchema
  <2>1. Cardinality(DOMAIN files) = 1
    BY <1>1, FS_Singleton
  <2>2. Len(schema) = 1
    <3>1. ~(Len(schema) > Cardinality(DOMAIN files))
      BY Zenon DEF Adopt
    <3>2. Len(schema) \in Nat /\ Len(schema) # 0
      BY <1>8
    <3>3. \A k \in Nat : k # 0 /\ ~(k > 1) => k = 1
      OBVIOUS
    <3> QED BY <2>1, <3>1, <3>2, <3>3
  <2>3. Cardinality(DOMAIN recorded') = 1
    BY <1>3, FS_Singleton
  <2>4. schema[1].version = 1
    BY <1>8 DEF MigrationInv, FirstIsBaseline
  <2> QED
    BY <1>5, <1>8, <2>2, <2>3, <2>4 DEF Tells
<1>11. PlanStillValid'
  <2> SUFFICES ASSUME NEW q \in Runner, pc'[q] \in {"ensure", "work"}
               PROVE  /\ plan'[q] = Planned(release[q])'
                      /\ plan'[q] # Nothing => ~Refuses(release[q])'
    BY DEF PlanStillValid
  <2>1. q = r
    BY <1>0, <1>5, OnlyWriter
  <2>2. plan'[q] = Nothing
    BY <1>0, <1>4, <2>1 DEF MigrationInv, TypeOK
  <2>3. Planned(release[q])' = Nothing
    BY <1>1, <1>3, <1>5, <2>1 DEF Planned, Nothing
  <2> QED
    BY <2>2, <2>3
<1> QED
  BY <1>3, <1>6, <1>7, <1>9, <1>10, <1>11 DEF MigrationInv

\* Execution: the version that follows the record, and its row with it.
LEMMA ExecuteKeeps ==
  ASSUME MigrationInv, NEW r \in Runner, Execute(r)
  PROVE  MigrationInv'
<1> DEFINE files == release[r]
           m == Cardinality(DOMAIN recorded)
           n == Cardinality(DOMAIN files)
           file == [version |-> m + 1, content |-> files[m + 1]]
<1>0. pc[r] = "work" /\ plan[r].adopt = {} /\ plan[r].apply # {} /\ r \in Process
  BY DEF Execute, Process
<1>1. plan[r] # Nothing
  BY <1>0 DEF Nothing
<1>2. /\ files \in Releases /\ m \in Nat /\ n \in Nat /\ m < n
      /\ DOMAIN files = 1 .. n /\ DOMAIN recorded = 1 .. m
      /\ \A v \in 1 .. m : recorded[v] = files[v]
      /\ plan[r].apply = (1 .. n) \ (1 .. m)
      /\ m = 0 => Class = "fresh"
  BY <1>0, <1>1, Remaining
<1> HIDE DEF m, n
<1>3. Least(plan[r].apply) = m + 1 /\ m + 1 \in DOMAIN files
  BY <1>2, LeastFollows
<1>4. file \in File
  BY <1>2, <1>3, FilesAreFile
<1>5. /\ recorded' = Recorded(m + 1, files[m + 1]) /\ schema' = Append(schema, file)
      /\ plan' = [plan EXCEPT ![r].apply = plan[r].apply \ {m + 1}]
      /\ UNCHANGED <<broken, table, lock, pc, release, blind>>
  BY <1>3 DEF Execute
<1>6. /\ DOMAIN recorded' = DOMAIN recorded \cup {m + 1} /\ IsFiniteSet(DOMAIN recorded')
      /\ \A u \in DOMAIN recorded' : [version |-> u, content |-> recorded'[u]] \in File
      /\ recorded'[m + 1] = files[m + 1]
      /\ \A u \in 1 .. m : recorded'[u] = recorded[u]
  <2>1. m + 1 \notin DOMAIN recorded
    BY <1>2
  <2>2. PICK content : content = files[m + 1]
    OBVIOUS
  <2>3. /\ IsFiniteSet(DOMAIN recorded)
        /\ \A u \in DOMAIN recorded : [version |-> u, content |-> recorded[u]] \in File
    BY DEF MigrationInv, TypeOK
  <2>4. [version |-> m + 1, content |-> content] \in File
        /\ recorded' = Recorded(m + 1, content)
    BY <1>4, <1>5, <2>2
  <2>5. /\ DOMAIN recorded' = DOMAIN recorded \cup {m + 1} /\ IsFiniteSet(DOMAIN recorded')
        /\ \A u \in DOMAIN recorded' : [version |-> u, content |-> recorded'[u]] \in File
        /\ recorded'[m + 1] = content
        /\ \A u \in DOMAIN recorded \ {m + 1} : recorded'[u] = recorded[u]
    BY <2>3, <2>4, RecordedTyped
  <2> QED
    BY <1>2, <2>1, <2>2, <2>5
<1>7. DOMAIN recorded' = 1 .. (m + 1) /\ Cardinality(DOMAIN recorded') = m + 1
  <2>1. DOMAIN recorded' = 1 .. (m + 1)
    BY <1>2, <1>6
  <2> QED
    BY <1>2, <2>1, FS_Interval
<1>8. schema \in Seq(File) /\ (m = 0 => schema = <<>>) /\ (m # 0 => schema # <<>>)
  <2>1. schema \in Seq(File)
    BY DEF MigrationInv, TypeOK
  <2>2. ASSUME m = 0 PROVE schema = <<>>
    <3>1. \A i \in DOMAIN schema : schema[i].version # 1
      BY <1>2, <2>2 DEF Class
    <3> QED
      BY <2>1, <3>1 DEF MigrationInv, FirstIsBaseline
  <2>3. ASSUME m # 0 PROVE schema # <<>>
    <3>1. CASE blind
      BY <3>1 DEF MigrationInv, FirstIsBaseline
    <3>2. CASE ~blind
      <4>1. Len(schema) = m
        BY <1>2, <2>3, <3>2 DEF MigrationInv, RecordsTellSchema, Tells, m
      <4> QED BY <4>1, <2>3, <2>1
    <3> QED BY <3>1, <3>2
  <2> QED BY <2>1, <2>2, <2>3
<1>9. TypeOK'
  <2>1. schema' \in Seq(File)
    BY <1>4, <1>5, <1>8
  <2>2. plan' \in [Process -> Plan]
    BY <1>0, <1>5 DEF MigrationInv, TypeOK, Plan
  <2>3. table'
    BY <1>0, <1>5 DEF MigrationInv, Prepared
  <2> QED
    BY <1>5, <1>6, <2>1, <2>2, <2>3 DEF MigrationInv, TypeOK
<1>10. Exclusive' /\ Prepared'
  BY <1>5 DEF MigrationInv, Exclusive, Prepared
<1>11. FirstIsBaseline'
  <2>1. schema' # <<>>
    BY <1>5, <1>8
  <2>2. schema'[1].version = 1
    <3>1. CASE m = 0
      BY <1>5, <1>8, <3>1
    <3>2. CASE m # 0
      <4>1. schema[1].version = 1
        BY <1>8, <3>2 DEF MigrationInv, FirstIsBaseline
      <4>2. schema'[1] = schema[1]
        BY <1>4, <1>5, <1>8, <3>2
      <4> QED BY <4>1, <4>2
    <3> QED BY <3>1, <3>2
  <2> QED
    BY <2>1, <2>2 DEF FirstIsBaseline
<1>12. RecordsTellSchema'
  <2> SUFFICES ASSUME ~blind PROVE Tells(recorded, schema)'
    BY <1>5 DEF RecordsTellSchema
  <2>1. /\ Len(schema) = m
        /\ \A v \in 1 .. m : /\ schema[v].version = v
                             /\ v > 1 => schema[v].content = recorded[v]
    <3>1. CASE m = 0
      BY <1>8, <3>1
    <3>2. CASE m # 0
      <4>1. DOMAIN recorded # {}
        BY <1>2, <3>2
      <4>2. Tells(recorded, schema)
        BY <4>1 DEF MigrationInv, RecordsTellSchema
      <4>3. DOMAIN schema = 1 .. Len(schema)
        BY <1>8
      <4> QED BY <4>2, <4>3 DEF Tells, m
    <3> QED BY <3>1, <3>2
  <2>2. Len(schema') = m + 1 /\ DOMAIN schema' = 1 .. (m + 1) /\ schema'[m + 1] = file
    BY <1>2, <1>4, <1>5, <1>8, <2>1
  <2>3. \A v \in 1 .. m : schema'[v] = schema[v]
    BY <1>2, <1>4, <1>5, <1>8, <2>1
  <2>4. \A v \in 1 .. (m + 1) : v = m + 1 \/ v \in 1 .. m
    BY <1>2
  <2> QED
    BY <1>6, <1>7, <2>1, <2>2, <2>3, <2>4 DEF Tells
<1>13. PlanStillValid'
  <2> SUFFICES ASSUME NEW q \in Runner, pc'[q] \in {"ensure", "work"}
               PROVE  /\ plan'[q] = Planned(release[q])'
                      /\ plan'[q] # Nothing => ~Refuses(release[q])'
    BY DEF PlanStillValid
  <2>1. q = r
    BY <1>0, <1>5, OnlyWriter
  <2>2. plan'[r] = [adopt |-> {}, apply |-> (1 .. n) \ (1 .. (m + 1))]
    <3>1. plan[r] \in Plan
      BY <1>0 DEF MigrationInv, TypeOK
    <3>2. plan'[r] = [adopt |-> {}, apply |-> plan[r].apply \ {m + 1}]
      BY <1>0, <1>5, <3>1 DEF MigrationInv, TypeOK, Plan
    <3>3. plan[r].apply \ {m + 1} = (1 .. n) \ (1 .. (m + 1))
      BY <1>2
    <3> QED BY <3>2, <3>3
  <2>3. DOMAIN recorded' # {}
    BY <1>2, <1>7
  <2>4. Planned(release[r])' = [adopt |-> {}, apply |-> (1 .. n) \ (1 .. (m + 1))]
    BY <1>2, <1>5, <1>7, <2>3 DEF Planned
  <2>5. WellNumbered(files)
    BY <1>0, <1>1 DEF MigrationInv, PlanStillValid, Refuses
  <2>6. Agrees(release[r])'
    <3>1. DOMAIN recorded' \subseteq DOMAIN files
      BY <1>2, <1>7
    <3>2. \A v \in 1 .. (m + 1) : recorded'[v] = files[v]
      BY <1>2, <1>6
    <3> QED BY <1>5, <1>7, <3>1, <3>2 DEF Agrees
  <2>7. ~Refuses(release[r])'
    BY <1>5, <2>3, <2>5, <2>6 DEF Refuses, WellNumbered
  <2> QED
    BY <2>1, <2>2, <2>4, <2>7
<1> QED
  BY <1>6, <1>9, <1>10, <1>11, <1>12, <1>13 DEF MigrationInv

\* An application that starts, and its migration of an empty schema.
LEMMA BootKeeps ==
  ASSUME MigrationInv, NEW a \in App, Boot(a)
  PROVE  MigrationInv'
<1>1. PICK files \in Releases : 1 \in DOMAIN files /\ release' = [release EXCEPT ![a] = files]
  BY DEF Boot
<1>2. TypeOK' /\ Exclusive' /\ Prepared'
  BY <1>1, MigrationsAssumption
     DEF Boot, Free, database, MigrationInv, TypeOK, Exclusive, Prepared, To, Process
<1>3. \A r \in Runner : pc'[r] \in {"ensure", "work"} =>
        pc[r] \in {"ensure", "work"} /\ plan'[r] = plan[r] /\ release'[r] = release[r]
  BY <1>1 DEF Boot, MigrationInv, TypeOK, To, Process
<1> QED
  BY <1>2, <1>3, NoWrite DEF Boot

\* An application that finds an empty database and installs the initial schema
\* keeps the invariant.
LEMMA BootstrapKeeps ==
  ASSUME MigrationInv, NEW a \in App, Bootstrap(a)
  PROVE  MigrationInv'
<1> DEFINE file == [version |-> 1, content |-> release[a][1]]
<1>0. pc[a] = "inspect" /\ a \in Process
  BY DEF Bootstrap, Process
<1>1. Exclusive' /\ Prepared'
  BY DEF Bootstrap, MigrationInv, TypeOK, Exclusive, Prepared, To, Process
<1>2. file \in File
  BY <1>0, FilesAreFile DEF MigrationInv, TypeOK, Prepared
<1>3. CASE UNCHANGED schema
  <2>1. TypeOK'
    BY <1>3 DEF Bootstrap, MigrationInv, TypeOK, To, Process
  <2>2. \A r \in Runner : pc'[r] \in {"ensure", "work"} =>
          pc[r] \in {"ensure", "work"} /\ plan'[r] = plan[r] /\ release'[r] = release[r]
    BY DEF Bootstrap, MigrationInv, TypeOK, To, Process
  <2> QED
    BY <1>1, <1>3, <2>1, <2>2, NoWrite DEF Bootstrap, database
<1>4. CASE Class = "fresh" /\ schema' = Append(schema, file)
  <2>1. schema = <<>> /\ schema \in Seq(File)
    <3>1. schema \in Seq(File) /\ (schema # <<>> => schema[1].version = 1)
      BY DEF MigrationInv, TypeOK, FirstIsBaseline
    <3>2. \A i \in DOMAIN schema : schema[i].version # 1
      BY <1>4 DEF Class
    <3> QED BY <3>1, <3>2
  <2>2. schema' \in Seq(File) /\ schema' # <<>> /\ schema'[1].version = 1
    BY <1>2, <1>4, <2>1
  <2>3. DOMAIN recorded = {}
    <3> SUFFICES ASSUME DOMAIN recorded # {} PROVE FALSE
      OBVIOUS
    <3>1. ~blind
      BY <2>1 DEF MigrationInv, FirstIsBaseline
    <3>2. Len(schema) = Cardinality(DOMAIN recorded)
      BY <3>1 DEF MigrationInv, RecordsTellSchema, Tells
    <3> QED
      BY <2>1, <3>2, FS_EmptySet DEF MigrationInv
  <2>4. TypeOK'
    BY <2>2 DEF Bootstrap, MigrationInv, TypeOK, To, Process
  <2>5. FirstIsBaseline' /\ IsFiniteSet(DOMAIN recorded') /\ RecordsTellSchema'
    BY <2>2, <2>3 DEF Bootstrap, MigrationInv, FirstIsBaseline, RecordsTellSchema
  <2>6. PlanStillValid'
    <3>1. \A q \in Runner : q # a => pc'[q] \notin {"ensure", "work"}
      BY <1>0, OnlyWriter DEF Bootstrap, MigrationInv, TypeOK, To, Process
    <3>2. pc'[a] \notin {"ensure", "work"}
      BY <1>0 DEF Bootstrap, MigrationInv, TypeOK, To
    <3> QED BY <3>1, <3>2 DEF PlanStillValid
  <2> QED
    BY <1>1, <2>4, <2>5, <2>6 DEF MigrationInv
<1> QED
  BY <1>3, <1>4 DEF Bootstrap

\* A process that dies keeps nothing.
LEMMA CrashKeeps ==
  ASSUME MigrationInv, NEW p \in Process, Crash(p)
  PROVE  MigrationInv'
<1>1. Nothing \in Plan
  BY DEF Nothing, Plan
<1>2. TypeOK' /\ Exclusive' /\ Prepared'
  BY <1>1, MigrationsAssumption
     DEF Crash, database, MigrationInv, TypeOK, Exclusive, Prepared, To
<1>3. \A r \in Runner : pc'[r] \in {"ensure", "work"} =>
        pc[r] \in {"ensure", "work"} /\ plan'[r] = plan[r] /\ release'[r] = release[r]
  BY DEF Crash, MigrationInv, TypeOK, To, Process
<1> QED
  BY <1>2, <1>3, NoWrite DEF Crash

-----------------------------------------------------------------------------
(* The theorems.                                                           *)

\* At first the migrator has no plan and the database is as it was installed.
LEMMA MigrationInit == Init => MigrationInv
<1> SUFFICES ASSUME Init PROVE MigrationInv
  OBVIOUS
<1>1. PICK d \in Databases : /\ schema = d.schema /\ broken = d.broken
                             /\ table = (d.recorded # <<>>) /\ recorded = d.recorded
  BY DEF Init
<1>2. /\ schema \in Seq(File) /\ broken \in BOOLEAN
      /\ (schema # <<>> => schema[1].version = 1)
      /\ IsFiniteSet(DOMAIN recorded)
      /\ \A v \in DOMAIN recorded : [version |-> v, content |-> recorded[v]] \in File
      /\ DOMAIN recorded # {} => Tells(recorded, schema)
  BY <1>1, MigrationsAssumption
<1>3. table \in BOOLEAN /\ (DOMAIN recorded # {} => table)
  <2>1. DOMAIN <<>> = {}
    OBVIOUS
  <2>2. table = (recorded # <<>>)
    BY <1>1
  <2>3. DOMAIN recorded # {} => recorded # <<>>
    BY <2>1
  <2> QED
    BY <2>2, <2>3, Zenon
<1>4. Nothing \in Plan
  BY DEF Nothing, Plan
<1>5. release \in [Process -> Releases]
  BY MigrationsAssumption DEF Init
<1>6. TypeOK
  BY <1>2, <1>3, <1>4, <1>5 DEF Init, TypeOK
<1>7. Exclusive /\ Prepared /\ PlanStillValid
  BY DEF Init, Exclusive, Prepared, PlanStillValid, Process
<1>8. FirstIsBaseline /\ RecordsTellSchema
  BY <1>2 DEF Init, FirstIsBaseline, RecordsTellSchema
<1> QED
  BY <1>2, <1>6, <1>7, <1>8 DEF MigrationInv

\* Every step keeps the invariant.
LEMMA MigrationStep == MigrationInv /\ [Next]_vars => MigrationInv'
<1> SUFFICES ASSUME MigrationInv, [Next]_vars PROVE MigrationInv'
  OBVIOUS
<1>1. ASSUME NEW r \in Runner,
             Start(r) \/ Acquire(r) \/ GiveUp(r) \/ Fails(r) \/ Finish(r) \/ ReleaseLock(r)
      PROVE  MigrationInv'
  BY <1>1, QuietKeeps
<1>2. ASSUME NEW r \in Runner, MakePlan(r) \/ EnsureTable(r) PROVE MigrationInv'
  BY <1>2, MakePlanKeeps, EnsureTableKeeps
<1>3. ASSUME NEW r \in Runner, Adopt(r) \/ Execute(r) PROVE MigrationInv'
  BY <1>3, AdoptKeeps, ExecuteKeeps
<1>4. ASSUME NEW a \in App, Boot(a) \/ Bootstrap(a) PROVE MigrationInv'
  BY <1>4, BootKeeps, BootstrapKeeps
<1>5. ASSUME NEW p \in Process, Crash(p) PROVE MigrationInv'
  BY <1>5, CrashKeeps
<1>6. CASE UNCHANGED vars
  BY <1>6 DEF vars, database, MigrationInv, TypeOK, Exclusive, FirstIsBaseline, Prepared,
     RecordsTellSchema, Tells, PlanStillValid, Planned, Refuses, WellNumbered, Agrees,
     Class, OnlyBaseline
<1> QED
  BY <1>1, <1>2, <1>3, <1>4, <1>5, <1>6 DEF Next

\* Whatever runners and applications do, in any order and dying at any step,
\* the schema, its record and the plans agree.
THEOREM MigrationSafe == Spec => []MigrationInv
BY MigrationInit, MigrationStep, PTL DEF Spec

\* Every variable of the migrator stays in its domain, and no version is recorded
\* before _ensure_metadata_table has made the table.
THEOREM MigratorTyped == Spec => []TypeOK
<1>1. MigrationInv => TypeOK
  BY DEF MigrationInv
<1> QED
  BY <1>1, MigrationSafe, PTL

\* The advisory lock makes plan_migrations valid until the plan is done: whatever
\* the other runners and the applications that start, planning again would give
\* what is left.
THEOREM PlansStayValid == Spec => []PlanStillValid
<1>1. MigrationInv => PlanStillValid
  BY DEF MigrationInv
<1> QED
  BY <1>1, MigrationSafe, PTL

\* schema_migrations says what run_migrations and _init_postgresql executed, after
\* any failures and crashes, unless a release adopted migrations it lacks.
THEOREM RecordIsTrue == Spec => []RecordsTellSchema
<1>1. MigrationInv => RecordsTellSchema
  BY DEF MigrationInv
<1> QED
  BY <1>1, MigrationSafe, PTL
===============================================================================
