--------------------------- MODULE Startup_proofs ---------------------------
(***************************************************************************)
(* The theorems about the migrations, for every set of tables and any      *)
(* number of operators: whatever runs side by side and is interrupted, the *)
(* recorded version is the truth, and rows are lost only on the way to the *)
(* base.                                                                   *)
(***************************************************************************)
EXTENDS StartupProperties, TLAPS

(* A database whose version table is where env.py wants it, at version v.  *)
AtVersion(d, v) ==
  /\ d \in Databases
  /\ d.version = [NoVersion EXCEPT ![Target] = v]
  /\ d.tables["public"] = {}
  /\ d.tables[Legacy] = IF v = "0001" THEN AppTables ELSE {}
  /\ d.tables[Target] \ {VersionTable} = IF v = "0002" THEN AppTables ELSE {}
  /\ v # "base" => VersionTable \in d.tables[Target]
  /\ DataInTables(d)

USE DEF Target, Legacy, Schemas, Versions, Head

LEMMA AtVersionType ==
  ASSUME NEW d, NEW v \in Versions, AtVersion(d, v)
  PROVE  /\ d \in Databases
         /\ d.version[Target] = v
         /\ d.version["public"] = "base" /\ d.version[Legacy] = "base"
         /\ d.tables \in [Schemas -> SUBSET Tables]
         /\ d.data \in [Schemas -> SUBSET AppTables]
BY DEF AtVersion, NoVersion, Databases

LEMMA BaseIsEmpty == TablesAt("base") = Nothing
BY DEF TablesAt, Nothing

LEMMA AtVersionTruthful ==
  ASSUME NEW d, NEW v \in Versions, AtVersion(d, v)
  PROVE  Truthful(d) /\ Pinned(d) /\ DataInTables(d)
<1>1. /\ d.version[Target] = v
      /\ d.version["public"] = "base" /\ d.version[Legacy] = "base"
      /\ d.tables \in [Schemas -> SUBSET Tables]
  BY AtVersionType
<1>2. \A s \in Schemas : HoldsVersionTable(d, s) => s = Target
  BY <1>1, TablesAssumption DEF AtVersion, HoldsVersionTable
<1>3. AppTablesOf(d) = TablesAt(v)
  <2>1. CASE v = "0001"
    BY <2>1, <1>1, TablesAssumption DEF AtVersion, AppTablesOf, TablesAt, Nothing
  <2>2. CASE v = "0002"
    BY <2>2, <1>1, TablesAssumption DEF AtVersion, AppTablesOf, TablesAt, Nothing
  <2>3. CASE v = "base"
    BY <2>3, <1>1, TablesAssumption DEF AtVersion, AppTablesOf, TablesAt, Nothing
  <2> QED
    BY <2>1, <2>2, <2>3
<1>4. v = "base" => AppTablesOf(d) = Nothing
  BY <1>3, BaseIsEmpty
<1>5. ~HoldsVersionTable(d, Target) => v = "base"
  BY DEF AtVersion, HoldsVersionTable
<1> QED
  BY <1>1, <1>2, <1>3, <1>4, <1>5 DEF Truthful, Pinned, AtVersion

LEMMA TruthfulAtVersion ==
  ASSUME NEW d \in Databases, Truthful(d), Pinned(d), DataInTables(d)
  PROVE  AtVersion(d, d.version[Target])
<1> DEFINE v == d.version[Target]
<1>1. v \in Versions /\ d.version \in [Schemas -> Versions]
      /\ d.tables \in [Schemas -> SUBSET Tables]
  BY DEF Databases
<1>2. /\ ~HoldsVersionTable(d, "public") /\ ~HoldsVersionTable(d, Legacy)
      /\ d.version["public"] = "base" /\ d.version[Legacy] = "base"
  BY DEF Truthful, Pinned
<1>3. AppTablesOf(d) = TablesAt(v)
  <2>1. CASE HoldsVersionTable(d, Target)
    BY <2>1, <1>2 DEF Truthful
  <2>2. CASE ~HoldsVersionTable(d, Target)
    BY <2>2, <1>2, BaseIsEmpty DEF Truthful
  <2> QED
    BY <2>1, <2>2
<1>4. d.version = [NoVersion EXCEPT ![Target] = v]
  BY <1>1, <1>2 DEF NoVersion
<1>5. \A s \in Schemas : d.tables[s] \ {VersionTable} = TablesAt(v)[s]
  BY <1>3 DEF AppTablesOf
<1>6. /\ TablesAt(v)["public"] = {}
      /\ TablesAt(v)[Legacy] = IF v = "0001" THEN AppTables ELSE {}
      /\ TablesAt(v)[Target] = IF v = "0002" THEN AppTables ELSE {}
  BY <1>1 DEF TablesAt, Nothing
<1>7. v # "base" => VersionTable \in d.tables[Target]
  BY DEF Truthful, HoldsVersionTable
<1>8. d.tables["public"] = {} /\ d.tables[Legacy] = TablesAt(v)[Legacy]
  BY <1>1, <1>2, <1>5, <1>6 DEF HoldsVersionTable
<1> QED
  BY <1>1, <1>4, <1>5, <1>6, <1>7, <1>8 DEF AtVersion

-----------------------------------------------------------------------------
(* What env.py and the revisions make of a database.                         *)

LEMMA RelocatedKeeps ==
  ASSUME NEW d \in Databases, Truthful(d), DataInTables(d)
  PROVE  /\ Relocated(d) \in Databases
         /\ Truthful(Relocated(d)) /\ Pinned(Relocated(d)) /\ DataInTables(Relocated(d))
         /\ Filled(Relocated(d)) = Filled(d)
         /\ Pinned(d) => Relocated(d) = d
<1> DEFINE found == { s \in Schemas \ {Target} : VersionTable \in d.tables[s] }
           src   == IF "public" \in found THEN "public" ELSE Legacy
           r     == Relocated(d)
<1>1. /\ d.tables \in [Schemas -> SUBSET Tables]
      /\ d.data \in [Schemas -> SUBSET AppTables]
      /\ d.version \in [Schemas -> Versions]
      /\ d = [tables |-> d.tables, data |-> d.data, version |-> d.version]
  BY DEF Databases
<1>2. Pinned(d) => found = {}
  BY DEF Pinned, HoldsVersionTable
<1>3. CASE VersionTable \in d.tables[Target] \/ found = {}
  <2>1. r = d
    BY <1>3 DEF Relocated
  <2>2. Pinned(d)
    BY <1>3 DEF Pinned, Truthful, HoldsVersionTable
  <2> QED
    BY <2>1, <2>2
<1>4. CASE VersionTable \notin d.tables[Target] /\ found # {}
  <2>1. /\ src \in {"public", Legacy} /\ VersionTable \in d.tables[src]
        /\ \A s \in Schemas : VersionTable \in d.tables[s] => s = src
    BY <1>4 DEF Truthful, HoldsVersionTable
  <2>2. r = [ tables  |-> Moved(d.tables, {VersionTable}, src, Target),
              data    |-> d.data,
              version |-> [d.version EXCEPT ![src] = "base", ![Target] = d.version[src]] ]
    BY <1>1, <1>4 DEF Relocated
  <2> HIDE DEF src, r
  <2>3. /\ r.tables = [d.tables EXCEPT ![src] = @ \ {VersionTable},
                                       ![Target] = @ \cup {VersionTable}]
        /\ r.data = d.data
        /\ r.version = [d.version EXCEPT ![src] = "base", ![Target] = d.version[src]]
    BY <1>1, <2>1, <2>2 DEF Moved
  <2>4. r \in Databases
    <3>1. r.tables \in [Schemas -> SUBSET Tables]
      BY <1>1, <2>3 DEF Tables
    <3>2. r.version \in [Schemas -> Versions]
      BY <1>1, <2>1, <2>3
    <3> QED
      BY <1>1, <2>2, <2>3, <3>1, <3>2 DEF Databases
  <2>5. Pinned(r) /\ HoldsVersionTable(r, Target)
    BY <1>1, <2>1, <2>3 DEF Pinned, HoldsVersionTable
  <2>6. AppTablesOf(r) = AppTablesOf(d)
    BY <1>1, <2>1, <2>3 DEF AppTablesOf
  <2>7. AppTablesOf(d) = TablesAt(d.version[src])
    BY <2>1 DEF Truthful, HoldsVersionTable
  <2>8. r.version[Target] = d.version[src]
    BY <1>1, <2>1, <2>3
  <2>9. \A s \in Schemas \ {Target} : r.version[s] = "base"
    BY <1>1, <2>1, <2>3 DEF Truthful, HoldsVersionTable
  <2>10. Truthful(r)
    BY <2>5, <2>6, <2>7, <2>8, <2>9 DEF Truthful, Pinned
  <2>11. DataInTables(r)
    BY <1>1, <2>1, <2>3, TablesAssumption DEF DataInTables
  <2>12. Filled(r) = Filled(d)
    BY <2>3 DEF Filled
  <2> QED
    BY <1>2, <1>4, <2>4, <2>5, <2>10, <2>11, <2>12 DEF r
<1> QED
  BY <1>3, <1>4

LEMMA WithVersionTableAt ==
  ASSUME NEW d, NEW v \in Versions, AtVersion(d, v)
  PROVE  /\ AtVersion(WithVersionTable(d), v)
         /\ VersionTable \in WithVersionTable(d).tables[Target]
         /\ WithVersionTable(d).data = d.data
         /\ WithVersionTable(d).version = d.version
<1> DEFINE e == WithVersionTable(d)
<1>1. /\ d \in Databases /\ d.version[Target] = v
      /\ d.tables \in [Schemas -> SUBSET Tables]
  BY AtVersionType
<1>2. CASE v = "base"
  <2>1. e = [d EXCEPT !.tables = [d.tables EXCEPT ![Target] = @ \cup {VersionTable}]]
    BY <1>1, <1>2 DEF WithVersionTable, Databases
  <2>2. /\ e.tables = [d.tables EXCEPT ![Target] = @ \cup {VersionTable}]
        /\ e.data = d.data /\ e.version = d.version /\ e \in Databases
    BY <1>1, <2>1 DEF Databases, Tables
  <2> HIDE DEF e
  <2> QED
    BY <1>1, <1>2, <2>2 DEF AtVersion, DataInTables, e
<1>3. CASE v # "base"
  BY <1>1, <1>3 DEF WithVersionTable, AtVersion
<1> QED
  BY <1>2, <1>3

LEMMA Upgrade0001At ==
  ASSUME NEW d, AtVersion(d, "base"), VersionTable \in d.tables[Target]
  PROVE  AtVersion(Upgrade0001(d), "0001") /\ Upgrade0001(d).data = d.data
<1> DEFINE e == Upgrade0001(d)
<1>1. /\ d \in Databases
      /\ d.tables \in [Schemas -> SUBSET Tables]
  BY AtVersionType
<1>2. /\ e.tables = [d.tables EXCEPT ![Legacy] = @ \cup AppTables]
      /\ e.version = [d.version EXCEPT ![Target] = "0001"]
      /\ e.data = d.data /\ e \in Databases
  BY <1>1 DEF Upgrade0001, Recorded, Databases, Tables
<1> HIDE DEF e
<1>3. e.version = [NoVersion EXCEPT ![Target] = "0001"]
  BY <1>2 DEF AtVersion, NoVersion
<1> QED
  BY <1>1, <1>2, <1>3, TablesAssumption DEF AtVersion, DataInTables, e

(* All of a schema's tables are moved: the schema is empty then.             *)
LEMMA MovedAll ==
  ASSUME NEW T, NEW f \in [Schemas -> SUBSET T],
         NEW from \in {Legacy, Target}, NEW to \in {Legacy, Target}, from # to
  PROVE  Moved(f, T, from, to) = [f EXCEPT ![from] = {}, ![to] = f[to] \cup f[from]]
<1>1. f[from] \in SUBSET T
  OBVIOUS
<1>2. f[from] \ T = {} /\ f[from] \cap T = f[from]
  BY <1>1
<1> QED
  BY <1>2 DEF Moved

LEMMA Upgrade0002At ==
  ASSUME NEW d, AtVersion(d, "0001")
  PROVE  AtVersion(Upgrade0002(d), "0002") /\ Filled(d) \subseteq Filled(Upgrade0002(d))
<1> DEFINE e == Upgrade0002(d)
<1>1. /\ d \in Databases
      /\ d.tables \in [Schemas -> SUBSET Tables]
      /\ d.data \in [Schemas -> SUBSET AppTables]
  BY AtVersionType
<1>2. e = [ tables  |-> Dropped(Moved(d.tables, Tables, Legacy, Target), Legacy),
             data    |-> Dropped(Moved(d.data, AppTables, Legacy, Target), Legacy),
             version |-> [d.version EXCEPT ![Target] = "0002"] ]
  BY DEF Upgrade0002, Recorded
<1>3. /\ e.tables = [d.tables EXCEPT ![Legacy] = {}, ![Target] = @ \cup d.tables[Legacy]]
      /\ e.data = [d.data EXCEPT ![Legacy] = {}, ![Target] = @ \cup d.data[Legacy]]
      /\ e.version = [d.version EXCEPT ![Target] = "0002"]
  <2>1. Moved(d.tables, Tables, Legacy, Target)
          = [d.tables EXCEPT ![Legacy] = {}, ![Target] = d.tables[Target] \cup d.tables[Legacy]]
    BY <1>1, MovedAll
  <2>2. Moved(d.data, AppTables, Legacy, Target)
          = [d.data EXCEPT ![Legacy] = {}, ![Target] = d.data[Target] \cup d.data[Legacy]]
    BY <1>1, MovedAll
  <2> QED
    BY <1>1, <1>2, <2>1, <2>2 DEF Dropped
<1>4. e \in Databases
  <2>1. e.tables \in [Schemas -> SUBSET Tables]
    BY <1>1, <1>3 DEF Tables
  <2>2. e.data \in [Schemas -> SUBSET AppTables]
    BY <1>1, <1>3
  <2>3. e.version \in [Schemas -> Versions]
    BY <1>1, <1>3 DEF Databases
  <2> QED
    BY <1>2, <1>3, <2>1, <2>2, <2>3 DEF Databases
<1> HIDE DEF e
<1>5. e.version = [NoVersion EXCEPT ![Target] = "0002"]
  BY <1>3 DEF AtVersion, NoVersion
<1>6. DataInTables(e)
  BY <1>1, <1>3 DEF AtVersion, DataInTables
<1>7. Filled(d) \subseteq Filled(e)
  BY <1>1, <1>3 DEF Filled
<1> QED
  BY <1>1, <1>3, <1>4, <1>5, <1>6, <1>7, TablesAssumption DEF AtVersion, e

LEMMA Downgrade0002At ==
  ASSUME NEW d, AtVersion(d, "0002")
  PROVE  AtVersion(Downgrade0002(d), "0001") /\ Filled(d) \subseteq Filled(Downgrade0002(d))
<1> DEFINE e == Downgrade0002(d)
<1>1. /\ d \in Databases
      /\ d.tables \in [Schemas -> SUBSET Tables]
      /\ d.data \in [Schemas -> SUBSET AppTables]
  BY AtVersionType
<1>2. e = [ tables  |-> Moved(d.tables, AppTables, Target, Legacy),
             data    |-> Moved(d.data, AppTables, Target, Legacy),
             version |-> [d.version EXCEPT ![Target] = "0001"] ]
  BY DEF Downgrade0002, Recorded
<1>3. /\ e.tables = [d.tables EXCEPT ![Target] = @ \ AppTables, ![Legacy] = @ \cup (d.tables[Target] \cap AppTables)]
      /\ e.data = [d.data EXCEPT ![Target] = {}, ![Legacy] = @ \cup d.data[Target]]
      /\ e.version = [d.version EXCEPT ![Target] = "0001"]
  <2>1. Moved(d.tables, AppTables, Target, Legacy)
          = [d.tables EXCEPT ![Target] = @ \ AppTables,
                             ![Legacy] = @ \cup (d.tables[Target] \cap AppTables)]
    BY DEF Moved
  <2>2. Moved(d.data, AppTables, Target, Legacy)
          = [d.data EXCEPT ![Target] = {}, ![Legacy] = d.data[Legacy] \cup d.data[Target]]
    BY <1>1, MovedAll
  <2> QED
    BY <1>1, <1>2, <2>1, <2>2
<1>4. e \in Databases
  <2>1. e.tables \in [Schemas -> SUBSET Tables]
    BY <1>1, <1>3 DEF Tables
  <2>2. e.data \in [Schemas -> SUBSET AppTables]
    BY <1>1, <1>3
  <2>3. e.version \in [Schemas -> Versions]
    BY <1>1, <1>3 DEF Databases
  <2> QED
    BY <1>2, <1>3, <2>1, <2>2, <2>3 DEF Databases
<1> HIDE DEF e
<1>5. e.version = [NoVersion EXCEPT ![Target] = "0001"]
  BY <1>3 DEF AtVersion, NoVersion
<1>6. DataInTables(e)
  BY <1>1, <1>3, TablesAssumption DEF AtVersion, DataInTables
<1>7. Filled(d) \subseteq Filled(e)
  BY <1>1, <1>3 DEF Filled
<1> QED
  BY <1>1, <1>3, <1>4, <1>5, <1>6, <1>7, TablesAssumption DEF AtVersion, e

LEMMA Downgrade0001At ==
  ASSUME NEW d, AtVersion(d, "0001")
  PROVE  AtVersion(Downgrade0001(d), "base")
<1> DEFINE e == Downgrade0001(d)
<1>1. /\ d \in Databases
      /\ d.tables \in [Schemas -> SUBSET Tables]
      /\ d.data \in [Schemas -> SUBSET AppTables]
  BY AtVersionType
<1>2. /\ e.tables = [d.tables EXCEPT ![Legacy] = {}]
      /\ e.data = [d.data EXCEPT ![Legacy] = {}]
      /\ e.version = [d.version EXCEPT ![Target] = "base"]
      /\ e \in Databases
  BY <1>1 DEF Downgrade0001, Recorded, Databases, Dropped
<1> HIDE DEF e
<1>3. e.version = [NoVersion EXCEPT ![Target] = "base"]
  BY <1>2 DEF AtVersion, NoVersion
<1> QED
  BY <1>1, <1>2, <1>3, TablesAssumption DEF AtVersion, DataInTables, e

LEMMA MigratedAt ==
  ASSUME NEW d, NEW v \in Versions, AtVersion(d, v),
         NEW w \in Versions, w # v, v = "base" => w # "0001"
  PROVE  /\ AtVersion(Migrated(d, w), w)
         /\ w # "base" => Filled(d) \subseteq Filled(Migrated(d, w))
<1> DEFINE e == WithVersionTable(d)
<1>1. d.version[Target] = v
  BY AtVersionType
<1>2. AtVersion(e, v) /\ VersionTable \in e.tables[Target] /\ Filled(e) = Filled(d)
  BY WithVersionTableAt DEF Filled
<1> HIDE DEF e
<1>3. CASE v = "base"
  <2>1. w = "0002" /\ Migrated(d, w) = Upgrade0002(Upgrade0001(e))
    BY <1>1, <1>3 DEF Migrated, e
  <2>2. AtVersion(Upgrade0001(e), "0001") /\ Filled(Upgrade0001(e)) = Filled(e)
    BY <1>2, <1>3, Upgrade0001At DEF Filled
  <2> QED
    BY <1>2, <2>1, <2>2, Upgrade0002At
<1>4. CASE v = "0001"
  BY <1>1, <1>2, <1>4, Upgrade0002At, Downgrade0001At DEF Migrated, e
<1>5. CASE v = "0002"
  BY <1>1, <1>2, <1>5, Downgrade0002At, Downgrade0001At DEF Migrated, e
<1> QED
  BY <1>3, <1>4, <1>5

-----------------------------------------------------------------------------
(* The invariant.                                                            *)

IInv == TypeOK /\ VersionIsTruth /\ MigrationsExclude

LEMMA StartsTruthful == Init => IInv
<1> SUFFICES ASSUME Init PROVE IInv
  OBVIOUS
<1>1. CASE db = Fresh
  <2>1. AtVersion(db, "base")
    BY <1>1 DEF Fresh, AtVersion, Databases, Nothing, NoVersion, DataInTables
  <2> QED
    BY <2>1, AtVersionTruthful, AtVersionType
       DEF Init, IInv, TypeOK, VersionIsTruth, MigrationsExclude, OneMigrates, PlanHolds,
           VersionIsPinned
<1>2. ASSUME NEW s \in {"public", Legacy}, NEW filled \in SUBSET AppTables,
             db = Old(s, filled)
      PROVE  IInv
  <2>1. /\ db.tables = [Nothing EXCEPT ![Legacy] = AppTables, ![s] = @ \cup {VersionTable}]
        /\ db.data = [Nothing EXCEPT ![Legacy] = filled]
        /\ db.version = [NoVersion EXCEPT ![s] = "0001"]
    BY <1>2 DEF Old
  <2>2. db.tables \in [Schemas -> SUBSET Tables]
    BY <2>1 DEF Nothing, Tables
  <2>3. db.data \in [Schemas -> SUBSET AppTables]
    BY <2>1 DEF Nothing
  <2>4. db.version \in [Schemas -> Versions]
    BY <2>1 DEF NoVersion
  <2>5. db \in Databases
    BY <1>2, <2>2, <2>3, <2>4 DEF Databases, Old
  <2>6. /\ \A u \in Schemas : HoldsVersionTable(db, u) <=> u = s
        /\ \A u \in Schemas \ {s} : db.version[u] = "base"
        /\ db.version[s] = "0001"
    BY <2>1, TablesAssumption DEF HoldsVersionTable, Nothing, NoVersion
  <2>7. AppTablesOf(db) = TablesAt("0001")
    BY <2>1, <2>2, TablesAssumption DEF AppTablesOf, TablesAt, Nothing
  <2>8. Truthful(db) /\ DataInTables(db)
    BY <2>1, <2>6, <2>7 DEF Truthful, DataInTables, Nothing
  <2> QED
    BY <2>5, <2>8
       DEF Init, IInv, TypeOK, VersionIsTruth, MigrationsExclude, OneMigrates, PlanHolds,
           VersionIsPinned
<1> QED
  BY <1>1, <1>2 DEF Init

(* The runs of alembic, where they leave the database alone.                 *)
LEMMA RunsKeep ==
  ASSUME IInv, [Next]_vars, UNCHANGED db
  PROVE  IInv'
<1> USE DEF IInv
<1>1. db' = db /\ VersionIsTruth' /\ DataInTables(db')
  BY DEF VersionIsTruth, MigrationsExclude
<1>2. TypeOK' /\ OneMigrates' /\ PlanHolds' /\ VersionIsPinned'
  <2> USE <1>1 DEF MigrationsExclude
  <2>1. CASE ContainerStart
    BY <2>1 DEF ContainerStart, Starts, TypeOK, OneMigrates, PlanHolds, VersionIsPinned, Runners
  <2>2. CASE ContainerStop
    <3>1. container' = FALSE /\ serving' = FALSE /\ UNCHANGED <<goal, ready>>
      BY <2>2 DEF ContainerStop
    <3>2. CASE UNCHANGED <<pc, plan, exit>>
      BY <3>1, <3>2 DEF TypeOK, OneMigrates, PlanHolds, VersionIsPinned
    <3>3. CASE Ends(Container, "failed")
      BY <3>1, <3>3 DEF Ends, TypeOK, OneMigrates, PlanHolds, VersionIsPinned
    <3> QED
      BY <2>2, <3>2, <3>3 DEF ContainerStop
  <2>3. CASE ProgramStarts \/ ProgramCrashes \/ Probe
    BY <2>3 DEF ProgramStarts, ProgramCrashes, Probe, runs, TypeOK, OneMigrates, PlanHolds,
                VersionIsPinned
  <2>4. ASSUME NEW m \in Operators, NEW v \in Versions, RunAlembic(m, v)
        PROVE  TypeOK' /\ OneMigrates' /\ PlanHolds' /\ VersionIsPinned'
    BY <2>4 DEF RunAlembic, Starts, TypeOK, OneMigrates, PlanHolds, VersionIsPinned, Runners
  <2>5. ASSUME NEW m \in Runners, Step(m) \/ Fail(m)
        PROVE  TypeOK' /\ OneMigrates' /\ PlanHolds' /\ VersionIsPinned'
    <3>1. CASE Relocate(m)
      <4>1. Relocated(db) = db
        BY <3>1, <1>1 DEF Relocate
      <4>2. Pinned(db)
        BY <4>1, RelocatedKeeps DEF TypeOK, VersionIsTruth
      <4> QED
        BY <3>1, <4>2 DEF Relocate, TypeOK, OneMigrates, PlanHolds, VersionIsPinned
    <3>2. CASE Plan(m)
      BY <3>2 DEF Plan, TypeOK, OneMigrates, PlanHolds, VersionIsPinned, Databases
    <3>3. CASE Migrate(m)
      BY <3>3 DEF Migrate, Waits, Applies, TypeOK, OneMigrates, PlanHolds, VersionIsPinned
    <3>4. CASE NoSuchPath(m) \/ NothingToDo(m) \/ MigrateRefused(m) \/ CommitRevisions(m) \/ Fail(m)
      BY <3>4 DEF NoSuchPath, NothingToDo, MigrateRefused, CommitRevisions, Fail, Ends,
                  TypeOK, OneMigrates, PlanHolds, VersionIsPinned
    <3> QED
      BY <2>5, <3>1, <3>2, <3>3, <3>4 DEF Step
  <2>6. ASSUME NEW t \in AppTables, Serve(t)
        PROVE  TypeOK' /\ OneMigrates' /\ PlanHolds' /\ VersionIsPinned'
    BY <2>6 DEF Serve, runs, TypeOK, OneMigrates, PlanHolds, VersionIsPinned
  <2>7. CASE UNCHANGED vars
    BY <2>7 DEF vars, TypeOK, OneMigrates, PlanHolds, VersionIsPinned
  <2> QED
    BY <2>1, <2>2, <2>3, <2>4, <2>5, <2>6, <2>7 DEF Next
<1> QED
  BY <1>1, <1>2 DEF MigrationsExclude

(* The steps that change the database.                                       *)
LEMMA RelocateKeeps ==
  ASSUME IInv, NEW m \in Runners, Relocate(m)
  PROVE  IInv' /\ Filled(db') = Filled(db)
<1> USE DEF IInv
<1>1. db \in Databases /\ Truthful(db) /\ DataInTables(db)
  BY DEF TypeOK, VersionIsTruth, MigrationsExclude
<1>2. /\ db' \in Databases /\ Truthful(db') /\ Pinned(db') /\ DataInTables(db')
      /\ Filled(db') = Filled(db)
      /\ Pinned(db) => db' = db
  BY <1>1, RelocatedKeeps DEF Relocate
<1>3. TypeOK' /\ OneMigrates'
  BY <1>2 DEF Relocate, TypeOK, MigrationsExclude, OneMigrates
<1>4. PlanHolds' /\ VersionIsPinned'
  BY <1>2 DEF Relocate, TypeOK, MigrationsExclude, PlanHolds, VersionIsPinned
<1> QED
  BY <1>2, <1>3, <1>4 DEF VersionIsTruth, MigrationsExclude

LEMMA NothingToDoKeeps ==
  ASSUME IInv, NEW m \in Runners, NothingToDo(m)
  PROVE  IInv' /\ Filled(db') = Filled(db)
<1> USE DEF IInv
<1> DEFINE v == db.version[Target]
<1>1. Pinned(db)
  BY DEF NothingToDo, MigrationsExclude, VersionIsPinned
<1>2. AtVersion(db, v) /\ v \in Versions
  BY <1>1, TruthfulAtVersion DEF TypeOK, VersionIsTruth, MigrationsExclude, Databases
<1>3. AtVersion(db', v) /\ db'.version = db.version /\ Filled(db') = Filled(db)
  BY <1>2, WithVersionTableAt DEF NothingToDo, Filled
<1>4. /\ db' \in Databases /\ Truthful(db') /\ Pinned(db') /\ DataInTables(db')
  BY <1>2, <1>3, AtVersionTruthful, AtVersionType
<1>5. TypeOK' /\ OneMigrates'
  BY <1>4 DEF NothingToDo, Ends, TypeOK, MigrationsExclude, OneMigrates
<1>6. PlanHolds' /\ VersionIsPinned'
  BY <1>3, <1>4 DEF NothingToDo, Ends, TypeOK, MigrationsExclude, PlanHolds, VersionIsPinned
<1> QED
  BY <1>3, <1>4, <1>5, <1>6 DEF VersionIsTruth, MigrationsExclude

LEMMA CommitKeeps ==
  ASSUME IInv, NEW m \in Runners, CommitRevisions(m)
  PROVE  IInv' /\ (goal[m] # "base" => Filled(db) \subseteq Filled(db'))
<1> USE DEF IInv
<1> DEFINE v == db.version[Target]
<1>1. Pinned(db)
  BY DEF CommitRevisions, MigrationsExclude, VersionIsPinned
<1>2. AtVersion(db, v) /\ v \in Versions
  BY <1>1, TruthfulAtVersion DEF TypeOK, VersionIsTruth, MigrationsExclude, Databases
<1>3. goal[m] \in Versions /\ goal[m] # v /\ (v = "base" => goal[m] # "0001")
  BY DEF CommitRevisions, MigrationsExclude, PlanHolds, TypeOK
<1>4. AtVersion(db', goal[m]) /\ (goal[m] # "base" => Filled(db) \subseteq Filled(db'))
  BY <1>2, <1>3, MigratedAt DEF CommitRevisions
<1>5. db' \in Databases /\ Truthful(db') /\ Pinned(db') /\ DataInTables(db')
  BY <1>3, <1>4, AtVersionTruthful, AtVersionType
<1>6. \A n \in Runners : pc'[n] # "commit"
  BY DEF CommitRevisions, Ends, TypeOK, MigrationsExclude, OneMigrates
<1>7. TypeOK' /\ OneMigrates'
  BY <1>5, <1>6 DEF CommitRevisions, Ends, TypeOK, OneMigrates
<1>8. PlanHolds' /\ VersionIsPinned'
  BY <1>5, <1>6 DEF CommitRevisions, Ends, TypeOK, MigrationsExclude, PlanHolds, VersionIsPinned
<1> QED
  BY <1>4, <1>5, <1>7, <1>8 DEF VersionIsTruth, MigrationsExclude

LEMMA ServeKeeps ==
  ASSUME IInv, NEW t \in AppTables, Serve(t)
  PROVE  IInv' /\ Filled(db) \subseteq Filled(db')
<1> USE DEF IInv
<1>1. /\ db \in Databases /\ db.data \in [Schemas -> SUBSET AppTables]
      /\ db = [tables |-> db.tables, data |-> db.data, version |-> db.version]
  BY DEF TypeOK, Databases
<1>2. /\ db'.data = [db.data EXCEPT ![Target] = @ \cup {t}]
      /\ db'.tables = db.tables /\ db'.version = db.version
      /\ db' \in Databases
  BY <1>1 DEF Serve, Databases
<1>3. Truthful(db') /\ (Pinned(db) => Pinned(db'))
  BY <1>2 DEF VersionIsTruth, Truthful, Pinned, AppTablesOf, HoldsVersionTable
<1>4. DataInTables(db')
  BY <1>1, <1>2 DEF Serve, MigrationsExclude, DataInTables
<1>5. Filled(db) \subseteq Filled(db')
  BY <1>1, <1>2 DEF Filled
<1>6. TypeOK' /\ OneMigrates' /\ PlanHolds' /\ VersionIsPinned'
  BY <1>2, <1>3 DEF Serve, runs, TypeOK, MigrationsExclude, OneMigrates, PlanHolds,
                    VersionIsPinned
<1> QED
  BY <1>3, <1>4, <1>5, <1>6 DEF VersionIsTruth, MigrationsExclude

(* Every step keeps the invariant, and the rows unless it goes to the base.  *)
LEMMA StepsKeep ==
  ASSUME IInv, [Next]_vars
  PROVE  IInv' /\ (Filled(db) \subseteq Filled(db') \/ DowngradesToBase)
<1>1. CASE UNCHANGED db
  BY <1>1, RunsKeep
<1>2. ASSUME NEW m \in Runners, Relocate(m)
      PROVE  IInv' /\ Filled(db) \subseteq Filled(db')
  BY <1>2, RelocateKeeps
<1>3. ASSUME NEW m \in Runners, NothingToDo(m)
      PROVE  IInv' /\ Filled(db) \subseteq Filled(db')
  BY <1>3, NothingToDoKeeps
<1>4. ASSUME NEW m \in Runners, CommitRevisions(m)
      PROVE  IInv' /\ (Filled(db) \subseteq Filled(db') \/ DowngradesToBase)
  BY <1>4, CommitKeeps DEF DowngradesToBase
<1>5. ASSUME NEW t \in AppTables, Serve(t)
      PROVE  IInv' /\ Filled(db) \subseteq Filled(db')
  BY <1>5, ServeKeeps
<1>6. Next => \/ UNCHANGED db
              \/ \E m \in Runners : Relocate(m) \/ NothingToDo(m) \/ CommitRevisions(m)
              \/ \E t \in AppTables : Serve(t)
  BY DEF Next, Step, ContainerStart, ContainerStop, ProgramStarts, ProgramCrashes, Probe,
         RunAlembic, Fail, Plan, NoSuchPath, Migrate, MigrateRefused
<1> QED
  BY <1>1, <1>2, <1>3, <1>4, <1>5, <1>6 DEF vars

-----------------------------------------------------------------------------
LEMMA Invariance == Spec => []IInv
<1>1. IInv /\ [Next]_vars => IInv'
  BY StepsKeep
<1> QED
  BY <1>1, StartsTruthful, PTL DEF Spec

(***************************************************************************)
(* Type correctness.                                                       *)
(***************************************************************************)
THEOREM TypeCorrect == Spec => []TypeOK
<1>1. IInv => TypeOK
  BY DEF IInv
<1> QED
  BY <1>1, Invariance, PTL

(***************************************************************************)
(* Whoever runs alembic and whatever interrupts it, the recorded version   *)
(* says where the tables are (env.py:19-53, 0002:27-69).                   *)
(***************************************************************************)
THEOREM VersionTruth == Spec => []VersionIsTruth
<1>1. IInv => VersionIsTruth
  BY DEF IInv
<1> QED
  BY <1>1, Invariance, PTL

(***************************************************************************)
(* How the runs keep out of one another's way.                             *)
(***************************************************************************)
THEOREM Exclusion == Spec => []MigrationsExclude
<1>1. IInv => MigrationsExclude
  BY DEF IInv
<1> QED
  BY <1>1, Invariance, PTL

(***************************************************************************)
(* Only a downgrade to the base loses rows (0002:3-7, 0001:200-201).       *)
(***************************************************************************)
THEOREM DataPreserved == Spec => OnlyBaseDropsData
<1>1. IInv /\ [Next]_vars => [Filled(db) \subseteq Filled(db') \/ DowngradesToBase]_vars
  BY StepsKeep
<1> QED
  BY <1>1, Invariance, PTL DEF Spec, OnlyBaseDropsData
=============================================================================
