------------------------------ MODULE Startup ------------------------------
(***************************************************************************)
(* Starting the service: the container's `alembic upgrade head`            *)
(* (supervisord.conf), the `alembic` commands an operator runs beside it,  *)
(* env.py and the two revisions they execute, the programs that are        *)
(* started five seconds later, and the readiness probe.                    *)
(*                                                                         *)
(* A run of alembic makes two transactions: env.py moves the version table *)
(* into the schema `positions` and commits; then the recorded version is   *)
(* read and the revisions up to the goal are applied, all in one           *)
(* transaction (DDL is transactional in PostgreSQL), whose writes reach    *)
(* the database in CommitRevisions.  Until then its locks make the DDL and *)
(* the writes of the others wait.                                          *)
(***************************************************************************)
EXTENDS Naturals, FiniteSets

CONSTANTS AppTables,   \* the tables the application uses: EXPECTED_TABLES
          Container,   \* the container's run of alembic
          Operators    \* the shells in which operators run alembic

VersionTable == "quant_positions_alembic_version"
Target       == "positions"
Legacy       == "position_tracking"
Schemas      == {"public", Legacy, Target}
Tables       == AppTables \cup {VersionTable}

Versions == {"base", "0001", "0002"}
Head     == "0002"
EXPECTED_SCHEMA_VERSION == "0002"

Runners == Operators \cup {Container}

ASSUME TablesAssumption == VersionTable \notin AppTables /\ AppTables # {}

VARIABLES
  db,         \* the committed tables, the ones with rows, the recorded version, by schema
  pc,         \* [Runners -> what the run of alembic does next]
  goal,       \* [Runners -> the revision its command names]
  plan,       \* [Runners -> the version it has read]
  exit,       \* [Runners -> how its last run ended]
  container,  \* the container is up
  serving,    \* one of its programs is past its `sleep 5` (API or worker)
  ready       \* what the last readiness probe answered

runs == <<pc, goal, plan, exit>>
vars == <<db, pc, goal, plan, exit, container, serving, ready>>

Databases ==
  [ tables  : [Schemas -> SUBSET Tables],
    data    : [Schemas -> SUBSET AppTables],
    version : [Schemas -> Versions] ]

TypeOK ==
  /\ db \in Databases
  /\ pc \in [Runners -> {"off", "relocate", "plan", "migrate", "commit"}]
  /\ goal \in [Runners -> Versions]
  /\ plan \in [Runners -> Versions]
  /\ exit \in [Runners -> {"none", "ok", "refused", "failed"}]
  /\ container \in BOOLEAN
  /\ serving \in BOOLEAN
  /\ ready \in {"none", "ok", "not_ready"}

Nothing == [s \in Schemas |-> {}]
NoVersion == [s \in Schemas |-> "base"]

Fresh == [tables |-> Nothing, data |-> Nothing, version |-> NoVersion]

(* A deployment from before the version table was pinned to `positions`.   *)
Old(s, filled) ==
  [ tables  |-> [Nothing EXCEPT ![Legacy] = AppTables, ![s] = @ \cup {VersionTable} ],
    data    |-> [Nothing EXCEPT ![Legacy] = filled],
    version |-> [NoVersion EXCEPT ![s] = "0001"] ]

Init ==
  /\ \/ db = Fresh
     \/ \E s \in {"public", Legacy}, filled \in SUBSET AppTables : db = Old(s, filled)
  /\ pc = [m \in Runners |-> "off"]
  /\ goal = [m \in Runners |-> Head]
  /\ plan = [m \in Runners |-> "base"]
  /\ exit = [m \in Runners |-> "none"]
  /\ container = FALSE
  /\ serving = FALSE
  /\ ready = "none"

-----------------------------------------------------------------------------
(* The DDL, as functions of the database.                                    *)

(* ALTER TABLE ... SET SCHEMA for the tables of T that are in `from`.        *)
Moved(f, T, from, to) ==
  [f EXCEPT ![from] = @ \ T, ![to] = @ \cup (f[from] \cap T)]

Dropped(f, s) == [f EXCEPT ![s] = {}]

(* _relocate_version_table: from the schema it is found in, `public` first.  *)
(* Mutant: only the schema is created.                                       *)
RelocatesNothing(d) == d

Relocated(d) ==
  LET found == { s \in Schemas \ {Target} : VersionTable \in d.tables[s] }
      src   == IF "public" \in found THEN "public" ELSE Legacy
  IN  IF VersionTable \in d.tables[Target] \/ found = {}
      THEN d
      ELSE [ d EXCEPT !.tables = Moved(@, {VersionTable}, src, Target),
                      !.version = [@ EXCEPT ![src] = "base", ![Target] = d.version[src]] ]

(* Alembic creates its version table when it finds no version.               *)
WithVersionTable(d) ==
  IF d.version[Target] = "base"
  THEN [d EXCEPT !.tables[Target] = @ \cup {VersionTable}]
  ELSE d

(* It records a revision it has applied. *)
Recorded(d, v) == [d.version EXCEPT ![Target] = v]

Upgrade0001(d) ==
  [ tables  |-> [d.tables EXCEPT ![Legacy] = @ \cup AppTables],
    data    |-> d.data,
    version |-> Recorded(d, "0001") ]

(* Mutants: the legacy schema is dropped with its tables, which are created  *)
(* again; the revision is recorded under another name.                       *)
DropsThenCreates(d) ==
  [ tables  |-> Dropped([d.tables EXCEPT ![Target] = @ \cup AppTables], Legacy),
    data    |-> Dropped(d.data, Legacy),
    version |-> Recorded(d, "0002") ]

UpgradesRenamed(d) ==
  [ tables  |-> Dropped(Moved(d.tables, Tables, Legacy, Target), Legacy),
    data    |-> Dropped(Moved(d.data, AppTables, Legacy, Target), Legacy),
    version |-> Recorded(d, "0002_positions") ]

Upgrade0002(d) ==
  [ tables  |-> Dropped(Moved(d.tables, Tables, Legacy, Target), Legacy),
    data    |-> Dropped(Moved(d.data, AppTables, Legacy, Target), Legacy),
    version |-> Recorded(d, "0002") ]

(* Mutant: the tables stay where they are.                                   *)
KeepsTables(d) == [d EXCEPT !.version = Recorded(d, "0001")]

Downgrade0002(d) ==
  [ tables  |-> Moved(d.tables, AppTables, Target, Legacy),
    data    |-> Moved(d.data, AppTables, Target, Legacy),
    version |-> Recorded(d, "0001") ]

Downgrade0001(d) ==
  [ tables  |-> Dropped(d.tables, Legacy),
    data    |-> Dropped(d.data, Legacy),
    version |-> Recorded(d, "base") ]

(* The revisions from the recorded version to another one, v.                *)
Migrated(d, v) ==
  LET from == d.version[Target]
      e    == WithVersionTable(d)
      down == IF from = "0002" THEN Downgrade0002(e) ELSE e
  IN  IF v = Head
      THEN Upgrade0002(IF from = "base" THEN Upgrade0001(e) ELSE e)
      ELSE IF v = "base" THEN Downgrade0001(down) ELSE down

(* What makes a revision fail: the version row is not the one it expects, a  *)
(* table to create exists, a table to move meets one of its name.            *)
Applies(d, from) ==
  /\ d.version[Target] = from
  /\ from = "base" => d.tables[Legacy] \cap AppTables = {}
  /\ from # "0002" => d.tables[Target] \cap AppTables = {}
  /\ from = "0002" => d.tables[Legacy] \cap AppTables = {}

-----------------------------------------------------------------------------
(* Another run of alembic has revisions it has not committed.                *)
Waits(m) == \E n \in Runners \ {m} : pc[n] = "commit"

Ends(m, how) ==
  /\ pc' = [pc EXCEPT ![m] = "off"]
  /\ plan' = [plan EXCEPT ![m] = "base"]
  /\ exit' = [exit EXCEPT ![m] = how]

Starts(m, v) ==
  /\ pc' = [pc EXCEPT ![m] = "relocate"]
  /\ goal' = [goal EXCEPT ![m] = v]
  /\ exit' = [exit EXCEPT ![m] = "none"]
  /\ UNCHANGED plan

(* `alembic upgrade head`, `alembic downgrade 0001_...`, `downgrade base`.   *)
RunAlembic(m, v) ==
  /\ pc[m] = "off"
  /\ Starts(m, v)
  /\ UNCHANGED <<db, container, serving, ready>>

(* supervisord starts [program:alembic-migrate]; it is not restarted.        *)
ContainerStart ==
  /\ ~container
  /\ container' = TRUE
  /\ Starts(Container, Head)
  /\ UNCHANGED <<db, serving, ready>>

(* Everything in the container is killed; open transactions roll back.       *)
ContainerStop ==
  /\ container
  /\ container' = FALSE
  /\ serving' = FALSE
  /\ IF pc[Container] = "off" THEN UNCHANGED <<pc, plan, exit>>
                              ELSE Ends(Container, "failed")
  /\ UNCHANGED <<db, goal, ready>>

(* `sleep 5` is over, whatever has become of the migration.                  *)
ProgramStarts ==
  /\ container /\ ~serving
  /\ serving' = TRUE
  /\ UNCHANGED <<db, runs, container, ready>>

(* supervisord starts it again: autorestart, startretries=999.               *)
ProgramCrashes ==
  /\ serving
  /\ serving' = FALSE
  /\ UNCHANGED <<db, runs, container, ready>>

Relocate(m) ==
  /\ pc[m] = "relocate"
  /\ db' = Relocated(db)
  /\ pc' = [pc EXCEPT ![m] = "plan"]
  /\ UNCHANGED <<goal, plan, exit, container, serving, ready>>

(* The recorded version is read.                                             *)
Plan(m) ==
  /\ pc[m] = "plan"
  /\ ~(db.version[Target] = "base" /\ goal[m] = "0001")
  /\ plan' = [plan EXCEPT ![m] = db.version[Target]]
  /\ pc' = [pc EXCEPT ![m] = "migrate"]
  /\ UNCHANGED <<db, goal, exit, container, serving, ready>>

(* There is no way down from the base.                                       *)
NoSuchPath(m) ==
  /\ pc[m] = "plan"
  /\ db.version[Target] = "base" /\ goal[m] = "0001"
  /\ Ends(m, "refused")
  /\ UNCHANGED <<db, goal, container, serving, ready>>

(* It was the goal already: no revision is executed.                         *)
NothingToDo(m) ==
  /\ pc[m] = "migrate"
  /\ plan[m] = goal[m]
  /\ plan[m] = "base" => ~Waits(m)
  /\ db' = IF plan[m] = "base" THEN WithVersionTable(db) ELSE db
  /\ Ends(m, "ok")
  /\ UNCHANGED <<goal, container, serving, ready>>

(* The revisions are executed; the first one waits for the DDL of others.    *)
Migrate(m) ==
  /\ pc[m] = "migrate"
  /\ plan[m] # goal[m]
  /\ ~Waits(m)
  /\ Applies(db, plan[m])
  /\ pc' = [pc EXCEPT ![m] = "commit"]
  /\ UNCHANGED <<db, goal, plan, exit, container, serving, ready>>

MigrateRefused(m) ==
  /\ pc[m] = "migrate"
  /\ plan[m] # goal[m] \/ plan[m] = "base"
  /\ ~Waits(m)
  /\ ~Applies(db, plan[m])
  /\ Ends(m, "refused")
  /\ UNCHANGED <<db, goal, container, serving, ready>>

CommitRevisions(m) ==
  /\ pc[m] = "commit"
  /\ db' = Migrated(db, goal[m])
  /\ Ends(m, "ok")
  /\ UNCHANGED <<goal, container, serving, ready>>

(* The run is interrupted, or its connection breaks: all is rolled back but  *)
(* what it has committed.                                                    *)
Fail(m) ==
  /\ pc[m] # "off"
  /\ Ends(m, "failed")
  /\ UNCHANGED <<db, goal, container, serving, ready>>

(* The API or the worker writes to a table; uncommitted DDL makes it wait,   *)
(* and where the schema has no such table it fails.                          *)
Serve(t) ==
  /\ serving
  /\ t \in db.tables[Target]
  /\ \A m \in Runners : pc[m] # "commit"
  /\ db' = [db EXCEPT !.data[Target] = @ \cup {t}]
  /\ UNCHANGED <<runs, container, serving, ready>>

(* GET /positions/ready.  Its first SELECT fails unless `positions` holds    *)
(* the version table, and its second lists the tables of `positions`.        *)
Probe ==
  /\ serving
  /\ ready' = IF /\ VersionTable \in db.tables[Target]
                 /\ db.version[Target] = EXPECTED_SCHEMA_VERSION
                 /\ db.tables[Target] = AppTables
              THEN "ok" ELSE "not_ready"
  /\ UNCHANGED <<db, runs, container, serving>>

-----------------------------------------------------------------------------
Step(m) ==
  \/ Relocate(m) \/ Plan(m) \/ NoSuchPath(m) \/ NothingToDo(m)
  \/ Migrate(m) \/ MigrateRefused(m) \/ CommitRevisions(m)

Next ==
  \/ ContainerStart \/ ContainerStop \/ ProgramStarts \/ ProgramCrashes \/ Probe
  \/ \E m \in Operators, v \in Versions : RunAlembic(m, v)
  \/ \E m \in Runners : Step(m) \/ Fail(m)
  \/ \E t \in AppTables : Serve(t)

Spec == Init /\ [][Next]_vars
=============================================================================
