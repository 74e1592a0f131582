------------------------- MODULE StartupProperties -------------------------
(***************************************************************************)
(* What the runs of alembic leave behind, whoever runs it and whatever     *)
(* interrupts it.                                                          *)
(***************************************************************************)
EXTENDS Startup

(* The tables of a database at each version.                               *)
TablesAt(v) ==
  [s \in Schemas |->
     IF (v = "0001" /\ s = Legacy) \/ (v = "0002" /\ s = Target) THEN AppTables ELSE {}]

HoldsVersionTable(d, s) == VersionTable \in d.tables[s]

(* Everything but the version table, and what it records. *)
AppTablesOf(d) == [s \in Schemas |-> d.tables[s] \ {VersionTable}]

(***************************************************************************)
(* The recorded version is the truth (env.py:19-53, 0002:27-69): there is  *)
(* at most one version table, it is never left behind in a dropped schema, *)
(* and the tables are, all of them and nowhere else, where its version     *)
(* says; without one the database is empty.  The next run of alembic       *)
(* starts from there, so nothing else keeps a later start from failing.    *)
(***************************************************************************)
Truthful(d) ==
  /\ \A s, u \in Schemas : HoldsVersionTable(d, s) /\ HoldsVersionTable(d, u) => s = u
  /\ \A s \in Schemas : ~HoldsVersionTable(d, s) => d.version[s] = "base"
  /\ IF \E s \in Schemas : HoldsVersionTable(d, s)
     THEN \E s \in Schemas : HoldsVersionTable(d, s)
                             /\ AppTablesOf(d) = TablesAt(d.version[s])
     ELSE AppTablesOf(d) = Nothing

VersionIsTruth == Truthful(db)

(***************************************************************************)
(* What makes that inductive.                                              *)
(***************************************************************************)
(* At most one run has DDL of its own that is not committed.               *)
OneMigrates == \A m, n \in Runners : pc[m] = "commit" /\ pc[n] = "commit" => m = n

(* Revisions were planned for the database as it still is.                 *)
PlanHolds ==
  \A m \in Runners :
    /\ pc[m] \in {"migrate", "commit"} /\ plan[m] = "base" => goal[m] # "0001"
    /\ pc[m] = "commit" => db.version[Target] = plan[m] /\ plan[m] # goal[m]

(* env.py has brought the version table to `positions` before.             *)
Pinned(d) == \A s \in Schemas \ {Target} : ~HoldsVersionTable(d, s)

VersionIsPinned ==
  \A m \in Runners : pc[m] \in {"plan", "migrate", "commit"} => Pinned(db)

(* Rows are in tables.                                                     *)
DataInTables(d) == \A s \in Schemas : d.data[s] \subseteq d.tables[s]

MigrationsExclude ==
  OneMigrates /\ PlanHolds /\ VersionIsPinned /\ DataInTables(db)

(***************************************************************************)
(* "This is data-preserving" (0002:3-7): whatever runs, fails and writes   *)
(* side by side, tables lose their rows only in a downgrade to the base.   *)
(***************************************************************************)
Filled(d) == UNION { d.data[s] : s \in Schemas }

DowngradesToBase == \E m \in Runners : goal[m] = "base" /\ CommitRevisions(m)

OnlyBaseDropsData == [][Filled(db) \subseteq Filled(db') \/ DowngradesToBase]_vars

(***************************************************************************)
(* Fairness: a started run of alembic goes on (or fails).  Nothing needs   *)
(* to be started, stopped or asked.                                        *)
(***************************************************************************)
FairSpec == Spec /\ \A m \in Runners : WF_vars(Step(m))

AtHead == db.version[Target] = Head
          /\ db.tables[Target] = AppTables \cup {VersionTable}

(***************************************************************************)
(* The service comes up (supervisord.conf:7-15): when the container is up  *)
(* for good, every run of alembic that was asked for in the end was an     *)
(* upgrade and none of these was interrupted, then the database comes to   *)
(* the head and stays there, from whatever the runs before left behind.    *)
(* A run that is refused by the database has no excuse here.               *)
(***************************************************************************)
Undisturbed ==
  /\ container
  /\ \A m \in Runners : goal[m] = Head /\ exit[m] # "failed"

ComesUp == <>[]Undisturbed => <>[]AtHead

(***************************************************************************)
(* The schema `positions` has eight tables (README.md:273-286,             *)
(* tests/test_schema.py:111), and the readiness route checks for them      *)
(* (README.md:67): a probe of a database at the head finds it ready.       *)
(***************************************************************************)
ReadyAtHead == [][Probe /\ AtHead => ready' = "ok"]_vars
=============================================================================
