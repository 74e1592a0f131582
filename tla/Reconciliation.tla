--------------------------- MODULE Reconciliation ---------------------------
(***************************************************************************)
(* The reconciliation worker of workers/reconciliation.py beside the       *)
(* imports of LedgerImport.  A worker sleeps, makes a pass over the        *)
(* positions in one READ COMMITTED transaction, and sleeps again.  One     *)
(* action is one SQL statement, with the Python code up to the next one;   *)
(* the INSERT of a warning, which nobody sees before the commit, belongs   *)
(* to the SELECT that gave rise to it.                                     *)
(*                                                                         *)
(* Several workers may run: the one supervisor starts, and any --once run. *)
(* The times in worker_heartbeats and in the runs are left out; the lock   *)
(* on the heartbeat's row is not.                                          *)
(***************************************************************************)
EXTENDS LedgerProperties, FiniteSets

CONSTANTS Workers,   \* the processes that make passes
          MaxRuns    \* bound: run ids start again at 1 after this one, and the
                     \* tables forget the run whose id is given again

ASSUME MaxRunsAssumption == MaxRuns \in Nat \ {0}

(* A database names finitely many portfolios and tickers. *)
ASSUME FiniteNamesAssumption == IsFiniteSet(Portfolios) /\ IsFiniteSet(Tickers)

VARIABLES
  runs,       \* positions.reconciliation_runs, the committed rows by id
  warnings,   \* positions.reconciliation_warnings, the committed rows
  lastRun,    \* the run id the sequence gave last
  wpc,        \* [Workers -> the statement the worker runs next]
  run_id,     \* [Workers -> the run of its pass, 0 while unbound]
  seen,       \* [Workers -> the positions as its pass has read them]
  todo,       \* [Workers -> the positions read and not yet checked]
  found,      \* [Workers -> the warnings its pass has inserted]
  checked,    \* [Workers -> positions_checked]
  warnings_found,  \* [Workers -> the local of that name]
  horizon,    \* [Workers -> history: the entries committed when it read]
  reported    \* history: the greatest horizon of a committed run

runTables  == <<runs, warnings, lastRun, reported>>
passLocals == <<run_id, seen, todo, found, checked, warnings_found, horizon>>
workerVars == <<runs, warnings, lastRun, wpc, run_id, seen, todo, found, checked,
                warnings_found, horizon, reported>>
allVars    == <<vars, workerVars>>

RunIds == 1..MaxRuns

WorkerStatements == {"sleep", "run", "read", "check", "complete", "commit", "failed"}

NoRun == [status |-> "none", positions_checked |-> 0, warnings_found |-> 0]

Runs == {NoRun} \cup [ status            : {"completed", "failed"},
                       positions_checked : 0..Cardinality(PositionIds),
                       warnings_found    : 0..2 * Cardinality(PositionIds) ]

(* A missing_current_position has no actual quantity; NoRow stands for it. *)
Warnings == [ run_id       : RunIds,
              position_id  : PositionIds,
              warning_type : {"quantity_mismatch", "missing_current_position"},
              expected     : Int,
              actual       : Int ]

NothingSeen == [p \in PositionIds |-> NoRow]

InitWorkers ==
  /\ runs = [i \in RunIds |-> NoRun]
  /\ warnings = {}
  /\ lastRun = MaxRuns
  /\ reported = 0
  /\ wpc = [w \in Workers |-> "sleep"]
  /\ run_id = [w \in Workers |-> 0]
  /\ seen = [w \in Workers |-> NothingSeen]
  /\ todo = [w \in Workers |-> {}]
  /\ found = [w \in Workers |-> {}]
  /\ checked = [w \in Workers |-> 0]
  /\ warnings_found = [w \in Workers |-> 0]
  /\ horizon = [w \in Workers |-> 0]

InitAll == Init /\ InitWorkers

-----------------------------------------------------------------------------
(* The worker v has upserted the heartbeat and not ended its transaction.  *)
(* Mutant: the upsert takes no lock on the row.                            *)
HeartbeatUnlocked(v) == FALSE

HoldsHeartbeat(v) == wpc[v] \in {"run", "read", "check", "complete", "commit"}

NextRunId == (lastRun % MaxRuns) + 1

NextStatement(w, s) == wpc' = [wpc EXCEPT ![w] = s]

(* The pass of w is over: its locals go out of scope.                      *)
PassEnds(w) ==
  /\ NextStatement(w, "sleep")
  /\ run_id' = [run_id EXCEPT ![w] = 0]
  /\ seen' = [seen EXCEPT ![w] = NothingSeen]
  /\ todo' = [todo EXCEPT ![w] = {}]
  /\ found' = [found EXCEPT ![w] = {}]
  /\ checked' = [checked EXCEPT ![w] = 0]
  /\ warnings_found' = [warnings_found EXCEPT ![w] = 0]
  /\ horizon' = [horizon EXCEPT ![w] = 0]

(* INSERT INTO worker_heartbeats ... ON CONFLICT DO UPDATE: waits for the  *)
(* transaction that holds the row.                                         *)
Heartbeat(w) ==
  /\ wpc[w] = "sleep"
  /\ \A v \in Workers \ {w} : ~HoldsHeartbeat(v)
  /\ NextStatement(w, "run")
  /\ UNCHANGED <<runTables, passLocals>>

(* INSERT INTO reconciliation_runs ... RETURNING id: the id is gone for    *)
(* good, the row is seen by nobody before the commit.  The sequence gives  *)
(* an id once; here what was published under the id before is forgotten.   *)
(* Mutant: the run is committed as soon as it is inserted.                 *)
InsertRunCommits(w) ==
  /\ wpc[w] = "run"
  /\ lastRun' = NextRunId
  /\ run_id' = [run_id EXCEPT ![w] = NextRunId]
  /\ runs' = [runs EXCEPT ![NextRunId] = [NoRun EXCEPT !.status = "running"]]
  /\ NextStatement(w, "read")
  /\ UNCHANGED <<warnings, reported, seen, todo, found, checked, warnings_found, horizon>>

InsertRun(w) ==
  /\ wpc[w] = "run"
  /\ NextRunId \notin { run_id[v] : v \in Workers }
  /\ lastRun' = NextRunId
  /\ run_id' = [run_id EXCEPT ![w] = NextRunId]
  /\ runs' = [runs EXCEPT ![NextRunId] = NoRun]
  /\ warnings' = { x \in warnings : x.run_id # NextRunId }
  /\ NextStatement(w, "read")
  /\ UNCHANGED <<reported, seen, todo, found, checked, warnings_found, horizon>>

(* SELECT ... FROM positions ORDER BY id.                                  *)
ReadPositions(w) ==
  /\ wpc[w] = "read"
  /\ seen' = [seen EXCEPT ![w] = positions]
  /\ todo' = [todo EXCEPT ![w] = { p \in PositionIds : Exists(positions, p) }]
  /\ horizon' = [horizon EXCEPT ![w] = Len(ledger)]
  /\ NextStatement(w, "check")
  /\ UNCHANGED <<runTables, run_id, found, checked, warnings_found>>

(* Mutant: only a position above its ledger is reported.                   *)
OnlyAbove(current_qty, expected_qty) == current_qty > expected_qty

Mismatch(current_qty, expected_qty) == current_qty # expected_qty

(* The pass of w counts n warnings, warnings_found += 1 for each, and       *)
(* INSERTs the warnings of new.                                             *)
(* Mutant: the warnings are not counted.                                    *)
RecordsUncounted(w, new, n) ==
  /\ found' = [found EXCEPT ![w] = @ \cup new]
  /\ UNCHANGED warnings_found

Record(w, new, n) ==
  /\ found' = [found EXCEPT ![w] = @ \cup new]
  /\ warnings_found' = [warnings_found EXCEPT ![w] = @ + n]

(* SELECT SUM(quantity_delta) of one position, as committed by now, against *)
(* the quantity read before, and the INSERT of the warning.  The serial ids *)
(* follow the order of the inserts, which nothing here depends on: any      *)
(* order.                                                                   *)
CheckPosition(w, p) ==
  /\ wpc[w] = "check"
  /\ p \in todo[w]
  /\ todo' = [todo EXCEPT ![w] = @ \ {p}]
  /\ checked' = [checked EXCEPT ![w] = @ + 1]
  /\ IF Mismatch(seen[w][p].quantity, ledgerSum[p])
       THEN Record(w, { [ run_id |-> run_id[w], position_id |-> p,
                          warning_type |-> "quantity_mismatch",
                          expected |-> ledgerSum[p], actual |-> seen[w][p].quantity ] }, 1)
       ELSE UNCHANGED <<found, warnings_found>>
  /\ UNCHANGED <<runTables, wpc, run_id, seen, horizon>>

(* SELECT the entries whose position is gone, and the INSERTs of their     *)
(* warnings.                                                               *)
Orphans == { p \in PositionIds : /\ ~Exists(positions, p)
                                 /\ \E i \in 1..Len(ledger) : ledger[i].position_id = p }

CheckOrphans(w) ==
  /\ wpc[w] = "check"
  /\ todo[w] = {}
  /\ Record(w, { [ run_id |-> run_id[w], position_id |-> p,
                   warning_type |-> "missing_current_position",
                   expected |-> ledgerSum[p], actual |-> NoRow.quantity ] : p \in Orphans },
            Cardinality(Orphans))
  /\ NextStatement(w, "complete")
  /\ UNCHANGED <<runTables, run_id, seen, todo, checked, horizon>>

(* UPDATE reconciliation_runs SET status = 'completed', with the counts    *)
(* the pass has kept.                                                      *)
CompleteRun(w) ==
  /\ wpc[w] = "complete"
  /\ NextStatement(w, "commit")
  /\ UNCHANGED <<runTables, passLocals>>

(* The commit: the run and its warnings become visible together.           *)
PostRun(w) ==
  /\ runs' = [runs EXCEPT ![run_id[w]] =
                [ status            |-> "completed",
                  positions_checked |-> checked[w],
                  warnings_found    |-> warnings_found[w] ]]
  /\ warnings' = warnings \cup found[w]
  /\ reported' = IF horizon[w] > reported THEN horizon[w] ELSE reported
  /\ UNCHANGED lastRun

CommitRun(w) == wpc[w] = "commit" /\ PostRun(w) /\ PassEnds(w)

(* The server has committed, the worker gets an exception.                 *)
CommitRunUnacknowledged(w) ==
  /\ wpc[w] = "commit"
  /\ PostRun(w)
  /\ NextStatement(w, "failed")
  /\ UNCHANGED passLocals

(* Any statement may fail: the transaction is rolled back.                 *)
(* Mutant: the warnings inserted so far stay.                              *)
WarningsStay(w) ==
  /\ warnings' = warnings \cup found[w]
  /\ UNCHANGED <<runs, lastRun, reported>>

Rollback(w) == UNCHANGED runTables

Fail(w) ==
  /\ HoldsHeartbeat(w)
  /\ Rollback(w)
  /\ NextStatement(w, "failed")
  /\ UNCHANGED passLocals

(* The handler of the exception: UPDATE reconciliation_runs SET status =   *)
(* 'failed' WHERE id = :run_id, in a transaction of its own.  With run_id  *)
(* unbound it raises, and the exception is swallowed.                      *)
RunExists(i) == i \in RunIds /\ runs[i].status # "none"

MarkFailed(w) ==
  /\ wpc[w] = "failed"
  /\ runs' = [i \in RunIds |-> IF i = run_id[w] /\ RunExists(i)
                                 THEN [runs[i] EXCEPT !.status = "failed"] ELSE runs[i]]
  /\ PassEnds(w)
  /\ UNCHANGED <<warnings, lastRun, reported>>

(* The process dies and supervisor starts it again, or the handler's       *)
(* transaction fails too, which the handler ignores.                       *)
Crash(w) ==
  /\ wpc[w] # "sleep"
  /\ Rollback(w)
  /\ PassEnds(w)

-----------------------------------------------------------------------------
PassStep(w) ==
  \/ Heartbeat(w) \/ InsertRun(w) \/ ReadPositions(w)
  \/ \E p \in PositionIds : CheckPosition(w, p)
  \/ CheckOrphans(w) \/ CompleteRun(w) \/ CommitRun(w) \/ MarkFailed(w)

PassTrouble(w) == CommitRunUnacknowledged(w) \/ Fail(w) \/ Crash(w)

NextAll ==
  \/ Next /\ UNCHANGED workerVars
  \/ \E w \in Workers : (PassStep(w) \/ PassTrouble(w)) /\ UNCHANGED vars

ReconciliationSpec == InitAll /\ [][NextAll]_allVars
=============================================================================
