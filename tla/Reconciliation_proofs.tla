------------------------ MODULE Reconciliation_proofs ------------------------
(***************************************************************************)
(* The theorems about the reconciliation worker, for any number of workers *)
(* and imports: the passes take turns, so that runs are published in the   *)
(* order in which they saw the ledger, and each whole or not at all.       *)
(***************************************************************************)
EXTENDS ReconciliationProperties, LedgerImport_proofs, FiniteSetTheorems

(***************************************************************************)
(* The worker only reads what the imports write: whatever is proved of     *)
(* LedgerImport holds beside any number of passes.                         *)
(***************************************************************************)
THEOREM ImportsUndisturbed == ReconciliationSpec => Spec
<1>1. InitAll => Init
  BY DEF InitAll
<1>2. [NextAll]_allVars => [Next]_vars
  BY DEF NextAll, allVars
<1> QED
  BY <1>1, <1>2, PTL DEF ReconciliationSpec, Spec

(***************************************************************************)
(* Exactly once, with the worker running: KeyUnique of LedgerImport.       *)
(***************************************************************************)
THEOREM ExactlyOnceBesidePasses == ReconciliationSpec => []KeyUnique
BY ImportsUndisturbed, ExactlyOnce, PTL

-----------------------------------------------------------------------------
(* The invariant: the passes take turns; what a pass has read is no older  *)
(* than what the committed runs have; its warnings carry its run's id.     *)

PassShape ==
  /\ DOMAIN runs = RunIds
  /\ \A i \in RunIds : DOMAIN runs[i] = {"status", "positions_checked", "warnings_found"}
  /\ lastRun \in RunIds
  /\ wpc \in [Workers -> WorkerStatements]
  /\ run_id \in [Workers -> RunIds \cup {0}]
  /\ DOMAIN found = Workers
  /\ horizon \in [Workers -> Nat]
  /\ reported \in Nat

PassesTakeTurns ==
  \A w, v \in Workers : HoldsHeartbeat(w) /\ HoldsHeartbeat(v) => w = v

HorizonIsFresh ==
  /\ reported <= Len(ledger)
  /\ \A w \in Workers : wpc[w] \in {"check", "complete", "commit"} =>
       horizon[w] >= reported /\ horizon[w] <= Len(ledger)

WarningsCarryTheirRun ==
  \A w \in Workers :
    /\ wpc[w] \in {"read", "check", "complete", "commit"} => run_id[w] \in RunIds
    /\ wpc[w] \in {"sleep", "run"} => found[w] = {}
    /\ HoldsHeartbeat(w) => \A x \in found[w] : x.run_id = run_id[w]

PassInv == PassShape /\ PassesTakeTurns /\ HorizonIsFresh /\ WarningsCarryTheirRun

LEMMA NextRunIdType ==
  ASSUME lastRun \in RunIds
  PROVE  NextRunId \in RunIds
<1>1. MaxRuns \in Nat \ {0} /\ lastRun \in Nat
  BY MaxRunsAssumption DEF RunIds
<1>2. lastRun % MaxRuns \in 0..(MaxRuns - 1)
  BY <1>1
<1> QED
  BY <1>1, <1>2 DEF NextRunId, RunIds

LEMMA LedgerLengthGrows ==
  ASSUME TypeOK, TypeOK', TransactionsExclude, [Next]_vars
  PROVE  /\ Len(ledger) \in Nat /\ Len(ledger') \in Nat
         /\ Len(ledger) <= Len(ledger')
<1>1. ledger \in Seq(Entries) /\ ledger' \in Seq(Entries)
  BY DEF TypeOK
<1>2. Len(ledger) \in Nat /\ Len(ledger') \in Nat
  BY <1>1
<1>3. ASSUME Len(ledger) # 0
      PROVE  Len(ledger) \in 1..Len(ledger')
  <2>1. Len(ledger) \in 1..Len(ledger)
    BY <1>2, <1>3
  <2> QED
    BY <2>1, LedgerGrows
<1> QED
  BY <1>2, <1>3

(* A pass ends, with the committed horizon at most what it was reading of. *)
LEMMA PassEndKeeps ==
  ASSUME PassInv, NEW w \in Workers, PassEnds(w), UNCHANGED vars,
         Len(ledger) \in Nat,
         DOMAIN runs' = RunIds,
         \A i \in RunIds : DOMAIN runs'[i] = {"status", "positions_checked", "warnings_found"},
         UNCHANGED lastRun,
         reported' = reported \/ (HoldsHeartbeat(w) /\ reported' = horizon[w]
                                  /\ horizon[w] <= Len(ledger))
  PROVE  PassInv'
<1>1. /\ wpc' = [wpc EXCEPT ![w] = "sleep"]
      /\ run_id' = [run_id EXCEPT ![w] = 0]
      /\ found' = [found EXCEPT ![w] = {}]
      /\ horizon' = [horizon EXCEPT ![w] = 0]
      /\ ledger' = ledger
  BY DEF PassEnds, NextStatement, vars
<1>2. PassShape'
  BY <1>1 DEF PassInv, PassShape, WorkerStatements
<1>3. PassesTakeTurns'
  BY <1>1 DEF PassInv, PassShape, PassesTakeTurns, HoldsHeartbeat
<1>4. HorizonIsFresh'
  <2>1. reported' <= Len(ledger')
    BY <1>1 DEF PassInv, HorizonIsFresh
  <2>2. ASSUME NEW v \in Workers, wpc'[v] \in {"check", "complete", "commit"}
        PROVE  horizon'[v] >= reported' /\ horizon'[v] <= Len(ledger')
    <3>1. v # w /\ wpc[v] = wpc'[v] /\ horizon'[v] = horizon[v]
      BY <1>1, <2>2 DEF PassInv, PassShape
    <3>2. HoldsHeartbeat(v)
      BY <3>1, <2>2 DEF HoldsHeartbeat
    <3>3. reported' = reported
      BY <3>1, <3>2 DEF PassInv, PassesTakeTurns
    <3> QED
      BY <1>1, <2>2, <3>1, <3>3 DEF PassInv, HorizonIsFresh
  <2> QED
    BY <2>1, <2>2 DEF HorizonIsFresh
<1>5. WarningsCarryTheirRun'
  BY <1>1 DEF PassInv, PassShape, WarningsCarryTheirRun, HoldsHeartbeat
<1> QED
  BY <1>2, <1>3, <1>4, <1>5 DEF PassInv

(* A step of a pass that ends nothing: w, which holds the heartbeat's row, *)
(* goes on with it.                                                        *)
LEMMA PassGoesOn ==
  ASSUME PassInv, NEW w \in Workers, NEW s \in WorkerStatements,
         HoldsHeartbeat(w), NextStatement(w, s), UNCHANGED vars,
         lastRun' \in RunIds, UNCHANGED reported,
         DOMAIN runs' = RunIds,
         \A i \in RunIds : DOMAIN runs'[i] = {"status", "positions_checked", "warnings_found"},
         run_id' \in [Workers -> RunIds \cup {0}],
         horizon' \in [Workers -> Nat],
         DOMAIN found' = Workers,
         \A v \in Workers \ {w} : /\ run_id'[v] = run_id[v]
                                  /\ found'[v] = found[v]
                                  /\ horizon'[v] = horizon[v],
         s \in {"check", "complete", "commit"} =>
           horizon'[w] >= reported /\ horizon'[w] <= Len(ledger),
         s \in {"read", "check", "complete", "commit"} => run_id'[w] \in RunIds,
         s \in {"sleep", "run"} => found'[w] = {},
         \A x \in found'[w] : x.run_id = run_id'[w]
  PROVE  PassInv'
<1>1. wpc' = [wpc EXCEPT ![w] = s] /\ ledger' = ledger
  BY DEF NextStatement, vars
<1>2. PassShape'
  BY <1>1 DEF PassInv, PassShape
<1>3. PassesTakeTurns'
  BY <1>1 DEF PassInv, PassShape, PassesTakeTurns, HoldsHeartbeat
<1>4. HorizonIsFresh'
  BY <1>1 DEF PassInv, PassShape, HorizonIsFresh
<1>5. WarningsCarryTheirRun'
  BY <1>1 DEF PassInv, PassShape, WarningsCarryTheirRun, HoldsHeartbeat
<1> QED
  BY <1>2, <1>3, <1>4, <1>5 DEF PassInv

LEMMA PassInvInductive ==
  ASSUME PassInv, TypeOK, TypeOK', TransactionsExclude, [NextAll]_allVars
  PROVE  PassInv'
<1>1. Len(ledger) \in Nat
  BY DEF TypeOK
<1>2. CASE UNCHANGED workerVars /\ [Next]_vars
  <2>1. Len(ledger) <= Len(ledger') /\ Len(ledger') \in Nat
    BY <1>2, LedgerLengthGrows
  <2>2. HorizonIsFresh'
    BY <1>1, <1>2, <2>1 DEF PassInv, PassShape, HorizonIsFresh, workerVars
  <2> QED
    BY <1>2, <2>2 DEF PassInv, PassShape, PassesTakeTurns, WarningsCarryTheirRun,
                      HoldsHeartbeat, workerVars
<1>3. ASSUME NEW w \in Workers, Heartbeat(w), UNCHANGED vars
      PROVE  PassInv'
  <2>1. /\ wpc[w] = "sleep" /\ wpc' = [wpc EXCEPT ![w] = "run"]
        /\ \A v \in Workers \ {w} : ~HoldsHeartbeat(v)
        /\ UNCHANGED <<runs, lastRun, reported, run_id, found, horizon, ledger>>
    BY <1>3 DEF Heartbeat, NextStatement, runTables, passLocals, vars
  <2>2. PassShape'
    BY <2>1 DEF PassInv, PassShape, WorkerStatements
  <2>3. PassesTakeTurns'
    BY <2>1 DEF PassInv, PassShape, PassesTakeTurns, HoldsHeartbeat
  <2>4. HorizonIsFresh'
    BY <2>1 DEF PassInv, PassShape, HorizonIsFresh
  <2>5. WarningsCarryTheirRun'
    BY <2>1 DEF PassInv, PassShape, WarningsCarryTheirRun, HoldsHeartbeat
  <2> QED
    BY <2>2, <2>3, <2>4, <2>5 DEF PassInv
<1>4. ASSUME NEW w \in Workers, InsertRun(w), UNCHANGED vars
      PROVE  PassInv'
  <2>1. NextRunId \in RunIds
    BY NextRunIdType DEF PassInv, PassShape
  <2>2. found'[w] = {}
    BY <1>4 DEF InsertRun, PassInv, WarningsCarryTheirRun
  <2>3. /\ DOMAIN runs' = RunIds
        /\ \A i \in RunIds :
             DOMAIN runs'[i] = {"status", "positions_checked", "warnings_found"}
    BY <1>4 DEF InsertRun, NoRun, PassInv, PassShape
  <2> QED
    BY <1>4, <2>1, <2>2, <2>3, PassGoesOn
    DEF InsertRun, PassInv, PassShape, HoldsHeartbeat, WorkerStatements
<1>5. ASSUME NEW w \in Workers, ReadPositions(w), UNCHANGED vars
      PROVE  PassInv'
  <2>1. reported <= Len(ledger) /\ \A x \in found[w] : x.run_id = run_id[w]
    BY <1>5 DEF ReadPositions, PassInv, HorizonIsFresh, WarningsCarryTheirRun, HoldsHeartbeat
  <2>2. run_id[w] \in RunIds /\ reported \in Nat
    BY <1>5 DEF ReadPositions, PassInv, PassShape, WarningsCarryTheirRun
  <2>3. /\ DOMAIN runs' = RunIds
        /\ \A i \in RunIds :
             DOMAIN runs'[i] = {"status", "positions_checked", "warnings_found"}
        /\ lastRun' \in RunIds /\ reported' = reported /\ run_id' = run_id /\ found' = found
    BY <1>5 DEF ReadPositions, runTables, PassInv, PassShape
  <2>4. /\ HoldsHeartbeat(w) /\ NextStatement(w, "check") /\ "check" \in WorkerStatements
        /\ horizon' = [horizon EXCEPT ![w] = Len(ledger)]
    BY <1>5 DEF ReadPositions, HoldsHeartbeat, WorkerStatements
  <2>5. /\ run_id \in [Workers -> RunIds \cup {0}] /\ DOMAIN found = Workers
        /\ horizon \in [Workers -> Nat]
    BY DEF PassInv, PassShape
  <2>6. /\ horizon' \in [Workers -> Nat] /\ horizon'[w] = Len(ledger)
        /\ \A v \in Workers \ {w} : horizon'[v] = horizon[v]
    BY <1>1, <2>4, <2>5
  <2>7. Len(ledger) >= reported /\ Len(ledger) <= Len(ledger)
    BY <1>1, <2>1, <2>2
  <2> QED
    BY <1>5, <2>1, <2>2, <2>3, <2>4, <2>5, <2>6, <2>7, PassGoesOn
<1>6. ASSUME NEW w \in Workers, wpc[w] \in {"check", "complete"}, UNCHANGED vars,
             NEW s \in {"check", "complete", "commit"}, NextStatement(w, s),
             UNCHANGED <<runs, lastRun, reported, run_id, horizon>>,
             NEW new, \A x \in new : x.run_id = run_id[w],
             DOMAIN found' = Workers, found'[w] = found[w] \cup new,
             \A v \in Workers \ {w} : found'[v] = found[v]
      PROVE  PassInv'
  <2>1. /\ horizon[w] >= reported /\ horizon[w] <= Len(ledger)
        /\ run_id[w] \in RunIds
        /\ \A x \in found[w] : x.run_id = run_id[w]
    BY <1>6 DEF PassInv, HorizonIsFresh, WarningsCarryTheirRun, HoldsHeartbeat
  <2> QED
    BY <1>6, <2>1, PassGoesOn DEF PassInv, PassShape, HoldsHeartbeat, WorkerStatements
<1>7. ASSUME NEW w \in Workers, NEW p \in PositionIds, CheckPosition(w, p), UNCHANGED vars
      PROVE  PassInv'
  <2> DEFINE x == [ run_id |-> run_id[w], position_id |-> p,
                    warning_type |-> "quantity_mismatch",
                    expected |-> ledgerSum[p], actual |-> seen[w][p].quantity ]
             new == IF Mismatch(seen[w][p].quantity, ledgerSum[p]) THEN {x} ELSE {}
  <2>1. /\ DOMAIN found' = Workers /\ found'[w] = found[w] \cup new
        /\ \A v \in Workers \ {w} : found'[v] = found[v]
    <3>1. CASE Mismatch(seen[w][p].quantity, ledgerSum[p])
      BY <1>7, <3>1 DEF CheckPosition, Record, PassInv, PassShape
    <3>2. CASE ~Mismatch(seen[w][p].quantity, ledgerSum[p])
      BY <1>7, <3>2 DEF CheckPosition, PassInv, PassShape
    <3> QED
      BY <3>1, <3>2
  <2>2. x.run_id = run_id[w]
    OBVIOUS
  <2>3. \A y \in new : y.run_id = run_id[w]
    BY <2>2
  <2>4. NextStatement(w, "check")
    BY <1>7 DEF CheckPosition, NextStatement, PassInv, PassShape
  <2> HIDE DEF new
  <2> QED
    BY <1>6, <1>7, <2>1, <2>3, <2>4 DEF CheckPosition, runTables
<1>8. ASSUME NEW w \in Workers, CheckOrphans(w), UNCHANGED vars
      PROVE  PassInv'
  <2> DEFINE new == { [ run_id |-> run_id[w], position_id |-> p,
                        warning_type |-> "missing_current_position",
                        expected |-> ledgerSum[p], actual |-> NoRow.quantity ] : p \in Orphans }
  <2>1. \A y \in new : y.run_id = run_id[w]
    OBVIOUS
  <2>2. /\ DOMAIN found' = Workers /\ found'[w] = found[w] \cup new
        /\ \A v \in Workers \ {w} : found'[v] = found[v]
    BY <1>8 DEF CheckOrphans, Record, PassInv, PassShape
  <2> HIDE DEF new
  <2> QED
    BY <1>6, <1>8, <2>1, <2>2 DEF CheckOrphans, runTables
<1>9. ASSUME NEW w \in Workers, CompleteRun(w), UNCHANGED vars
      PROVE  PassInv'
  <2> DEFINE new == {}
  <2>1. \A y \in new : y.run_id = run_id[w]
    OBVIOUS
  <2>2. /\ DOMAIN found' = Workers /\ found'[w] = found[w] \cup new
        /\ \A v \in Workers \ {w} : found'[v] = found[v]
    BY <1>9 DEF CompleteRun, passLocals, PassInv, PassShape
  <2> HIDE DEF new
  <2>3. /\ NextStatement(w, "commit")
        /\ wpc[w] \in {"check", "complete"}
        /\ UNCHANGED <<runs, lastRun, reported, run_id, horizon>>
    BY <1>9 DEF CompleteRun, runTables, passLocals
  <2> QED
    BY <1>6, <1>9, <2>1, <2>2, <2>3
<1>10. ASSUME NEW w \in Workers, wpc[w] = "commit", PostRun(w), UNCHANGED vars
       PROVE  /\ HoldsHeartbeat(w) /\ run_id[w] \in RunIds
              /\ horizon[w] >= reported /\ horizon[w] <= Len(ledger)
              /\ reported' = horizon[w]
              /\ DOMAIN runs' = RunIds
              /\ \A i \in RunIds :
                   DOMAIN runs'[i] = {"status", "positions_checked", "warnings_found"}
              /\ lastRun' = lastRun
  <2>1. /\ HoldsHeartbeat(w) /\ run_id[w] \in RunIds
        /\ horizon[w] >= reported /\ horizon[w] <= Len(ledger)
        /\ horizon[w] \in Nat /\ reported \in Nat
    BY <1>10 DEF HoldsHeartbeat, PassInv, PassShape, HorizonIsFresh, WarningsCarryTheirRun
  <2>2. reported' = horizon[w] /\ lastRun' = lastRun
    BY <1>10, <2>1 DEF PostRun
  <2> QED
    BY <1>10, <2>1, <2>2 DEF PostRun, PassInv, PassShape
<1>11. ASSUME NEW w \in Workers, CommitRun(w), UNCHANGED vars
       PROVE  PassInv'
  BY <1>1, <1>10, <1>11, PassEndKeeps DEF CommitRun
<1>12. ASSUME NEW w \in Workers, CommitRunUnacknowledged(w), UNCHANGED vars
       PROVE  PassInv'
  <2>1. /\ HoldsHeartbeat(w)
        /\ horizon[w] <= Len(ledger) /\ horizon[w] \in Nat
        /\ reported' = horizon[w]
        /\ DOMAIN runs' = RunIds
        /\ \A i \in RunIds :
             DOMAIN runs'[i] = {"status", "positions_checked", "warnings_found"}
        /\ lastRun' = lastRun
    BY <1>10, <1>12 DEF CommitRunUnacknowledged, PassInv, PassShape
  <2>2. /\ wpc' = [wpc EXCEPT ![w] = "failed"]
        /\ UNCHANGED <<run_id, found, horizon, ledger>>
    BY <1>12 DEF CommitRunUnacknowledged, NextStatement, passLocals, vars
  <2>3. PassShape'
    BY <2>1, <2>2 DEF PassInv, PassShape, WorkerStatements
  <2>4. \A v \in Workers : v # w => ~HoldsHeartbeat(v)
    BY <2>1 DEF PassInv, PassesTakeTurns
  <2>5. PassesTakeTurns' /\ HorizonIsFresh'
    BY <2>1, <2>2, <2>4 DEF PassInv, PassShape, PassesTakeTurns, HorizonIsFresh, HoldsHeartbeat
  <2>6. WarningsCarryTheirRun'
    BY <2>2 DEF PassInv, PassShape, WarningsCarryTheirRun, HoldsHeartbeat
  <2> QED
    BY <2>3, <2>5, <2>6 DEF PassInv
<1>13. ASSUME NEW w \in Workers, Fail(w), UNCHANGED vars
       PROVE  PassInv'
  <2>1. /\ wpc' = [wpc EXCEPT ![w] = "failed"]
        /\ UNCHANGED <<runs, lastRun, reported, run_id, found, horizon, ledger>>
    BY <1>13 DEF Fail, Rollback, NextStatement, runTables, passLocals, vars
  <2>2. PassShape'
    BY <2>1 DEF PassInv, PassShape, WorkerStatements
  <2> QED
    BY <2>1, <2>2 DEF PassInv, PassShape, PassesTakeTurns, HorizonIsFresh,
                      WarningsCarryTheirRun, HoldsHeartbeat
<1>14. ASSUME NEW w \in Workers, MarkFailed(w), UNCHANGED vars
       PROVE  PassInv'
  <2>1. /\ DOMAIN runs' = RunIds
        /\ \A i \in RunIds :
             DOMAIN runs'[i] = {"status", "positions_checked", "warnings_found"}
    BY <1>14 DEF MarkFailed, PassInv, PassShape
  <2> QED
    BY <1>1, <1>14, <2>1, PassEndKeeps DEF MarkFailed
<1>15. ASSUME NEW w \in Workers, Crash(w), UNCHANGED vars
       PROVE  PassInv'
  BY <1>1, <1>15, PassEndKeeps DEF Crash, Rollback, runTables, PassInv, PassShape
<1>16. CASE UNCHANGED allVars
  BY <1>2, <1>16 DEF allVars
<1> QED
  BY <1>2, <1>3, <1>4, <1>5, <1>7, <1>8, <1>9, <1>11, <1>12, <1>13, <1>14, <1>15, <1>16
  DEF NextAll, PassStep, PassTrouble

LEMMA PassInvariant == ReconciliationSpec => []PassInv
<1>1. InitAll => PassInv
  BY MaxRunsAssumption
  DEF InitAll, Init, InitWorkers, PassInv, PassShape, PassesTakeTurns, HorizonIsFresh,
      WarningsCarryTheirRun, HoldsHeartbeat, RunIds, NoRun, WorkerStatements
<1>2. PassInv /\ TypeOK /\ TypeOK' /\ TransactionsExclude /\ [NextAll]_allVars => PassInv'
  BY PassInvInductive
<1> QED
  BY <1>1, <1>2, ImportsUndisturbed, TypeCorrect, Exclusion, PTL DEF ReconciliationSpec

(***************************************************************************)
(* Runs are published in the order in which they saw the ledger: the       *)
(* heartbeat's row keeps the passes apart (reconciliation.py:42-50).       *)
(***************************************************************************)
THEOREM PublishedInOrder == ReconciliationSpec => RunsPublishedInOrder
<1>1. PassInv /\ [NextAll]_allVars =>
        [ \A w \in Workers :
            CommitRun(w) \/ CommitRunUnacknowledged(w) => horizon[w] >= reported ]_allVars
  BY DEF PassInv, HorizonIsFresh, CommitRun, CommitRunUnacknowledged
<1> QED
  BY <1>1, PassInvariant, PTL DEF ReconciliationSpec, RunsPublishedInOrder

-----------------------------------------------------------------------------
(* Exact verdicts.                                                         *)

LEMMA EmptyBesidePasses == ReconciliationSpec => []EmptyUntilBooked
BY ImportsUndisturbed, StaysEmpty, PTL

(* What w has read of a position that is quiet is still so. *)
SeenHolds(w) ==
  \A p \in PositionIds : Quiet(w, p) => seen[w][p] = positions[p]

(* What it has found so far of the quiet ones is right. *)
FoundHolds(w) ==
  \A p \in PositionIds : Quiet(w, p) =>
    IF p \in todo[w] THEN ~Reports(found[w], p)
                     ELSE Reports(found[w], p) <=> Drift[p] # 0

VerdictsInv ==
  /\ seen \in [Workers -> [PositionIds -> Rows]]
  /\ todo \in [Workers -> SUBSET PositionIds]
  /\ \A w \in Workers : wpc[w] = "read" => found[w] = {}
  /\ \A w \in Workers :
       /\ wpc[w] \in {"check", "complete", "commit"} => SeenHolds(w) /\ FoundHolds(w)
       /\ wpc[w] \in {"complete", "commit"} => todo[w] = {}

(* A position that is quiet after a step of an import was so before, and   *)
(* the step has not touched it.                                            *)
LEMMA QuietIsUntouched ==
  ASSUME TypeOK, TypeOK', TransactionsExclude, [Next]_vars,
         NEW w \in Workers, UNCHANGED horizon, horizon[w] \in Nat, horizon[w] <= Len(ledger),
         NEW p \in PositionIds, Quiet(w, p)'
  PROVE  /\ Quiet(w, p)
         /\ positions'[p] = positions[p]
         /\ Drift'[p] = Drift[p]
<1>1. Len(ledger) \in Nat /\ Len(ledger') \in Nat /\ Len(ledger) <= Len(ledger')
  BY LedgerLengthGrows
<1>2. Quiet(w, p)
  BY <1>1, LedgerGrows DEF Quiet
<1>3. positions'[p] = positions[p] /\ ledgerSum'[p] = ledgerSum[p]
  BY <1>1, PositionChangesByEntry DEF Quiet
<1> QED
  BY <1>2, <1>3 DEF Drift

LEMMA VerdictsBesideImports ==
  ASSUME TypeOK, TypeOK', TransactionsExclude, PassInv, VerdictsInv,
         [Next]_vars, UNCHANGED workerVars
  PROVE  VerdictsInv'
<1> USE DEF workerVars
<1>1. ASSUME NEW w \in Workers, wpc[w] \in {"check", "complete", "commit"}
      PROVE  SeenHolds(w)' /\ FoundHolds(w)'
  <2>1. horizon[w] \in Nat /\ horizon[w] <= Len(ledger)
    BY <1>1 DEF PassInv, PassShape, HorizonIsFresh
  <2>2. \A p \in PositionIds : Quiet(w, p)' =>
          Quiet(w, p) /\ positions'[p] = positions[p] /\ Drift'[p] = Drift[p]
    BY <2>1, QuietIsUntouched
  <2> QED
    BY <1>1, <2>2 DEF VerdictsInv, SeenHolds, FoundHolds, Reports
<1> QED
  BY <1>1 DEF VerdictsInv

(* A step of w leaves the verdicts of the others alone. *)
LEMMA OthersVerdicts ==
  ASSUME VerdictsInv, NEW w \in Workers, UNCHANGED vars,
         NEW v \in Workers, v # w,
         wpc'[v] = wpc[v], seen'[v] = seen[v], todo'[v] = todo[v],
         found'[v] = found[v], horizon'[v] = horizon[v]
  PROVE  /\ wpc'[v] = "read" => found'[v] = {}
         /\ wpc'[v] \in {"check", "complete", "commit"} => SeenHolds(v)' /\ FoundHolds(v)'
         /\ wpc'[v] \in {"complete", "commit"} => todo'[v] = {}
<1>1. UNCHANGED <<positions, ledger, ledgerSum>> /\ Drift' = Drift
  BY DEF vars, Drift
<1>2. \A p \in PositionIds : Quiet(v, p)' <=> Quiet(v, p)
  BY <1>1 DEF Quiet
<1> QED
  BY <1>1, <1>2 DEF VerdictsInv, SeenHolds, FoundHolds, Reports

(* The pass of w is over, or has not read yet: it has no verdicts. *)
LEMMA NoVerdicts ==
  ASSUME VerdictsInv, NEW w \in Workers, UNCHANGED vars,
         NEW s \in {"sleep", "run", "read", "failed"}, NextStatement(w, s),
         wpc \in [Workers -> WorkerStatements], DOMAIN found = Workers,
         horizon \in [Workers -> Nat],
         s = "read" => found'[w] = {},
         \/ PassEnds(w)
         \/ UNCHANGED <<seen, todo, found, horizon>>
  PROVE  VerdictsInv'
<1>1. NothingSeen \in [PositionIds -> Rows]
  BY RowConstantsType DEF NothingSeen
<1>2. /\ seen' \in [Workers -> [PositionIds -> Rows]]
      /\ todo' \in [Workers -> SUBSET PositionIds]
      /\ \A v \in Workers : v # w =>
           /\ seen'[v] = seen[v] /\ todo'[v] = todo[v]
           /\ found'[v] = found[v] /\ horizon'[v] = horizon[v]
  <2>1. CASE PassEnds(w)
    <3> HIDE DEF NothingSeen
    <3> QED
      BY <1>1, <2>1 DEF PassEnds, VerdictsInv
  <2>2. CASE UNCHANGED <<seen, todo, found, horizon>>
    BY <2>2 DEF VerdictsInv
  <2> QED
    BY <2>1, <2>2
<1>3. wpc'[w] = s /\ \A v \in Workers : v # w => wpc'[v] = wpc[v]
  BY DEF NextStatement
<1> QED
  BY <1>1, <1>2, <1>3, OthersVerdicts DEF VerdictsInv

LEMMA VerdictsInductive ==
  ASSUME TypeOK, TypeOK', TransactionsExclude, EmptyUntilBooked, PassInv, VerdictsInv,
         [NextAll]_allVars
  PROVE  VerdictsInv'
<1>1. CASE UNCHANGED workerVars /\ [Next]_vars
  BY <1>1, VerdictsBesideImports
<1> SUFFICES ASSUME NEW w \in Workers, PassStep(w) \/ PassTrouble(w), UNCHANGED vars
             PROVE  VerdictsInv'
  BY <1>1 DEF NextAll, allVars
<1>2. /\ UNCHANGED <<positions, ledger, ledgerSum>> /\ Drift' = Drift
      /\ positions \in [PositionIds -> Rows]
      /\ wpc \in [Workers -> WorkerStatements] /\ DOMAIN found = Workers
      /\ horizon \in [Workers -> Nat]
  BY DEF vars, Drift, TypeOK, PassInv, PassShape
<1>3. CASE Heartbeat(w)
  BY <1>2, <1>3, NoVerdicts DEF Heartbeat, passLocals
<1>4. CASE InsertRun(w)
  BY <1>2, <1>4, NoVerdicts DEF InsertRun, PassInv, WarningsCarryTheirRun
<1>5. CASE ReadPositions(w)
  <2>1. /\ wpc[w] = "read" /\ wpc' = [wpc EXCEPT ![w] = "check"]
        /\ seen' = [seen EXCEPT ![w] = positions]
        /\ todo' = [todo EXCEPT ![w] = { p \in PositionIds : Exists(positions, p) }]
        /\ horizon' = [horizon EXCEPT ![w] = Len(ledger)]
        /\ found' = found /\ found[w] = {}
    BY <1>5 DEF ReadPositions, NextStatement, VerdictsInv
  <2>2. seen' \in [Workers -> [PositionIds -> Rows]] /\ todo' \in [Workers -> SUBSET PositionIds]
    BY <1>2, <2>1 DEF VerdictsInv
  <2>3. SeenHolds(w)'
    BY <1>2, <2>1 DEF SeenHolds, VerdictsInv
  <2>4. FoundHolds(w)'
    <3>1. \A p \in PositionIds : p \notin todo'[w] => Drift[p] = 0
      BY <2>1 DEF VerdictsInv, EmptyUntilBooked, NothingBooked, Drift
    <3> QED
      BY <1>2, <2>1, <3>1 DEF FoundHolds, Reports
  <2>5. \A v \in Workers : v # w =>
          /\ wpc'[v] = wpc[v] /\ seen'[v] = seen[v] /\ todo'[v] = todo[v]
          /\ found'[v] = found[v] /\ horizon'[v] = horizon[v]
    BY <2>1 DEF VerdictsInv
  <2>6. wpc'[w] = "check"
    BY <1>2, <2>1
  <2> QED
    BY <2>2, <2>3, <2>4, <2>5, <2>6, OthersVerdicts DEF VerdictsInv
<1>6. ASSUME NEW p \in PositionIds, CheckPosition(w, p)
      PROVE  VerdictsInv'
  <2> DEFINE x == [ run_id |-> run_id[w], position_id |-> p,
                    warning_type |-> "quantity_mismatch",
                    expected |-> ledgerSum[p], actual |-> seen[w][p].quantity ]
             new == IF Mismatch(seen[w][p].quantity, ledgerSum[p]) THEN {x} ELSE {}
  <2>1. /\ wpc[w] = "check" /\ wpc' = wpc /\ seen' = seen /\ horizon' = horizon
        /\ p \in todo[w] /\ todo' = [todo EXCEPT ![w] = @ \ {p}]
    BY <1>6 DEF CheckPosition
  <2>2. /\ found'[w] = found[w] \cup new
        /\ \A v \in Workers : v # w => found'[v] = found[v]
    <3>1. CASE Mismatch(seen[w][p].quantity, ledgerSum[p])
      BY <1>2, <1>6, <3>1 DEF CheckPosition, Record
    <3>2. CASE ~Mismatch(seen[w][p].quantity, ledgerSum[p])
      BY <1>2, <1>6, <3>2 DEF CheckPosition
    <3> QED
      BY <3>1, <3>2
  <2>3. /\ \A y \in new : y.position_id = p
        /\ new # {} <=> seen[w][p].quantity # ledgerSum[p]
    <3>1. x.position_id = p
      OBVIOUS
    <3> HIDE DEF x
    <3> QED
      BY <3>1 DEF Mismatch
  <2> HIDE DEF new
  <2>4. SeenHolds(w) /\ FoundHolds(w)
    BY <2>1 DEF VerdictsInv
  <2>5. SeenHolds(w)'
    BY <1>2, <2>1, <2>4 DEF SeenHolds, Quiet
  <2>6. FoundHolds(w)'
    <3> SUFFICES ASSUME NEW q \in PositionIds, Quiet(w, q)'
                 PROVE  IF q \in todo'[w] THEN ~Reports(found'[w], q)
                                          ELSE Reports(found'[w], q) <=> Drift[q] # 0
      BY <1>2 DEF FoundHolds
    <3>1. Quiet(w, q)
      BY <1>2, <2>1 DEF Quiet
    <3>2. todo'[w] = todo[w] \ {p}
      BY <2>1 DEF VerdictsInv
    <3>3. CASE q = p
      <4>1. ~Reports(found[w], p) /\ seen[w][p] = positions[p]
        BY <2>1, <2>4, <3>1, <3>3 DEF FoundHolds, SeenHolds
      <4>2. Reports(found'[w], p) <=> new # {}
        BY <2>2, <2>3, <4>1 DEF Reports
      <4>3. positions[p].quantity \in Int /\ ledgerSum[p] \in Int
        BY DEF TypeOK, Rows
      <4> QED
        BY <2>3, <3>2, <3>3, <4>1, <4>2, <4>3 DEF Drift
    <3>4. CASE q # p
      <4>1. Reports(found'[w], q) <=> Reports(found[w], q)
        BY <2>2, <2>3, <3>4 DEF Reports
      <4> QED
        BY <2>4, <3>1, <3>2, <3>4, <4>1 DEF FoundHolds
    <3> QED
      BY <3>3, <3>4
  <2>7. /\ seen' \in [Workers -> [PositionIds -> Rows]]
        /\ todo' \in [Workers -> SUBSET PositionIds]
        /\ \A v \in Workers : v # w => todo'[v] = todo[v]
    BY <2>1 DEF VerdictsInv
  <2> QED
    BY <2>1, <2>2, <2>5, <2>6, <2>7, OthersVerdicts DEF VerdictsInv
<1>7. Orphans = {}
  BY DEF Orphans, EmptyUntilBooked, NothingBooked
<1>8. ASSUME \A v \in Workers : found'[v] = found[v],
             wpc[w] \in {"check", "complete"}, todo[w] = {},
             NEW s \in {"complete", "commit"}, NextStatement(w, s),
             UNCHANGED <<seen, todo, horizon>>
      PROVE  VerdictsInv'
  <2>1. SeenHolds(w)' /\ FoundHolds(w)'
    BY <1>2, <1>8 DEF VerdictsInv, SeenHolds, FoundHolds, Quiet, Reports
  <2>2. wpc'[w] = s /\ \A v \in Workers : v # w => wpc'[v] = wpc[v]
    BY <1>2, <1>8 DEF NextStatement
  <2> QED
    BY <1>8, <2>1, <2>2, OthersVerdicts DEF VerdictsInv
<1>9. CASE CheckOrphans(w)
  <2> DEFINE new == { [ run_id |-> run_id[w], position_id |-> p,
                        warning_type |-> "missing_current_position",
                        expected |-> ledgerSum[p], actual |-> NoRow.quantity ] : p \in Orphans }
  <2>1. new = {} /\ found' = [found EXCEPT ![w] = @ \cup new]
    BY <1>7, <1>9 DEF CheckOrphans, Record
  <2> HIDE DEF new
  <2>2. \A v \in Workers : found'[v] = found[v]
    BY <1>2, <2>1
  <2> QED
    BY <1>8, <1>9, <2>2 DEF CheckOrphans
<1>10. CASE CompleteRun(w)
  BY <1>8, <1>10 DEF CompleteRun, passLocals, VerdictsInv
<1>11. CASE CommitRun(w)
  BY <1>2, <1>11, NoVerdicts DEF CommitRun, PassEnds
<1>12. CASE MarkFailed(w)
  BY <1>2, <1>12, NoVerdicts DEF MarkFailed, PassEnds
<1>13. CASE Crash(w)
  BY <1>2, <1>13, NoVerdicts DEF Crash, PassEnds
<1>14. CASE CommitRunUnacknowledged(w)
  BY <1>2, <1>14, NoVerdicts DEF CommitRunUnacknowledged, passLocals
<1>15. CASE Fail(w)
  BY <1>2, <1>15, NoVerdicts DEF Fail, passLocals
<1> QED
  BY <1>3, <1>4, <1>5, <1>6, <1>9, <1>10, <1>11, <1>12, <1>13, <1>14, <1>15
  DEF PassStep, PassTrouble

LEMMA Verdicts == ReconciliationSpec => []VerdictsInv
<1>1. InitAll => VerdictsInv
  BY RowConstantsType DEF InitAll, InitWorkers, VerdictsInv, NothingSeen
<1>2. /\ TypeOK /\ TypeOK' /\ TransactionsExclude /\ EmptyUntilBooked /\ PassInv
      /\ VerdictsInv /\ [NextAll]_allVars
      => VerdictsInv'
  BY VerdictsInductive
<1> QED
  BY <1>1, <1>2, ImportsUndisturbed, TypeCorrect, Exclusion, EmptyBesidePasses,
     PassInvariant, PTL DEF ReconciliationSpec

(***************************************************************************)
(* The verdict of a pass that is about to commit is exact for every        *)
(* position no import has touched since the pass read the positions,       *)
(* however many workers and imports run (reconciliation.py:62-164).  A     *)
(* position changes only with an entry of its own, so what was read and    *)
(* what is summed up later are of one moment.                              *)
(***************************************************************************)
THEOREM VerdictsExact == ReconciliationSpec => []QuietVerdictsAreExact
<1>1. VerdictsInv => QuietVerdictsAreExact
  BY DEF VerdictsInv, FoundHolds, QuietVerdictsAreExact
<1> QED
  BY <1>1, Verdicts, PTL

-----------------------------------------------------------------------------
(* The types of the workers: the counts of a run are bounded by the        *)
(* positions there can be.                                                 *)

LEMMA FinitePositions == IsFiniteSet(PositionIds) /\ Cardinality(PositionIds) \in Nat
BY FiniteNamesAssumption, FS_Product, FS_CardinalityType DEF PositionIds

(* A pass has checked each position it has read at most once, has at most  *)
(* one warning for it, and has counted its warnings.                       *)
CountsHold(w) ==
  /\ wpc[w] \in {"sleep", "run", "read"} => checked[w] = 0 /\ found[w] = {}
  /\ IsFiniteSet(found[w]) /\ Cardinality(found[w]) <= checked[w]
  /\ checked[w] + Cardinality(todo[w]) <= Cardinality(PositionIds)
  /\ warnings_found[w] = Cardinality(found[w])
  /\ \A x \in found[w] : x.position_id \notin todo[w]
  /\ \A x, y \in found[w] : x.position_id = y.position_id => x = y

CountsInv ==
  /\ runs \in [RunIds -> Runs]
  /\ warnings \subseteq Warnings
  /\ found \in [Workers -> SUBSET Warnings]
  /\ checked \in [Workers -> Nat]
  /\ warnings_found \in [Workers -> Nat]
  /\ \A w \in Workers : CountsHold(w)

(* What a step of w makes of its own counts. *)
LEMMA CountsStep ==
  ASSUME CountsInv, VerdictsInv, NEW w \in Workers,
         runs' \in [RunIds -> Runs], warnings' \subseteq Warnings,
         NEW s \in WorkerStatements, NextStatement(w, s),
         wpc \in [Workers -> WorkerStatements],
         NEW f \in SUBSET Warnings, found' = [found EXCEPT ![w] = f],
         warnings_found' = [warnings_found EXCEPT ![w] = Cardinality(f)],
         NEW c \in Nat, checked' = [checked EXCEPT ![w] = c],
         NEW d \in SUBSET PositionIds, todo' = [todo EXCEPT ![w] = d],
         s \in {"sleep", "run", "read"} => c = 0 /\ f = {},
         IsFiniteSet(f), Cardinality(f) <= c, c + Cardinality(d) <= Cardinality(PositionIds),
         \A x \in f : x.position_id \notin d,
         \A x, y \in f : x.position_id = y.position_id => x = y
  PROVE  CountsInv'
<1>1. \A v \in Workers : v # w =>
        wpc'[v] = wpc[v] /\ found'[v] = found[v] /\ checked'[v] = checked[v]
        /\ todo'[v] = todo[v] /\ warnings_found'[v] = warnings_found[v]
  BY DEF NextStatement, CountsInv, VerdictsInv
<1>2. wpc'[w] = s /\ found'[w] = f /\ checked'[w] = c /\ todo'[w] = d
      /\ warnings_found'[w] = Cardinality(f)
  BY DEF NextStatement, CountsInv, VerdictsInv
<1>3. ASSUME NEW v \in Workers
      PROVE  CountsHold(v)'
  <2>1. CASE v = w
    BY <1>2, <2>1 DEF CountsHold
  <2>2. CASE v # w
    BY <1>1, <2>2 DEF CountsInv, CountsHold
  <2> QED
    BY <2>1, <2>2
<1>4. /\ found' \in [Workers -> SUBSET Warnings] /\ checked' \in [Workers -> Nat]
      /\ warnings_found' \in [Workers -> Nat]
  BY FS_CardinalityType DEF CountsInv
<1> QED
  BY <1>3, <1>4 DEF CountsInv

LEMMA PostRunType ==
  ASSUME CountsInv, VerdictsInv, PassInv, NEW w \in Workers, wpc[w] = "commit", PostRun(w)
  PROVE  runs' \in [RunIds -> Runs] /\ warnings' \subseteq Warnings
<1>1. run_id[w] \in RunIds /\ found[w] \in SUBSET Warnings /\ checked[w] \in Nat
  BY DEF PassInv, WarningsCarryTheirRun, CountsInv
<1>2. /\ checked[w] \in 0..Cardinality(PositionIds)
      /\ warnings_found[w] \in 0..2 * Cardinality(PositionIds)
  <2>1. /\ IsFiniteSet(found[w]) /\ Cardinality(found[w]) <= checked[w]
        /\ checked[w] + Cardinality(todo[w]) <= Cardinality(PositionIds)
        /\ warnings_found[w] = Cardinality(found[w])
    BY DEF CountsInv, CountsHold
  <2>2. Cardinality(found[w]) \in Nat
    BY <2>1, FS_CardinalityType
  <2>3. Cardinality(todo[w]) \in Nat
    BY FinitePositions, FS_Subset, FS_CardinalityType DEF VerdictsInv
  <2> QED
    BY <1>1, <2>1, <2>2, <2>3, FinitePositions
<1>3. runs' \in [RunIds -> Runs]
  BY <1>1, <1>2 DEF PostRun, CountsInv, Runs
<1> QED
  BY <1>1, <1>3 DEF PostRun, CountsInv

LEMMA CountsInductive ==
  ASSUME TypeOK, EmptyUntilBooked, PassInv, VerdictsInv, CountsInv, [NextAll]_allVars
  PROVE  CountsInv'
<1>1. CASE UNCHANGED workerVars
  BY <1>1 DEF workerVars, CountsInv, CountsHold
<1> SUFFICES ASSUME NEW w \in Workers, PassStep(w) \/ PassTrouble(w), UNCHANGED vars
             PROVE  CountsInv'
  BY <1>1 DEF NextAll, allVars
<1>2. /\ wpc \in [Workers -> WorkerStatements]
      /\ runs \in [RunIds -> Runs] /\ warnings \subseteq Warnings
      /\ found = [found EXCEPT ![w] = found[w]] /\ found[w] \in SUBSET Warnings
      /\ checked = [checked EXCEPT ![w] = checked[w]] /\ checked[w] \in Nat
      /\ todo = [todo EXCEPT ![w] = todo[w]] /\ todo[w] \in SUBSET PositionIds
      /\ CountsHold(w)
      /\ warnings_found = [warnings_found EXCEPT ![w] = Cardinality(found[w])]
  <2>1. warnings_found \in [Workers -> Nat] /\ CountsHold(w)
        /\ warnings_found[w] = Cardinality(found[w])
    BY DEF CountsInv, CountsHold
  <2>2. warnings_found = [warnings_found EXCEPT ![w] = Cardinality(found[w])]
    BY <2>1
  <2> QED
    BY <2>1, <2>2 DEF CountsInv, VerdictsInv, PassInv, PassShape
<1>3. /\ IsFiniteSet({}) /\ Cardinality({}) = 0 /\ 0 \in Nat
      /\ Cardinality(PositionIds) \in Nat
  BY FS_EmptySet, FinitePositions
<1>4. IsFiniteSet(todo[w]) /\ Cardinality(todo[w]) \in Nat
  BY <1>2, FinitePositions, FS_Subset, FS_CardinalityType
<1>5. ASSUME NEW s \in WorkerStatements, NextStatement(w, s),
             UNCHANGED <<found, checked, todo, warnings_found>>,
             runs' \in [RunIds -> Runs], warnings' \subseteq Warnings,
             s \in {"sleep", "run", "read"} => wpc[w] \in {"sleep", "run", "read"}
      PROVE  CountsInv'
  BY <1>2, <1>5, CountsStep DEF CountsHold
<1>6. ASSUME PassEnds(w), runs' \in [RunIds -> Runs], warnings' \subseteq Warnings
      PROVE  CountsInv'
  <2>1. /\ Cardinality({}) <= 0 /\ 0 + Cardinality({}) <= Cardinality(PositionIds)
        /\ {} \in SUBSET Warnings /\ {} \in SUBSET PositionIds
        /\ "sleep" \in WorkerStatements
    BY <1>3 DEF WorkerStatements
  <2>2. /\ NextStatement(w, "sleep") /\ found' = [found EXCEPT ![w] = {}]
        /\ checked' = [checked EXCEPT ![w] = 0] /\ todo' = [todo EXCEPT ![w] = {}]
        /\ warnings_found' = [warnings_found EXCEPT ![w] = Cardinality({})]
    BY <1>3, <1>6 DEF PassEnds
  <2> QED
    BY <1>2, <1>3, <1>6, <2>1, <2>2, CountsStep
<1>7. CASE Heartbeat(w)
  BY <1>2, <1>5, <1>7 DEF Heartbeat, runTables, passLocals, WorkerStatements
<1>8. CASE InsertRun(w)
  <2>1. runs' \in [RunIds -> Runs] /\ warnings' \subseteq Warnings
    BY <1>2, <1>8 DEF InsertRun, Runs
  <2> QED
    BY <1>2, <1>5, <1>8, <2>1 DEF InsertRun, WorkerStatements
<1>9. CASE ReadPositions(w)
  <2> DEFINE d == { p \in PositionIds : Exists(positions, p) }
  <2>1. d \in SUBSET PositionIds /\ Cardinality(d) \in Nat
        /\ Cardinality(d) <= Cardinality(PositionIds)
    <3>1. d \in SUBSET PositionIds
      OBVIOUS
    <3> HIDE DEF d
    <3> QED
      BY <3>1, FinitePositions, FS_Subset, FS_CardinalityType
  <2>2. /\ wpc[w] = "read" /\ NextStatement(w, "check") /\ UNCHANGED <<runs, warnings>>
        /\ found' = [found EXCEPT ![w] = found[w]]
        /\ checked' = [checked EXCEPT ![w] = checked[w]]
        /\ todo' = [todo EXCEPT ![w] = d]
        /\ warnings_found' = [warnings_found EXCEPT ![w] = Cardinality(found[w])]
        /\ found[w] = {}
    BY <1>2, <1>9 DEF ReadPositions, runTables, CountsHold
  <2> HIDE DEF d
  <2>3. /\ IsFiniteSet(found[w]) /\ Cardinality(found[w]) <= checked[w]
        /\ checked[w] + Cardinality(d) <= Cardinality(PositionIds)
    BY <1>2, <1>3, <2>1, <2>2 DEF CountsHold
  <2>4. "check" \in WorkerStatements /\ "check" \notin {"sleep", "run", "read"}
    BY DEF WorkerStatements
  <2> QED
    BY <1>2, <2>1, <2>2, <2>3, <2>4, CountsStep
<1>10. ASSUME NEW p \in PositionIds, CheckPosition(w, p)
       PROVE  CountsInv'
  <2> DEFINE x == [ run_id |-> run_id[w], position_id |-> p,
                    warning_type |-> "quantity_mismatch",
                    expected |-> ledgerSum[p], actual |-> seen[w][p].quantity ]
             f == IF Mismatch(seen[w][p].quantity, ledgerSum[p])
                    THEN found[w] \cup {x} ELSE found[w]
  <2>1. /\ wpc[w] = "check" /\ p \in todo[w] /\ NextStatement(w, "check")
        /\ UNCHANGED <<runs, warnings>>
        /\ checked' = [checked EXCEPT ![w] = checked[w] + 1]
        /\ todo' = [todo EXCEPT ![w] = todo[w] \ {p}]
    BY <1>2, <1>10 DEF CheckPosition, NextStatement, runTables
  <2> DEFINE n == IF Mismatch(seen[w][p].quantity, ledgerSum[p])
                    THEN warnings_found[w] + 1 ELSE warnings_found[w]
  <2>2. found' = [found EXCEPT ![w] = f] /\ warnings_found' = [warnings_found EXCEPT ![w] = n]
    <3>1. CASE Mismatch(seen[w][p].quantity, ledgerSum[p])
      BY <1>2, <1>10, <3>1 DEF CheckPosition, Record
    <3>2. CASE ~Mismatch(seen[w][p].quantity, ledgerSum[p])
      BY <1>2, <1>10, <3>2 DEF CheckPosition, CountsInv
    <3> QED
      BY <3>1, <3>2
  <2>3. x \in Warnings
    <3>1. run_id[w] \in RunIds
      BY <2>1 DEF PassInv, WarningsCarryTheirRun
    <3>2. ledgerSum[p] \in Int /\ seen[w][p].quantity \in Int
      BY DEF TypeOK, VerdictsInv, Rows
    <3> QED
      BY <3>1, <3>2 DEF Warnings
  <2>8. /\ x.position_id = p /\ x \notin found[w]
        /\ \A y \in found[w] : y.position_id \notin todo[w]
        /\ \A y, z \in found[w] : y.position_id = z.position_id => y = z
        /\ warnings_found[w] = Cardinality(found[w])
    BY <1>2, <2>1 DEF CountsHold
  <2> HIDE DEF x
  <2>9. /\ \A y \in f : y.position_id \notin todo[w] \ {p}
        /\ \A y, z \in f : y.position_id = z.position_id => y = z
    BY <2>1, <2>8
  <2>10. n = Cardinality(f)
    <3>1. IsFiniteSet(found[w])
      BY <1>2 DEF CountsHold
    <3>2. Cardinality(found[w] \cup {x}) = Cardinality(found[w]) + 1
      BY <2>8, <3>1, FS_AddElement
    <3> QED
      BY <2>8, <3>2
  <2>4. f \in SUBSET Warnings /\ IsFiniteSet(f) /\ Cardinality(f) <= checked[w] + 1
    <3>1. /\ IsFiniteSet(found[w] \cup {x})
          /\ Cardinality(found[w] \cup {x}) <= Cardinality(found[w]) + 1
          /\ Cardinality(found[w]) \in Nat
      <4>1. IsFiniteSet(found[w]) /\ Cardinality(found[w]) \in Nat
        BY <1>2, FS_CardinalityType DEF CountsHold
      <4>2. /\ IsFiniteSet(found[w] \cup {x})
            /\ Cardinality(found[w] \cup {x}) =
                 IF x \in found[w] THEN Cardinality(found[w]) ELSE Cardinality(found[w]) + 1
        BY <4>1, FS_AddElement
      <4> QED
        BY <4>1, <4>2
    <3>2. /\ IsFiniteSet(found[w]) /\ Cardinality(found[w]) <= checked[w]
          /\ checked[w] \in Nat /\ found[w] \in SUBSET Warnings
      BY <1>2 DEF CountsHold
    <3>3. Cardinality(found[w]) <= checked[w] + 1
          /\ Cardinality(found[w] \cup {x}) <= checked[w] + 1
      <4>1. Cardinality(found[w]) \in Nat /\ Cardinality(found[w] \cup {x}) \in Nat
        BY <3>1, <3>2, FS_CardinalityType
      <4> QED
        BY <3>1, <3>2, <4>1
    <3>4. f = found[w] \cup {x} \/ f = found[w]
      OBVIOUS
    <3> HIDE DEF f
    <3>5. CASE f = found[w] \cup {x}
      BY <2>3, <3>1, <3>2, <3>3, <3>5
    <3>6. CASE f = found[w]
      BY <3>2, <3>3, <3>6
    <3> QED
      BY <3>4, <3>5, <3>6
  <2> HIDE DEF f, n
  <2>5. Cardinality(todo[w] \ {p}) = Cardinality(todo[w]) - 1
    BY <1>4, <2>1, FS_RemoveElement
  <2>6. checked[w] + 1 + Cardinality(todo[w] \ {p}) <= Cardinality(PositionIds)
    BY <1>2, <1>3, <1>4, <2>5 DEF CountsHold
  <2>7. /\ "check" \in WorkerStatements /\ "check" \notin {"sleep", "run", "read"}
        /\ checked[w] + 1 \in Nat /\ todo[w] \ {p} \in SUBSET PositionIds
    BY <1>2 DEF WorkerStatements
  <2> QED
    BY <1>2, <2>1, <2>2, <2>4, <2>6, <2>7, <2>9, <2>10, CountsStep
<1>11. CASE CheckOrphans(w)
  <2> DEFINE new == { [ run_id |-> run_id[w], position_id |-> p,
                        warning_type |-> "missing_current_position",
                        expected |-> ledgerSum[p], actual |-> NoRow.quantity ] : p \in Orphans }
  <2>1. Orphans = {}
    BY DEF Orphans, EmptyUntilBooked, NothingBooked
  <2>2. /\ new = {} /\ found' = [found EXCEPT ![w] = @ \cup new]
        /\ warnings_found' = [warnings_found EXCEPT ![w] = @ + Cardinality({})]
    BY <1>11, <2>1 DEF CheckOrphans, Record
  <2> HIDE DEF new
  <2>3. found' = found
    BY <1>2, <2>2
  <2>4. warnings_found' = warnings_found
    <3>1. warnings_found[w] = Cardinality(found[w]) /\ Cardinality(found[w]) \in Nat
      BY <1>2, FS_CardinalityType DEF CountsHold
    <3> QED
      BY <1>2, <1>3, <2>2, <3>1
  <2> QED
    BY <1>2, <1>5, <1>11, <2>3, <2>4 DEF CheckOrphans, runTables, WorkerStatements
<1>12. CASE CompleteRun(w)
  BY <1>2, <1>5, <1>12 DEF CompleteRun, runTables, passLocals, WorkerStatements
<1>13. CASE CommitRun(w)
  BY <1>6, <1>13, PostRunType DEF CommitRun
<1>14. CASE CommitRunUnacknowledged(w)
  BY <1>5, <1>14, PostRunType DEF CommitRunUnacknowledged, passLocals, WorkerStatements
<1>15. CASE Fail(w)
  BY <1>2, <1>5, <1>15 DEF Fail, Rollback, runTables, passLocals, WorkerStatements
<1>16. CASE MarkFailed(w)
  <2>1. \A i \in RunIds : RunExists(i) => [runs[i] EXCEPT !.status = "failed"] \in Runs
    BY <1>2 DEF RunExists, Runs, NoRun
  <2>2. runs' \in [RunIds -> Runs]
    BY <1>2, <1>16, <2>1 DEF MarkFailed
  <2> QED
    BY <1>2, <1>6, <1>16, <2>2 DEF MarkFailed
<1>17. CASE Crash(w)
  BY <1>2, <1>6, <1>17 DEF Crash, Rollback, runTables
<1> QED
  BY <1>7, <1>8, <1>9, <1>10, <1>11, <1>12, <1>13, <1>14, <1>15, <1>16, <1>17
  DEF PassStep, PassTrouble

LEMMA CountsInvariant == ReconciliationSpec => []CountsInv
<1>1. InitAll => CountsInv
  <2> SUFFICES ASSUME InitAll PROVE CountsInv
    OBVIOUS
  <2>1. IsFiniteSet({}) /\ Cardinality({}) = 0 /\ Cardinality(PositionIds) \in Nat
    BY FS_EmptySet, FinitePositions
  <2>2. runs \in [RunIds -> Runs] /\ warnings = {}
    BY DEF InitAll, InitWorkers, Runs
  <2>3. /\ found = [w \in Workers |-> {}] /\ checked = [w \in Workers |-> 0]
        /\ todo = [w \in Workers |-> {}] /\ warnings_found = [w \in Workers |-> 0]
    BY DEF InitAll, InitWorkers
  <2> QED
    BY <2>1, <2>2, <2>3 DEF CountsInv, CountsHold
<1>2. /\ TypeOK /\ EmptyUntilBooked /\ PassInv /\ VerdictsInv /\ CountsInv /\ [NextAll]_allVars
      => CountsInv'
  BY CountsInductive
<1> QED
  BY <1>1, <1>2, ImportsUndisturbed, TypeCorrect, EmptyBesidePasses,
     PassInvariant, Verdicts, PTL DEF ReconciliationSpec

(***************************************************************************)
(* The variables of the workers keep their types: no run is ever committed *)
(* as "running", and a run counts no more positions than there are and no  *)
(* more warnings than it has checked positions (reconciliation.py:40-177). *)
(***************************************************************************)
THEOREM WorkersTypeCorrect == ReconciliationSpec => []WorkersTypeOK
<1>1. PassInv /\ VerdictsInv /\ CountsInv => WorkersTypeOK
  <2> SUFFICES ASSUME PassInv, VerdictsInv, CountsInv
               PROVE  WorkersTypeOK
    OBVIOUS
  <2>1. checked \in [Workers -> 0..Cardinality(PositionIds)]
    <3>1. ASSUME NEW w \in Workers
          PROVE  checked[w] \in 0..Cardinality(PositionIds)
      <4>1. Cardinality(todo[w]) \in Nat
        BY FinitePositions, FS_Subset, FS_CardinalityType DEF VerdictsInv
      <4>2. checked[w] \in Nat /\ checked[w] + Cardinality(todo[w]) <= Cardinality(PositionIds)
        BY DEF CountsInv, CountsHold
      <4> QED
        BY <4>1, <4>2, FinitePositions
    <3>2. checked = [w \in Workers |-> checked[w]]
      BY DEF CountsInv
    <3> QED
      BY <3>1, <3>2
  <2>2. warnings_found \in [Workers -> 0..2 * Cardinality(PositionIds)]
    <3>1. ASSUME NEW w \in Workers
          PROVE  warnings_found[w] \in 0..2 * Cardinality(PositionIds)
      <4>1. /\ warnings_found[w] = Cardinality(found[w])
            /\ IsFiniteSet(found[w]) /\ Cardinality(found[w]) <= checked[w]
        BY DEF CountsInv, CountsHold
      <4>2. Cardinality(found[w]) \in Nat
        BY <4>1, FS_CardinalityType
      <4> QED
        BY <2>1, <4>1, <4>2, FinitePositions
    <3>2. warnings_found = [w \in Workers |-> warnings_found[w]]
      BY DEF CountsInv
    <3> QED
      BY <3>1, <3>2
  <2> QED
    BY <2>1, <2>2 DEF PassInv, PassShape, VerdictsInv, CountsInv, WorkersTypeOK
<1> QED
  BY <1>1, CountsInvariant, PassInvariant, Verdicts, PTL

-----------------------------------------------------------------------------
(* The runs and the warnings in the tables are whole runs' of passes that  *)
(* have ended or wait for their handler: no two passes have one run, and   *)
(* nothing of a pass's run is in the tables before the pass commits.       *)

PublishedOf(w) ==
  IF wpc[w] = "failed" THEN NothingPublished(w) \/ AllPublished(w) ELSE NothingPublished(w)

RunsOfPasses ==
  /\ \A w, v \in Workers : run_id[w] = run_id[v] /\ run_id[w] # 0 => w = v
  /\ \A w \in Workers : run_id[w] # 0 => PublishedOf(w)
  /\ RunsAreWhole

(* A step of w that publishes nothing and forgets nothing. *)
LEMMA NothingIsPublished ==
  ASSUME RunsOfPasses, NEW w \in Workers, UNCHANGED <<runs, warnings>>,
         \A v \in Workers \ {w} :
           /\ wpc'[v] = wpc[v] /\ run_id'[v] = run_id[v] /\ found'[v] = found[v]
           /\ checked'[v] = checked[v] /\ warnings_found'[v] = warnings_found[v],
         run_id'[w] = 0 \/ (run_id'[w] = run_id[w] /\ wpc[w] # "failed")
  PROVE  RunsOfPasses'
<1>1. ASSUME NEW u \in Workers, NEW v \in Workers,
             run_id'[u] = run_id'[v], run_id'[u] # 0
      PROVE  u = v
  <2>1. run_id'[u] = run_id[u] /\ run_id'[v] = run_id[v]
    BY <1>1
  <2> QED
    BY <1>1, <2>1 DEF RunsOfPasses
<1>2. ASSUME NEW v \in Workers, run_id'[v] # 0
      PROVE  PublishedOf(v)'
  <2>1. CASE v = w
    <3>1. run_id'[w] = run_id[w] /\ NothingPublished(w)
      BY <1>2, <2>1 DEF RunsOfPasses, PublishedOf
    <3>2. NothingPublished(w)'
      BY <3>1 DEF NothingPublished, WarningsOf
    <3> QED
      BY <2>1, <3>2 DEF PublishedOf
  <2>2. CASE v # w
    <3>1. PublishedOf(v) /\ run_id'[v] = run_id[v] /\ wpc'[v] = wpc[v]
      BY <1>2, <2>2 DEF RunsOfPasses
    <3> QED
      BY <2>2, <3>1 DEF PublishedOf, NothingPublished, AllPublished, WarningsOf
  <2> QED
    BY <2>1, <2>2
<1>3. RunsAreWhole'
  BY DEF RunsOfPasses, RunsAreWhole, WarningsOf
<1> QED
  BY <1>1, <1>2, <1>3 DEF RunsOfPasses

(* The run i of another pass is left alone. *)
LEMMA OthersKeepTheirRun ==
  ASSUME RunsOfPasses, NEW v \in Workers, run_id[v] # 0,
         runs'[run_id[v]] = runs[run_id[v]],
         WarningsOf(run_id[v])' = WarningsOf(run_id[v]),
         wpc'[v] = wpc[v], run_id'[v] = run_id[v], found'[v] = found[v],
         checked'[v] = checked[v], warnings_found'[v] = warnings_found[v]
  PROVE  PublishedOf(v)'
<1>1. PublishedOf(v)
  BY DEF RunsOfPasses
<1> QED
  BY <1>1 DEF PublishedOf, NothingPublished, AllPublished, WarningsOf

(* INSERT INTO reconciliation_runs: the id is nobody's, and what it was    *)
(* given for before is forgotten.                                          *)
LEMMA InsertRunPublishesNothing ==
  ASSUME PassInv, CountsInv, RunsOfPasses, NEW w \in Workers, InsertRun(w)
  PROVE  RunsOfPasses'
<1> DEFINE i == NextRunId
<1>1. i \in RunIds /\ i \notin { run_id[v] : v \in Workers } /\ i # 0
  BY NextRunIdType DEF InsertRun, PassInv, PassShape, RunIds
<1>2. /\ wpc[w] = "run" /\ wpc' = [wpc EXCEPT ![w] = "read"]
      /\ run_id' = [run_id EXCEPT ![w] = i]
      /\ runs' = [runs EXCEPT ![i] = NoRun]
      /\ warnings' = { x \in warnings : x.run_id # i }
      /\ UNCHANGED <<found, checked, warnings_found>>
  BY DEF InsertRun, NextStatement
<1>3. /\ wpc \in [Workers -> WorkerStatements] /\ run_id \in [Workers -> RunIds \cup {0}]
      /\ runs \in [RunIds -> Runs]
  BY DEF PassInv, PassShape, CountsInv
<1> HIDE DEF i
<1>4. /\ run_id'[w] = i /\ wpc'[w] = "read" /\ runs'[i] = NoRun
      /\ { x \in warnings' : x.run_id = i } = {}
  BY <1>1, <1>2, <1>3
<1>5. ASSUME NEW j \in RunIds, j # i
      PROVE  runs'[j] = runs[j] /\ { x \in warnings' : x.run_id = j }
                                   = { x \in warnings : x.run_id = j }
  BY <1>2, <1>3, <1>5
<1>6. ASSUME NEW v \in Workers, v # w
      PROVE  run_id'[v] = run_id[v] /\ wpc'[v] = wpc[v] /\ run_id[v] # i
  BY <1>1, <1>2, <1>3, <1>6
<1>7. ASSUME NEW u \in Workers, NEW v \in Workers,
             run_id'[u] = run_id'[v], run_id'[u] # 0
      PROVE  u = v
  BY <1>4, <1>6, <1>7 DEF RunsOfPasses
<1>8. ASSUME NEW v \in Workers, run_id'[v] # 0
      PROVE  PublishedOf(v)'
  <2>1. CASE v = w
    BY <1>4, <2>1 DEF PublishedOf, NothingPublished, WarningsOf
  <2>2. CASE v # w
    <3>1. run_id'[v] = run_id[v] /\ wpc'[v] = wpc[v] /\ run_id[v] # i /\ run_id[v] \in RunIds
      BY <1>3, <1>6, <1>8, <2>2
    <3>2. runs'[run_id[v]] = runs[run_id[v]]
          /\ WarningsOf(run_id[v])' = WarningsOf(run_id[v])
      BY <1>5, <3>1 DEF WarningsOf
    <3> QED
      BY <1>2, <1>8, <3>1, <3>2, OthersKeepTheirRun
  <2> QED
    BY <2>1, <2>2
<1>9. RunsAreWhole'
  <2> SUFFICES ASSUME NEW j \in RunIds
               PROVE  /\ runs'[j].warnings_found = Cardinality({ x \in warnings' : x.run_id = j })
                      /\ \A x, y \in { x \in warnings' : x.run_id = j } :
                           x.position_id = y.position_id => x = y
    BY DEF RunsAreWhole, WarningsOf
  <2>1. CASE j = i
    BY <1>4, <2>1, FS_EmptySet DEF NoRun
  <2>2. CASE j # i
    BY <1>5, <2>2 DEF RunsOfPasses, RunsAreWhole, WarningsOf
  <2> QED
    BY <2>1, <2>2
<1> QED
  BY <1>7, <1>8, <1>9 DEF RunsOfPasses

(* The commit of the pass of w: its run is published whole. *)
LEMMA PostRunPublishesAll ==
  ASSUME PassInv, CountsInv, RunsOfPasses, NEW w \in Workers, wpc[w] = "commit", PostRun(w)
  PROVE  /\ runs'[run_id[w]] = [ status            |-> "completed",
                                 positions_checked |-> checked[w],
                                 warnings_found    |-> warnings_found[w] ]
         /\ { x \in warnings' : x.run_id = run_id[w] } = found[w]
         /\ \A j \in RunIds : j # run_id[w] =>
              /\ runs'[j] = runs[j]
              /\ { x \in warnings' : x.run_id = j } = { x \in warnings : x.run_id = j }
         /\ RunsAreWhole'
<1>1. /\ run_id[w] \in RunIds /\ run_id[w] # 0
      /\ \A x \in found[w] : x.run_id = run_id[w]
  BY DEF PassInv, WarningsCarryTheirRun, HoldsHeartbeat, RunIds
<1>2. { x \in warnings : x.run_id = run_id[w] } = {}
  BY <1>1 DEF RunsOfPasses, PublishedOf, NothingPublished, WarningsOf
<1>3. runs'[run_id[w]] = [ status            |-> "completed",
                           positions_checked |-> checked[w],
                           warnings_found    |-> warnings_found[w] ]
  BY <1>1 DEF PostRun, CountsInv
<1>4. { x \in warnings' : x.run_id = run_id[w] } = found[w]
  BY <1>1, <1>2 DEF PostRun
<1>5. ASSUME NEW j \in RunIds, j # run_id[w]
      PROVE  /\ runs'[j] = runs[j]
             /\ { x \in warnings' : x.run_id = j } = { x \in warnings : x.run_id = j }
  BY <1>1, <1>5 DEF PostRun, CountsInv
<1>6. RunsAreWhole'
  <2> SUFFICES ASSUME NEW j \in RunIds
               PROVE  /\ runs'[j].warnings_found = Cardinality({ x \in warnings' : x.run_id = j })
                      /\ \A x, y \in { x \in warnings' : x.run_id = j } :
                           x.position_id = y.position_id => x = y
    BY DEF RunsAreWhole, WarningsOf
  <2>1. CASE j = run_id[w]
    <3>1. /\ warnings_found[w] = Cardinality(found[w])
          /\ \A x, y \in found[w] : x.position_id = y.position_id => x = y
      BY DEF CountsInv, CountsHold
    <3>2. runs'[j].warnings_found = warnings_found[w]
      BY <1>3, <2>1
    <3>3. { x \in warnings' : x.run_id = j } = found[w]
      BY <1>4, <2>1
    <3> QED
      BY <3>1, <3>2, <3>3
  <2>2. CASE j # run_id[w]
    BY <1>5, <2>2 DEF RunsOfPasses, RunsAreWhole, WarningsOf
  <2> QED
    BY <2>1, <2>2
<1> QED
  BY <1>3, <1>4, <1>5, <1>6
LEMMA RunsOfPassesInductive ==
  ASSUME PassInv, CountsInv, RunsOfPasses, [NextAll]_allVars
  PROVE  RunsOfPasses'
<1>1. CASE UNCHANGED workerVars
  BY <1>1 DEF workerVars, RunsOfPasses, RunsAreWhole, PublishedOf, NothingPublished,
              AllPublished, WarningsOf
<1> SUFFICES ASSUME NEW w \in Workers, PassStep(w) \/ PassTrouble(w)
             PROVE  RunsOfPasses'
  BY <1>1 DEF NextAll, allVars
<1>2. /\ wpc \in [Workers -> WorkerStatements] /\ run_id \in [Workers -> RunIds \cup {0}]
      /\ runs \in [RunIds -> Runs] /\ found \in [Workers -> SUBSET Warnings]
      /\ checked \in [Workers -> Nat] /\ warnings_found \in [Workers -> Nat]
  BY DEF PassInv, PassShape, CountsInv
<1>3. CASE Heartbeat(w) \/ ReadPositions(w) \/ CompleteRun(w) \/ Fail(w)
  <2>1. /\ UNCHANGED <<runs, warnings, run_id, found, checked, warnings_found>>
        /\ wpc[w] # "failed"
        /\ \E s \in WorkerStatements : wpc' = [wpc EXCEPT ![w] = s]
    BY <1>3 DEF Heartbeat, ReadPositions, CompleteRun, Fail, Rollback, HoldsHeartbeat,
                NextStatement, runTables, passLocals, WorkerStatements
  <2> QED
    BY <1>2, <2>1, NothingIsPublished
<1>4. CASE InsertRun(w)
  BY <1>4, InsertRunPublishesNothing
<1>5. ASSUME wpc[w] = "check", UNCHANGED <<runs, warnings, run_id, checked>>,
             NEW s \in WorkerStatements, wpc' = [wpc EXCEPT ![w] = s],
             NEW new, NEW n, Record(w, new, n)
      PROVE  RunsOfPasses'
  <2>1. \A v \in Workers \ {w} : found'[v] = found[v] /\ warnings_found'[v] = warnings_found[v]
    BY <1>2, <1>5 DEF Record
  <2> QED
    BY <1>2, <1>5, <2>1, NothingIsPublished
<1>6. ASSUME NEW p \in PositionIds, CheckPosition(w, p)
      PROVE  RunsOfPasses'
  <2>1. /\ wpc[w] = "check" /\ UNCHANGED <<runs, warnings, run_id, wpc>>
        /\ \A v \in Workers \ {w} :
             /\ checked'[v] = checked[v] /\ found'[v] = found[v]
             /\ warnings_found'[v] = warnings_found[v]
    BY <1>2, <1>6 DEF CheckPosition, Record, runTables
  <2> QED
    BY <1>2, <2>1, NothingIsPublished
<1>7. CASE CheckOrphans(w)
  BY <1>5, <1>7 DEF CheckOrphans, NextStatement, runTables, WorkerStatements
<1>8. CASE CommitRun(w)
  <2>1. /\ wpc[w] = "commit" /\ PostRun(w) /\ run_id[w] \in RunIds
        /\ wpc' = [wpc EXCEPT ![w] = "sleep"] /\ run_id' = [run_id EXCEPT ![w] = 0]
        /\ found' = [found EXCEPT ![w] = {}] /\ checked' = [checked EXCEPT ![w] = 0]
        /\ warnings_found' = [warnings_found EXCEPT ![w] = 0]
    BY <1>8 DEF CommitRun, PassEnds, NextStatement, PassInv, WarningsCarryTheirRun
  <2>2. ASSUME NEW v \in Workers, v # w
        PROVE  /\ run_id'[v] = run_id[v] /\ wpc'[v] = wpc[v] /\ found'[v] = found[v]
               /\ checked'[v] = checked[v] /\ warnings_found'[v] = warnings_found[v]
    BY <1>2, <2>1, <2>2
  <2>3. run_id'[w] = 0
    BY <1>2, <2>1
  <2>4. ASSUME NEW v \in Workers, run_id'[v] # 0
        PROVE  PublishedOf(v)'
    <3>1. v # w /\ run_id[v] # 0 /\ run_id[v] # run_id[w] /\ run_id[v] \in RunIds
      BY <1>2, <2>1, <2>2, <2>3, <2>4 DEF RunsOfPasses
    <3>2. /\ runs'[run_id[v]] = runs[run_id[v]]
          /\ { x \in warnings' : x.run_id = run_id[v] } = { x \in warnings : x.run_id = run_id[v] }
      BY <2>1, <3>1, PostRunPublishesAll
    <3>3. WarningsOf(run_id[v])' = WarningsOf(run_id[v])
      BY <2>2, <3>1, <3>2 DEF WarningsOf
    <3> QED
      BY <2>2, <3>1, <3>2, <3>3, OthersKeepTheirRun
  <2>5. ASSUME NEW u \in Workers, NEW v \in Workers,
               run_id'[u] = run_id'[v], run_id'[u] # 0
        PROVE  u = v
    BY <2>2, <2>3, <2>5 DEF RunsOfPasses
  <2>6. RunsAreWhole'
    BY <2>1, PostRunPublishesAll
  <2> QED
    BY <2>4, <2>5, <2>6 DEF RunsOfPasses
<1>9. CASE CommitRunUnacknowledged(w)
  <2>1. /\ wpc[w] = "commit" /\ PostRun(w) /\ run_id[w] \in RunIds
        /\ wpc' = [wpc EXCEPT ![w] = "failed"]
        /\ UNCHANGED <<run_id, found, checked, warnings_found>>
    BY <1>9 DEF CommitRunUnacknowledged, passLocals, NextStatement, PassInv,
                WarningsCarryTheirRun
  <2>2. ASSUME NEW v \in Workers, run_id'[v] # 0
        PROVE  PublishedOf(v)'
    <3>1. CASE v = w
      <4>1. AllPublished(w)'
        BY <2>1, PostRunPublishesAll DEF AllPublished, WarningsOf
      <4> QED
        BY <1>2, <2>1, <3>1, <4>1 DEF PublishedOf
    <3>2. CASE v # w
      <4>1. run_id[v] # 0 /\ run_id[v] # run_id[w] /\ run_id[v] \in RunIds /\ wpc'[v] = wpc[v]
        BY <1>2, <2>1, <2>2, <3>2 DEF RunsOfPasses
      <4>2. /\ runs'[run_id[v]] = runs[run_id[v]]
            /\ WarningsOf(run_id[v])' = WarningsOf(run_id[v])
        BY <2>1, <4>1, PostRunPublishesAll DEF WarningsOf
      <4> QED
        BY <2>1, <4>1, <4>2, OthersKeepTheirRun
    <3> QED
      BY <3>1, <3>2
  <2>3. \A u, v \in Workers : run_id'[u] = run_id'[v] /\ run_id'[u] # 0 => u = v
    BY <2>1 DEF RunsOfPasses
  <2>4. RunsAreWhole'
    BY <2>1, PostRunPublishesAll
  <2> QED
    BY <2>2, <2>3, <2>4 DEF RunsOfPasses
<1>10. CASE MarkFailed(w)
  <2>1. /\ UNCHANGED warnings
        /\ wpc' = [wpc EXCEPT ![w] = "sleep"] /\ run_id' = [run_id EXCEPT ![w] = 0]
        /\ found' = [found EXCEPT ![w] = {}] /\ checked' = [checked EXCEPT ![w] = 0]
        /\ warnings_found' = [warnings_found EXCEPT ![w] = 0]
    BY <1>10 DEF MarkFailed, PassEnds, NextStatement
  <2>2. ASSUME NEW v \in Workers, v # w
        PROVE  /\ run_id'[v] = run_id[v] /\ wpc'[v] = wpc[v] /\ found'[v] = found[v]
               /\ checked'[v] = checked[v] /\ warnings_found'[v] = warnings_found[v]
    BY <1>2, <2>1, <2>2
  <2>3. run_id'[w] = 0
    BY <1>2, <2>1
  <2>4. ASSUME NEW j \in RunIds
        PROVE  /\ runs'[j].warnings_found = runs[j].warnings_found
               /\ j # run_id[w] => runs'[j] = runs[j]
    BY <1>2, <1>10 DEF MarkFailed, Runs, NoRun
  <2>5. ASSUME NEW v \in Workers, run_id'[v] # 0
        PROVE  PublishedOf(v)'
    <3>1. v # w /\ run_id[v] # 0 /\ run_id[v] # run_id[w] /\ run_id[v] \in RunIds
      BY <1>2, <2>2, <2>3, <2>5 DEF RunsOfPasses
    <3>2. /\ runs'[run_id[v]] = runs[run_id[v]]
          /\ WarningsOf(run_id[v])' = WarningsOf(run_id[v])
      BY <2>1, <2>2, <2>4, <3>1 DEF WarningsOf
    <3> QED
      BY <2>2, <3>1, <3>2, OthersKeepTheirRun
  <2>6. ASSUME NEW u \in Workers, NEW v \in Workers,
               run_id'[u] = run_id'[v], run_id'[u] # 0
        PROVE  u = v
    BY <2>2, <2>3, <2>6 DEF RunsOfPasses
  <2>7. RunsAreWhole'
    BY <2>1, <2>4 DEF RunsOfPasses, RunsAreWhole, WarningsOf
  <2> QED
    BY <2>5, <2>6, <2>7 DEF RunsOfPasses
<1>11. CASE Crash(w)
  <2>1. /\ UNCHANGED <<runs, warnings>>
        /\ wpc' = [wpc EXCEPT ![w] = "sleep"] /\ run_id' = [run_id EXCEPT ![w] = 0]
        /\ found' = [found EXCEPT ![w] = {}] /\ checked' = [checked EXCEPT ![w] = 0]
        /\ warnings_found' = [warnings_found EXCEPT ![w] = 0]
    BY <1>11 DEF Crash, Rollback, runTables, PassEnds, NextStatement
  <2> QED
    BY <1>2, <2>1, NothingIsPublished
<1> QED
  BY <1>3, <1>4, <1>6, <1>7, <1>8, <1>9, <1>10, <1>11 DEF PassStep, PassTrouble

LEMMA RunsOfPassesHold == ReconciliationSpec => []RunsOfPasses
<1>1. InitAll => RunsOfPasses
  <2> SUFFICES ASSUME InitAll PROVE RunsOfPasses
    OBVIOUS
  <2>1. run_id = [w \in Workers |-> 0] /\ runs = [i \in RunIds |-> NoRun] /\ warnings = {}
    BY DEF InitAll, InitWorkers
  <2>2. RunsAreWhole
    BY <2>1, FS_EmptySet DEF RunsAreWhole, WarningsOf, NoRun
  <2> QED
    BY <2>1, <2>2 DEF RunsOfPasses
<1>2. PassInv /\ CountsInv /\ RunsOfPasses /\ [NextAll]_allVars => RunsOfPasses'
  BY RunsOfPassesInductive
<1> QED
  BY <1>1, <1>2, PassInvariant, CountsInvariant, PTL DEF ReconciliationSpec

(***************************************************************************)
(* Every run in the tables has exactly as many warnings as the pass has    *)
(* counted for it, no two of one position, whatever pass failed, crashed   *)
(* or was marked failed after its commit (reconciliation.py:40-193).       *)
(***************************************************************************)
THEOREM WholeRuns == ReconciliationSpec => []RunsAreWhole
<1>1. RunsOfPasses => RunsAreWhole
  BY DEF RunsOfPasses
<1> QED
  BY <1>1, RunsOfPassesHold, PTL

(***************************************************************************)
(* The handler of a failed pass meets nothing of its run, or the whole of  *)
(* it: the run it marks failed is its own, complete and with its warnings  *)
(* (reconciliation.py:179-193).                                            *)
(***************************************************************************)
THEOREM AllOrNothing == ReconciliationSpec => []FailedPassLeftAllOrNothing
<1>1. RunsOfPasses => FailedPassLeftAllOrNothing
  BY DEF RunsOfPasses, PublishedOf, FailedPassLeftAllOrNothing
<1> QED
  BY <1>1, RunsOfPassesHold, PTL
=============================================================================
