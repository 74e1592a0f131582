---------------------- MODULE ReconciliationProperties ----------------------
(***************************************************************************)
(* What a pass of the reconciliation worker establishes, whatever imports, *)
(* other passes, failures and crashes run beside it.                       *)
(***************************************************************************)
EXTENDS Reconciliation

(***************************************************************************)
(* The values each variable of the workers takes; in particular a committed*)
(* run is never "running", the status every run is inserted with           *)
(* (reconciliation.py:53-60): no reader can observe a pass in progress.    *)
(***************************************************************************)
WorkersTypeOK ==
  /\ runs \in [RunIds -> Runs]
  /\ warnings \subseteq Warnings
  /\ lastRun \in RunIds
  /\ reported \in Nat
  /\ wpc \in [Workers -> WorkerStatements]
  /\ run_id \in [Workers -> RunIds \cup {0}]
  /\ seen \in [Workers -> [PositionIds -> Rows]]
  /\ todo \in [Workers -> SUBSET PositionIds]
  /\ found \in [Workers -> SUBSET Warnings]
  /\ checked \in [Workers -> 0..Cardinality(PositionIds)]
  /\ warnings_found \in [Workers -> 0..2 * Cardinality(PositionIds)]
  /\ horizon \in [Workers -> Nat]

(* No entry of p has been committed since the pass of w read the positions.*)
Quiet(w, p) ==
  \A i \in 1..Len(ledger) : i > horizon[w] => ledger[i].position_id # p

Reports(S, p) == \E x \in S : x.position_id = p

(***************************************************************************)
(* The verdict of a pass is exact wherever no import interfered: when it   *)
(* is about to commit, it has a warning for a position without a later     *)
(* entry if and only if the position's quantity differs from its ledger    *)
(* now (reconciliation.py:62-164, whose SELECTs see different moments).    *)
(***************************************************************************)
QuietVerdictsAreExact ==
  \A w \in Workers, p \in PositionIds :
    wpc[w] = "commit" /\ Quiet(w, p) => (Reports(found[w], p) <=> Drift[p] # 0)

(***************************************************************************)
(* A run in the tables, completed or failed, has exactly the warnings its  *)
(* own count says, no two of one position, and a warning has its run,      *)
(* through any failure or crash in the middle of a pass.  The pass keeps   *)
(* the count apart from the rows it inserts (reconciliation.py:36, 92,     *)
(* 138, 176); one transaction holds the two together.                      *)
(***************************************************************************)
WarningsOf(i) == { x \in warnings : x.run_id = i }

RunsAreWhole ==
  \A i \in RunIds :
    /\ runs[i].warnings_found = Cardinality(WarningsOf(i))
    /\ \A x, y \in WarningsOf(i) : x.position_id = y.position_id => x = y

(***************************************************************************)
(* When the handler of a failed pass comes to mark its run                 *)
(* (reconciliation.py:179-193), either nothing of the run is in the        *)
(* tables, or all of it is, completed and with the counts and the warnings *)
(* this very pass has kept: the commit went through and only its           *)
(* acknowledgement was lost.  So a run marked failed is a whole one, whose *)
(* warnings stand, and never another pass's.                               *)
(***************************************************************************)
NothingPublished(w) == runs[run_id[w]] = NoRun /\ WarningsOf(run_id[w]) = {}

AllPublished(w) ==
  /\ runs[run_id[w]] = [ status            |-> "completed",
                         positions_checked |-> checked[w],
                         warnings_found    |-> warnings_found[w] ]
  /\ WarningsOf(run_id[w]) = found[w]

FailedPassLeftAllOrNothing ==
  \A w \in Workers :
    wpc[w] = "failed" /\ run_id[w] # 0 => NothingPublished(w) \/ AllPublished(w)

(***************************************************************************)
(* A pass that commits has seen every entry that a pass committed before   *)
(* had seen: two workers cannot publish their runs in the wrong order.     *)
(* Nothing in the code says so; the lock on the heartbeat's row, which a   *)
(* pass takes first and keeps (reconciliation.py:42-50), makes it true.    *)
(***************************************************************************)
RunsPublishedInOrder ==
  [][ \A w \in Workers :
        CommitRun(w) \/ CommitRunUnacknowledged(w) => horizon[w] >= reported ]_allVars

(***************************************************************************)
(* Fairness: the loop of main() goes on (reconciliation.py:226-231), and a *)
(* pass waiting for another worker's gets its turn (PostgreSQL queues the  *)
(* waiters).                                                               *)
(***************************************************************************)
FairReconciliation ==
  /\ ReconciliationSpec
  /\ \A w \in Workers : WF_allVars(PassStep(w) /\ UNCHANGED vars)
                        /\ SF_allVars(Heartbeat(w) /\ UNCHANGED vars)

(***************************************************************************)
(* Drift is reported: once no entry is added and no pass fails any more, a *)
(* position that differs from its ledger has a warning, for good           *)
(* (reconciliation.py:3-5).                                                *)
(***************************************************************************)
DriftIsReported ==
  \A p \in PositionIds :
    /\ <>[][\A w \in Workers : ~PassTrouble(w)]_allVars
    /\ <>[][UNCHANGED ledger]_allVars
    /\ <>[](Drift[p] # 0)
    => <>[]Reports(warnings, p)

-----------------------------------------------------------------------------
(* What the documentation says of a pass, and the code does not do.        *)

(***************************************************************************)
(* "reconciliation run is marked failed" (test_reconciliation_worker.py    *)
(* :210): the handler of a failed pass leaves its run with that status.    *)
(***************************************************************************)
FailedPassIsMarked ==
  [][ \A w \in Workers :
        MarkFailed(w) /\ run_id[w] # 0 => runs'[run_id[w]].status = "failed" ]_allVars
=============================================================================
