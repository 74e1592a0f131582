-------------------------- MODULE MCReconciliation --------------------------
(* The constants of the runs of the reconciliation worker.                 *)
EXTENDS ReconciliationProperties, TLC

MCTickers   == {"AAPL", "MSFT"}
MCLowerCase == [s \in MCTickers |-> IF s = "MSFT" THEN "msft" ELSE "aapl"]

Trade(k, s, q) ==
  [ idempotency_key |-> k, portfolio |-> "main", ticker |-> s,
    event_type |-> "external_position_change", quantity_delta |-> q,
    price |-> NoPrice, fees |-> 0 ]

LowerAAPL == [s \in {"AAPL"} |-> "aapl"]

(* With Ulp = 2, the two imports of half a column step make AAPL drift.     *)
HalfSteps == { Trade(1, "AAPL", -1), Trade(2, "AAPL", 1) }

(* The same, and a second position that does not drift.                    *)
DriftingRequests == HalfSteps \cup { Trade(2, "MSFT", 2) }

(* Trades of whole steps.                                                  *)
WholeSteps == { Trade(1, "AAPL", 2), Trade(2, "AAPL", 2) }

(* The workers are interchangeable. *)
WorkerSymmetry == Permutations(Workers)
=============================================================================
