------------------------------- MODULE MCReads -------------------------------
(***************************************************************************)
(* The constants of the run on LedgerReads.                                *)
(***************************************************************************)
EXTENDS ReadsProperties, TLC

Trade(k, s, q) ==
  [ idempotency_key |-> k, portfolio |-> "main", ticker |-> s,
    event_type |-> "external_position_change", quantity_delta |-> q,
    price |-> NoPrice, fees |-> 0 ]

(* Three spellings of one symbol, one of them with a blank, which lower()   *)
(* leaves and strip() takes, in the order of a C collation.                 *)
ReadTickers    == {"AAPL", "AAPL ", "aapl"}
ReadPlace      == [s \in ReadTickers |-> CASE s = "AAPL" -> 1 [] s = "AAPL " -> 2 [] s = "aapl" -> 3]
ReadLower      == [s \in ReadTickers |-> IF s = "AAPL " THEN "aapl " ELSE "aapl"]
ReadStripLower == [s \in ReadTickers |-> "aapl"]

(* The entry of key 1 is the youngest, those of 2 and 3 are of one moment.  *)
ReadKeys     == 1..3
ReadOccurred == [k \in ReadKeys |-> IF k = 1 THEN 2 ELSE 1]
ReadRequests == { Trade(1, "AAPL", 1), Trade(2, "AAPL ", 1), Trade(3, "aapl", -1) }

(* The threads are interchangeable. *)
ThreadSymmetry == Permutations(Threads)

(* All entries, and the open positions.                                      *)
ReadQueries ==
  { [of |-> "entries", portfolio |-> "main", ticker |-> Unset, event_type |-> Unset],
    [of |-> "positions", portfolio |-> Unset, ticker |-> Unset, status |-> "open"] }
=============================================================================
