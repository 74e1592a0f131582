------------------------------ MODULE MCLedger ------------------------------
(***************************************************************************)
(* Small instances of the import for TLC: the constants of the runs on     *)
(* LedgerImport.  Three spellings of one symbol, one of them with a blank, *)
(* which lower() leaves and strip() takes; quantities and prices of a few  *)
(* column steps.                                                           *)
(***************************************************************************)
EXTENDS LedgerAudit

Import(key, portfolio, ticker, event_type, delta, price, fees) ==
  [ idempotency_key |-> key, portfolio |-> portfolio, ticker |-> ticker,
    event_type |-> event_type, quantity_delta |-> delta, price |-> price, fees |-> fees ]

Trade(key, ticker, delta, price, fees) ==
  Import(key, "main", ticker, "external_position_change", delta, price, fees)

Spellings      == {"AAPL", "aapl", "AAPL "}
LowerCase      == [s \in Spellings |-> IF s = "AAPL " THEN "aapl " ELSE "aapl"]
StripLowerCase == [s \in Spellings |-> "aapl"]

(* One thread: every history of up to four trades and a fee, one symbol.   *)
SerialKeys == 1..4
SerialRequests ==
  UNION { { Trade(k, "AAPL", 2, 3, 0),
            Trade(k, "aapl", 1, 6, 1),
            Trade(k, "AAPL ", -1, 5, 1),
            Trade(k, "aapl", -3, 4, 0),
            Import(k, "main", "AAPL", "fee", 0, NoPrice, 1) } : k \in SerialKeys }

(* Two threads: three spellings and a second symbol, a key submitted twice *)
(* with two bodies, one sent to two portfolios, a quantity and a price no  *)
(* column holds, an unsupported event type.                                *)
TwoSymbols        == Spellings \cup {"MSFT"}
TwoLowerCase      == [s \in TwoSymbols |-> IF s = "MSFT" THEN "msft" ELSE LowerCase[s]]
TwoStripLowerCase == [s \in TwoSymbols |-> IF s = "MSFT" THEN "msft" ELSE "aapl"]

ConcurrentKeys == 1..3
ConcurrentRequests ==
  { Trade(1, "AAPL", 2, 3, 0),
    Trade(1, "aapl", -3, 4, 0),
    Trade(2, "aapl", -1, 5, 1),
    Trade(2, "MSFT", 50, 1, 0),
    Trade(2, "MSFT", 1, 1, 0),
    Trade(3, "AAPL ", 1, NoPrice, 1),
    Import(3, "other", "MSFT", "fee", 0, 50, 1),
    Import(3, "other", "MSFT", "fee", 0, 1, 1),
    Import(3, "main", "AAPL", "unsupported", 1, 1, 0) }

(* Three threads that wait for one another's row, key and new position.    *)
ContendedRequests == { Trade(1, "AAPL", 2, 3, 0), Trade(2, "AAPL", -1, 5, 1) }

(* Two trades under two spellings, each of which may be sent again.        *)
SpellingRequests == { Trade(1, "AAPL", 1, 1, 0), Trade(2, "aapl", 1, 1, 0) }

(* Three trades on one position.                                           *)
OverlapRequests == { Trade(k, "AAPL", 1, 1, 0) : k \in 1..3 }
=============================================================================
