--------------------------- MODULE PositionStore ---------------------------
(***************************************************************************)
(* The tables an import reads and writes, and what one import makes of     *)
(* their rows: the data of repository/ledger.py, without its control.      *)
(*                                                                         *)
(* A Ticker stands for the submitted (ticker, market, locale).  Rows are   *)
(* named by their UNIQUE columns, for which their serial ids stand in the  *)
(* code: a position by (portfolio, submitted ticker), a ledger entry by    *)
(* its idempotency key.  No code deletes a position or an entry.           *)
(***************************************************************************)
EXTENDS Accounting, Sequences

CONSTANTS Portfolios,   \* portfolio names
          Tickers,      \* the spellings clients submit
          Lower,        \* a spelling as lower(submitted_ticker) returns it
          StripLower,   \* a spelling as ticker.strip().lower() returns it
          Keys,         \* idempotency keys
          Requests      \* the imports clients send

ALLOWED_EVENT_TYPES ==
  { "external_position_change", "manual_adjustment", "transfer_in", "transfer_out",
    "stock_split", "fee", "correction", "opening_balance" }

(* What the HTTP route lets through: a price and fees are not negative,    *)
(* the quantity is any number, and an event type may still be unsupported  *)
(* (the route skips that check for a falsy value that is not a string).    *)
LedgerImportParams ==
  [ idempotency_key : Keys,
    portfolio       : Portfolios,
    ticker          : Tickers,
    event_type      : ALLOWED_EVENT_TYPES \cup {"unsupported"},
    quantity_delta  : Int,
    price           : Nat \cup {NoPrice},
    fees            : Nat ]

(* Mutant: the event type is not checked.                                  *)
SupportedAlways(r) == TRUE

Supported(r) == r.event_type \in ALLOWED_EVENT_TYPES

ASSUME RequestsAssumption == Requests \subseteq LedgerImportParams /\ Requests # {}

(***************************************************************************)
(* positions.positions                                                     *)
(***************************************************************************)
PositionIds == Portfolios \X Tickers

Rows == [ quantity     : Int,
          average_cost : Int,
          realized_pnl : Int,
          status       : {"none", "open", "closed"} ]

NoRow    == [quantity |-> 0, average_cost |-> 0, realized_pnl |-> 0, status |-> "none"]
NewRow   == [quantity |-> 0, average_cost |-> 0, realized_pnl |-> 0, status |-> "open"]

Exists(positions, p) == positions[p].status # "none"

(* Mutants: the stored spelling is not lowered; the symbol is not compared.*)
MatchingStoredSpelling(positions, r) ==
  { p \in PositionIds : /\ Exists(positions, p)
                        /\ p[1] = r.portfolio
                        /\ p[2] = StripLower[r.ticker] }

MatchingAnySymbol(positions, r) ==
  { p \in PositionIds : Exists(positions, p) /\ p[1] = r.portfolio }

(* The rows the SELECT of an import may return: the stored spelling is     *)
(* lowered, the submitted one is stripped and lowered.                     *)
Matching(positions, r) ==
  { p \in PositionIds : /\ Exists(positions, p)
                        /\ p[1] = r.portfolio
                        /\ Lower[p[2]] = StripLower[r.ticker] }

(* The row the INSERT of an import creates: the ticker as submitted.       *)
OwnPosition(r) == <<r.portfolio, r.ticker>>

(* What the UPDATE of an import makes of the row it has read.  The status  *)
(* is decided on the number before the column rounds it.                   *)
Updated(row, r) ==
  LET update == ApplyLedgerEvent(row.quantity, row.average_cost,
                                 r.quantity_delta, r.price, r.fees)
  IN  [ quantity     |-> ToColumn(update.new_quantity),
        average_cost |-> update.new_average_cost,
        realized_pnl |-> Quantize(row.realized_pnl * One + update.realized_pnl_delta, One),
        status       |-> IF update.new_quantity # 0 THEN "open" ELSE "closed" ]

RowFits(row) == /\ Storable(row.quantity)
                /\ Storable(row.average_cost)
                /\ Storable(row.realized_pnl)

(***************************************************************************)
(* positions.position_ledger_entries                                       *)
(***************************************************************************)
Entries == [ idempotency_key  : Keys,
             position_id      : PositionIds,
             submitted_ticker : Tickers,
             event_type       : ALLOWED_EVENT_TYPES,
             quantity_delta   : Int,
             price            : Int,
             fees             : Int ]

LedgerEntry(r, p) ==
  [ idempotency_key  |-> r.idempotency_key,
    position_id      |-> p,
    submitted_ticker |-> r.ticker,
    event_type       |-> r.event_type,
    quantity_delta   |-> ToColumn(r.quantity_delta),
    price            |-> IF r.price = NoPrice THEN NoPrice ELSE ToColumn(r.price),
    fees             |-> ToColumn(r.fees) ]

EntryFits(e) == /\ Storable(e.quantity_delta)
                /\ Storable(e.price)
                /\ Storable(e.fees)

KeyUsed(ledger, k) == \E i \in 1..Len(ledger) : ledger[i].idempotency_key = k

(***************************************************************************)
(* The replies of an import                                                *)
(***************************************************************************)
Replies == [ status : {"idle", "pending", "rejected", "error"} ]
             \cup [ status           : {"recorded", "duplicate"},
                    portfolio        : Portfolios,
                    ledger_entry_id  : Keys,
                    submitted_ticker : Tickers,
                    position_id      : PositionIds,
                    quantity_delta   : Int ]

Idle     == [status |-> "idle"]      \* the thread has served nothing yet
Pending  == [status |-> "pending"]   \* it is serving a request
Rejected == [status |-> "rejected"]  \* HTTP 422
Error    == [status |-> "error"]     \* an exception: HTTP 500, or no reply at all

(* The recorded reply repeats the request; the duplicate one describes the *)
(* stored entry, except for the portfolio, which is the one of the request.*)
Recorded(r, p) ==
  [ status           |-> "recorded",
    portfolio        |-> r.portfolio,
    ledger_entry_id  |-> r.idempotency_key,
    submitted_ticker |-> r.ticker,
    position_id      |-> p,
    quantity_delta   |-> r.quantity_delta ]

Duplicate(r, e) ==
  [ status           |-> "duplicate",
    portfolio        |-> r.portfolio,
    ledger_entry_id  |-> e.idempotency_key,
    submitted_ticker |-> e.submitted_ticker,
    position_id      |-> e.position_id,
    quantity_delta   |-> e.quantity_delta ]
=============================================================================
