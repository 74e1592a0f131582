# Position tracking: the TLA+ development

This directory holds a TLA+ model of the position tracking service in this
repository: what its write path, its reconciliation worker, its portfolios,
its reads and its migrations do to and see of the database, checked by TLC on
small instances and proved by TLAPS for every value of the constants. Source lines below are given as `file:line`; `ledger.py` is
`src/quant_positions/repository/ledger.py`, `reconciliation.py` is
`src/quant_positions/workers/reconciliation.py`, `0001` and `0002` are the two
revisions in `alembic/versions/`.

## The system

| Component | Code | State it keeps | Operations |
|---|---|---|---|
| Ledger import | `ledger.py:50-227` | `positions`, `position_ledger_entries` | import an event: one transaction of up to six statements |
| Accounting rules | `domain/accounting.py` | none | new quantity, average cost and realized profit of an event |
| Reconciliation worker | `reconciliation.py` | `reconciliation_runs`, `reconciliation_warnings`, `worker_heartbeats` | a pass over all positions, in one transaction; again every interval |
| Portfolios | `repository/portfolios.py` | `portfolios` | list, create, get, delete (the default application does not wire delete) |
| HTTP API | `api/app.py` | none; 20 threads | validation, one repository call, status code |
| Reads | `repository/positions.py`, `lots.py`, `reconciliation.py`, the rest of `ledger.py` | none | single SELECTs with filters and paging |
| Readiness | `api/readiness.py` | none | counts over all tables, schema version, stale workers |
| Schema and migrations | `alembic/` | the tables and their UNIQUE columns | 0001 creates, 0002 moves to the schema `positions`; `env.py` moves the version table |
| Startup | `supervisord.conf`, `docker-compose.yml` | the processes | migrate once; API and worker after a sleep, restarted for ever |

Components interact through the database only. Every thread of the API and
every worker opens its own engine, connection and transaction at the default
isolation level, READ COMMITTED: a statement sees what was committed when it
started, and two statements of one transaction may see different data. What a
transaction makes others wait for is a row it has updated and a UNIQUE value it
has inserted.

### What is hard

* Imports overlap: the position is read by one statement (`ledger.py:109`) and
  overwritten with absolute values by another (`ledger.py:163`), without a lock
  between them; the first imports of a symbol race to create its position; two
  imports race with one idempotency key.
* Transactions fail anywhere, on a constraint, an overflow of a NUMERIC column
  or a broken connection; a commit may succeed and its acknowledgement be lost;
  clients then send the request again.
* A pass of the worker reads the positions at one moment and each ledger sum at
  a later one; passes fail and crash; the handler of a failure runs in another
  transaction; a `--once` pass may run beside the scheduled one.
* Decimals are rounded by the code (average cost) and again by the columns.
* A portfolio is deleted in three statements while imports that have resolved
  its name insert references to it.
* `alembic upgrade head` runs at every start of a container and beside an
  operator's commands, in two transactions, and may be interrupted anywhere; the
  programs start five seconds later whatever has become of it.
* Lists are paged by OFFSET while imports commit; the serial ids that break ties
  are given out by the INSERT and become visible with the commit.
* The ticker is normalized one way by the lookup, another by the INSERT, and not
  at all by the UNIQUE constraint.

`PROJECT.json` lists the hazards at their lines, with the properties that watch
them.

### What makes each component correct

* Import: exactly once per key; no acknowledged import lost; one indivisible step
  on the tables; one position per symbol that imports find again; every request
  answered.
* Accounting: quantity is the sum of the entries; cost and status follow the
  quantity; money is conserved up to the rounding.
* Portfolios: no position without its portfolio; what a client was told stays
  true; each request comes to one step, and is answered.
* Migrations: the recorded version tells where the tables are, whatever was
  interrupted; nothing but a downgrade to the base loses rows; the service comes up.
* Reads: a page may shift, but no further than the imports move it; what was
  recorded is found.
* Worker: right about every position no import touched meanwhile; runs published
  whole and in order, and marked failed whole or not at all; a drift that stays is
  reported for good.

## The modules

| Module | What it is |
|---|---|
| `Accounting` | `apply_ledger_event` on scaled integers, with the rounding of the code and of the columns |
| `PositionStore` | the tables, the requests and the replies as data; what one import makes of a row |
| `LedgerImport` | the import: one action per SQL statement, any number of threads |
| `LedgerBook` | abstract: what an import promises about the tables (one indivisible step) |
| `Journal` | abstract: what an import promises its client |
| `LedgerProperties` | invariants, action properties, refinements, fairness and liveness of the import, and a sentence it does not keep |
| `LedgerAudit` | properties that sum over a position's whole history |
| `Reconciliation` | the worker beside the imports: one action per SQL statement, any number of workers |
| `ReconciliationProperties` | its properties, fairness, and a sentence it does not keep |
| `LedgerReads` | paging and the lookup by ticker beside the imports |
| `ReadsProperties` | what the reads show |
| `Portfolios` | creating and deleting portfolios beside imports: one action per SQL statement |
| `PortfolioRegister` | abstract: what the portfolio routes promise (one indivisible step) |
| `PortfolioProperties` | invariants, the refinement, fairness and liveness |
| `Startup` | the container, runs of alembic in two transactions, the programs, the readiness probe |
| `StartupProperties` | what the runs leave behind, coming up, and a sentence the probe does not keep |
| `MCLedger`, `MCReads`, `MCReconciliation` | the constants of TLC's runs |
| `Accounting_proofs`, `LedgerImport_proofs`, `LedgerRefinement_proofs`, `LedgerRows_proofs`, `LedgerReads_proofs`, `Reconciliation_proofs`, `Portfolio_proofs`, `Startup_proofs` | theorems and lemmas |

`Reconciliation` composes the worker with `LedgerImport`: `NextAll` takes a step
of one and leaves the variables of the other alone. `LedgerReads` composes a
client that reads with `LedgerImport`: a step of an import (`ImportGoesOn`) also
moves the serial ids on. `Portfolios` has imports of its own, reduced to what
touches the portfolio's row: `LedgerImport` resolves a name once and needs no more
than that it exists, since without a delete (which the default application does
not wire, `app.py:607`) it stays.

### How the state corresponds to the code

`portfolios`, `positions`, `ledger`, `runs` and `warnings` are the committed
contents of the tables. `pc[t]` is the SQL statement thread `t` runs next, and
`req`, `pos`, `row` are the local variables `params`, `position_id` and
`position_row` of `import_ledger_entry`; `wpc`, `run_id`, `seen`,
`checked`, `warnings_found` are those of `run_reconciliation` (`seen` is
`positions`, `checked` is `positions_checked`), `found` the warnings its
transaction has inserted, which the counter `warnings_found` counts apart from
them. A transaction's own writes follow
from its `pc` and locals, so they enter the tables in `Commit` and `CommitRun`
only; what others wait for meanwhile is `InsertsPosition`, `LocksRow`,
`HoldsKey` and `HoldsHeartbeat`. `Abort`, `Fail` and `Crash` roll back at any
statement; `CommitUnacknowledged` and `CommitRunUnacknowledged` are commits
whose acknowledgement is lost. `reply[t]` is the HTTP answer.

In `Portfolios`, `name[i]` is the committed row of id `i` and `booked` the ids
that positions refer to; `pc`, `req`, `id` and `reply` are as above. What others
wait for is `Inserts` (the UNIQUE name), `Deletes` (the row) and `Refers` (the
key-share lock a foreign key takes on the row). In `Startup`, `db` is the
committed schemas: which tables, which of them with rows, which recorded version
in each; `pc[m]` is what a run of alembic does next, `plan[m]` the version it has
read, `goal[m]` the revision its command names. Its revisions reach `db` in
`CommitRevisions`. In `LedgerReads`, `entryIds` and `positionIds` are the order of
the serial ids, as the set of pairs (earlier row, later row); `query` and `offset`
are what a client asks for, `shown` the rows it has been shown since the first
page and `received` how many rows that took, so that `received` exceeds the size
of `shown` when a row has come twice.

History variables, which no action's guard reads: `ledgerSum` (the result of the
worker's SUM; `QuantityFromOwnEntries` checks that it is the sum of the
entries), `horizon` and `reported` (how much of the ledger a pass, and the
passes committed so far, have seen), and, in `LedgerReads`, `start`, `left` and
`came` (what matched at the first page, and how often rows have left and joined
the list since).

### Abstractions

* Rows are named by their UNIQUE columns instead of serial ids; `(ticker,
  market, locale)` is one value; tags, metadata, source, reason and times are
  left out, no decision of the modelled code depends on them.
* `Lower` and `StripLower` are the two normalizations of a ticker, functions on
  the spellings: `lower(submitted_ticker)` in SQL and `ticker.strip().lower()` in
  Python. They differ on a spelling with blanks around it; a position stored under
  a spelling on which they agree is `Findable`.
* A decimal is an integer number of units, `One` units in 1.0 and `Ulp` units in
  a column step; a column rounds to a step and refuses `MaxNumeric` and more.
  Python's limit of 28 significant digits is not modelled. NaN and infinity pass
  the validation for some fields and end in an exception at an operation or a
  statement that `Abort` covers; they never reach a table as a number.
* The result of a statement that waits (for a row or a UNIQUE value) is decided
  when it can go on. A SELECT without ORDER BY returns any matching row.
* A container holds any set of application tables, all created and moved alike.
  DDL of an uncommitted run makes the DDL and the writes of others wait; a run
  that meets a table or version row it does not expect is refused and rolled back.
* The order of tickers in the list of positions is a place for each spelling
  (`TickerPlace`); two spellings may share one.
* Filters of a list are equalities on a few columns, with a value that stands for
  "not given"; a page is one SELECT in a transaction of its own.
* The heartbeat's time is left out, its row lock is not. Warnings of orphaned
  entries are one per position; none can arise, since nothing deletes a position.
* A run id is taken modulo `MaxRuns`: an id is not given again while a worker still
  holds it, and when it is given again the tables forget the run and the warnings
  formerly published under it (`InsertRun`). The sequence gives an id once and
  nothing is forgotten; no property speaks of a run after its id is given again.

## The runs

All run TLC with deadlock checking on: clients may always send a request, so the
model never stops. The bounds are the sets of the cfg files.

| Run | Question | Instance |
|---|---|---|
| `import_serial` | Is the bookkeeping right without overlap? | 1 thread, up to 4 entries of 5 kinds, in whole column steps (buys and sells under three spellings, one of them `"AAPL "`, through zero, a fee) |
| `import_concurrent` | What do overlapping imports still guarantee? | 2 threads, 3 keys, 9 requests: keys with two bodies, one of them sent to two portfolios, three spellings, `"AAPL "` among them, and a second symbol, a quantity and a price that overflow, an unsupported type |
| `import_live` | Is every import answered? | 3 threads contending for one position, row and key |
| `reconcile_two_workers` | Are runs whole and in order, and what does the handler of a failed pass mark? | 2 workers (interchangeable, so with symmetry), 1 thread, 1 position, failures and crashes anywhere |
| `reconcile_live` | Is a pass right about what no import touched, and is lasting drift reported? | 1 worker, 1 thread, 2 positions, one of which drifts by rounding |
| `portfolios` | Do create, delete and import come to one step each, and are they answered? | 3 threads, 2 names, 2 ids |
| `startup` | What do runs of alembic leave behind, and does the service come up? | the container and 2 operators, 2 tables, a fresh database or one of two old layouts, with and without rows |
| `reads` | What do paging and lookup show beside imports? | 2 threads (interchangeable), 3 entries of one symbol under three spellings, `"AAPL "` among them, so up to three positions, pages of 1 row, 2 lists |

The bounds are enough for what the properties tell apart: two transactions
suffice for a lost update, a race to create and a race on a key, three for a
cycle of waits through three kinds of lock; four entries reach long, flat, short
and long again; two runs and two workers overlap in every order; three threads put a create, a
delete and an import, or a delete between two imports, on one row, and `MaxId` 2
lets a deleted name be created anew; two operators beside the container give
three overlapping runs of alembic from every version; a page of one row makes a
shift visible at every import, and three entries give a page to come back to.
`Ulp` is 1 with
`One` 2 where quantities are to be exact and products not, and 2 where half
steps are wanted.

What the passing runs show: with one thread the import is the indivisible one of
`LedgerBook`, and a normalized symbol has one position that imports find again.
For numbers of whole column steps, its quantities are the sums of its entries,
cost and status follow the quantity through zero and back, and no
money is lost beyond half a step per rounding. With two, whatever fails: keys are
unique, acknowledged imports stay, the client's view is that of `Journal`, every
step is an indivisible import except a commit over a row changed since it was
read, and such a commit loses updates and does nothing worse. A check and a DELETE with
imports between them still come to one step, thanks to the foreign key alone. A
migration can be interrupted anywhere and run again. A client that pages to the
end misses none of the entries that were there when it began, however imports
overlap, and sees one twice only if another has come in before it.

### Where code and documentation part

Each of these runs ends in a counterexample to one quoted sentence.

| Run | Claim | What happens |
|---|---|---|
| `lost_update` | the ledger explains the position (`models.py:21-22`) | two overlapping imports of one position; the second overwrites the first |
| `duplicate_race` | a duplicate key returns the original (`README.md:206-209`) | two overlapping imports with one key; the second gets HTTP 500 |
| `failed_pass` | the run is marked failed (`tests/test_reconciliation_worker.py:210`) | the failing transaction takes its run row along |
| `never_ready` | the schema's eight tables are there (`README.md:67`, `273-286`, `tests/test_schema.py:111`) | the version table is in `positions` too (`env.py:16`), so the list never equals the eight (`readiness.py:132`) and every probe answers 503 |

Others were met and have no run of their own:

* Two overlapping first imports of one symbol under two spellings create two
  positions (`ledger.py:114` lowers, the UNIQUE columns do not), although
  `models.py:11` speaks of the position of a normalized symbol (and `models.py:13`
  of its submitted ticker). The lookup by ticker then shows the closed one first
  (`positions.py:117`).
* `"AAPL "` is stored with its blank (`ledger.py:140`) and looked up without it
  (`ledger.py:114`, `121`). After it, an import of `"AAPL"` creates a second
  position of the symbol, with one thread too, and the trades of the first are not
  in it; another import of `"AAPL "` goes to the second position, or fails on the
  UNIQUE columns as long as there is none; and the lookup by ticker never finds the first.
  `FindablePositionsAreUnique` and `ImportIsFound` say what is left: they speak of
  positions stored without blanks.
* A duplicate reply names the portfolio of the new request beside the old entry
  (`ledger.py:101`), although `README.md:206-209` says that the original entry is
  returned: a key sent again to another portfolio is answered with an entry that
  portfolio does not have. `AckedIsDurable` therefore compares the portfolio of a
  "recorded" reply only.
* The status is decided before the column rounds (`ledger.py:160`): a
  `quantity_delta` of 0.000000001 on a flat position leaves it open, with a cost
  when the delta is priced, while its stored quantity is 0; and the delta that
  takes a stored quantity to a remainder below half a step leaves it open and flat.
  `FlatIsClosedAndFree` is for whole column steps.
* A pass that reads a position before, and its ledger after, an import reports a
  mismatch that never was (`reconciliation.py:82`); `QuietVerdictsAreExact` says
  how far a pass can be trusted.
* A `quantity_delta` finer than a column step is rounded in the entry and again in
  the position's sum (`ledger.py:174`, `207`), so that the two drift apart without
  any overlap: that drift is the one the instance of `reconcile_live` starts from.
* A `fee`, "Fee-only event (no quantity change)" in `README.md:224`, changes the
  quantity when it comes with one.
* A failed INSERT of a portfolio is answered as a conflict whenever the text of the
  exception, which quotes the parameters, contains "unique" or "duplicate"
  (`app.py:248`).

### Fairness

`FairSpec`: a thread that can run its next statement runs it (weak fairness: the
server schedules its threads), and one that waits for a lock gets it when the
lock is free again and again (strong fairness: PostgreSQL queues the waiters).
Nothing is assumed of clients, and failures need not happen. `FairReconciliation`:
the same of a worker's loop (`reconciliation.py:226-231`) and of its wait for the
heartbeat row. `FairSpec` of `PortfolioProperties` is that of the imports. A DELETE
is the one statement that can starve under it: PostgreSQL lets new key-share locks
pass a waiting DELETE, so imports to the portfolio that never stop overlapping
keep its row from it; `EveryRequestAnswered` excepts exactly that (`Overtaken`).
`FairSpec` of `StartupProperties` only lets a started run of alembic go on;
`ComesUp` assumes, as its hypothesis, that the container stays up and that in the
end only upgrades are asked for and none is interrupted. The client of
`LedgerReads` has no fairness and no liveness. `DriftIsReported` also assumes, as its hypothesis, that from some
time on no pass fails and no entry is added.

## The proofs

Assumed: the named assumptions on the constants (`ScaleAssumption`,
`RequestsAssumption`, `MaxRunsAssumption`, `FiniteNamesAssumption`,
`PortfoliosAssumption`, `TablesAssumption`, `ReadsAssumption`). Threads, workers
and keys are any sets, and so are portfolios and spellings, except beside the
worker, which counts positions: there they are finitely many
(`FiniteNamesAssumption`). Where a theorem needs more it says so in its own
hypotheses: `OneThread`, because with two the property fails (`lost_update`);
`WholeSteps` or `WholeAmounts`, because finer numbers are rounded twice and the
status is decided before the rounding (see above).

Every invariant and every action property the passing runs check is a theorem
here, and so are the three refinements.

* `TypeCorrect` carries the types; its invariant adds that a request being served
  has a supported event type, without which an entry would have no type.
* `Exclusion` proves `TransactionsExclude`, which is inductive given the types:
  no two transactions have updated one row, inserted one position or inserted one
  key; a transaction with a position has one of its request's symbol; what its
  statements let through still holds. `KeyUnique` alone is not inductive: that a
  key is still free at the commit follows from `KeysExclude`, that is, from the
  INSERT having waited.
* `ExactlyOnce`, `Durable`: from it, with the ledger only growing.
* `Atomic`, `JournalRefinement`: each step maps to a step or stutter of the
  abstract specification; a commit that is not stale has read the row as it still
  is, and `RowFits`, `EntryFits` have been checked on the way.
* `DriftNeedsLostUpdate` assumes that the requests' quantities are whole column
  steps, and adds to the invariant that all quantities stored or read are; the
  sum of two such numbers is stored as it is (`ToColumnOnGrid`).
* `SerialImplementsBook`, `SerialQuantities` assume one thread, which makes a
  stale commit impossible: between read and commit nothing else writes.
* `CostFollowsQuantity`: with whole column steps every row stored or read by a
  thread has a cost only when it is long (`RowsSound`), which `apply_ledger_event`
  keeps (`ApplyKeepsCost`); a lost update writes such a row over another such row.
* `SerialSymbols`: with one thread nothing is inserted between the lookup that
  found no position and the commit of the new one (`ReadIsCurrent`), so no findable
  position of its symbol is there (`NewSymbolIsNew`).
* `LossesAreOwnEntries`: the invariant `OwnEntriesOnly` adds that the row a thread
  has read is made of entries of its position too, so that the value it writes is
  made of those and the one it enters.
* The audits (`AverageIsWithin`, `Conservation`): with one thread the row an import
  updates is the one it has read, and its quantity the sum of the entries
  (`SerialBooks`); a commit adds one entry to the history of its position and
  leaves what came before (`HistoryContinues`); a history that was never short has
  a quantity of 0 or more now (`HistorySound`). What is left is arithmetic:
  rounding is off by half a step at most (`HalfUpNear`, `QuantizeNear`), so a
  weighted average of two numbers of the grid, rounded to the grid, stays between
  them (`AverageBelow`, `AverageAbove`), and no event makes or loses money beyond
  its two roundings (`MoneyStep`).
* Sums over the ledger are recursive functions (`Total`). What they return for
  every length is shown without an induction theorem: what holds of 0, and of a
  number when of the one before, has no least exception (`AllNat`, `LeastNat`).
* `LedgerReads_proofs` rests on places in a linear order: the place of a row is the
  number of rows before it (`Place`), and a page is the rows whose places lie from
  the offset on. A step of an import changes one row of a list at most
  (`OneRowChanges`), so at most one other row crosses the offset (`OneCrosses`).
  The invariant `PagesSound` counts them: rows not shown although before the offset
  (`Missed`) are no more than have left, rows shown although behind it (`Ahead`)
  no more than have come. `SkipsAreLeavers` and `RepeatsAreNewcomers` follow, and
  with `ReadsTypeCorrect` that paging ends. `IdsStayOrdered` keeps the serial ids
  a linear order, whichever way overlapping transactions commit.
  `RecordedIsFound` rests on `AckedIsDurable`, with the entries of an existing
  position under its own spelling or one that finds it (`EntriesFindable`): where
  that position is stored without blanks, it is among those the lookup finds. They
  are finitely many and linearly ordered, so one is first and is shown
  (`FirstIsShown`): the position itself, a closed one or a newer one.
* `ImportsUndisturbed`: the composed specification implies that of the import,
  so all of the above holds beside any number of workers (`ExactlyOnceBesidePasses`
  is one instance).
* `PublishedInOrder`: from `PassInv`: the heartbeat row keeps passes apart, what a
  pass has read is no older than what committed runs have, and its warnings carry
  its run's id.
* `WholeRuns`, `AllOrNothing`: a pass counts its warnings as it inserts them and
  finds one at most for a position (`CountsInv`); no two passes hold one run, and
  nothing of a run is in the tables before its pass commits, all of it after a
  commit whose acknowledgement was lost (`RunsOfPasses`).
* `VerdictsExact`: a position and its sum change only with an entry of its own
  (`PositionChangesByEntry`), and a position that is not there has none
  (`EmptyUntilBooked`). So where no entry has come since the pass began, what it
  has read of a position, and each sum it computes later, are those of one moment;
  `VerdictsInv` says so of every position checked so far.
* `WorkersTypeCorrect`: a pass checks each position it has seen once, so its counts
  are bounded by the positions there are.
* `Portfolio_proofs`: the inductive invariant is `TypeOK` with `RowsExclude`,
  `NoDanglingPosition` and `RepliesStayTrue`: ids are handed out once, a
  transaction about to create has its name and id to itself, one about to delete
  has nobody refer to its row, one about to book has found its portfolio by name.
  `NoDanglingPosition` alone is not inductive: that nobody books to a row about to
  be deleted is `DeletesExclude`. `RegisterRefinement` maps the two commits to
  `Create`, `Delete` or `Book`, and every other step to a stutter.
* `Startup_proofs`: the inductive invariant is `TypeOK` with `VersionIsTruth` and
  `MigrationsExclude`: at most one run has uncommitted revisions, the version it
  has planned from is still the recorded one, and the version table has been moved
  by then. `DataPreserved` follows, each revision moving every table with its rows.

Only model-checked: the liveness properties (`EveryImportAnswered`,
`DriftIsReported`, `EveryRequestAnswered`, `ComesUp`), since fairness and ENABLED
are out of the prover's reach, and the four sentences the code does not keep, which
are refuted by counterexamples.

## Not modelled, and the plan

Done: accounting, import, portfolios, worker, migrations and startup, reads, the
abstract specifications, theorems for all their safety properties. Next, in this
order:

1. `ImportValidation`: from a request body to a status code (`app.py:342-431`,
   `553-571`).
2. Imports of `LedgerImport` beside deletes, instead of the reduced ones of
   `Portfolios`, for an application that wires `portfolio_delete`.
3. The lists of runs and warnings, as a second client of `LedgerReads`' paging.

Not modelled, because nothing changes state and one statement decides: the reads
by primary key (`positions.py:66-93`, `ledger.py:267-296`), the list of portfolios
(`portfolios.py:28-56`), the lists of runs and warnings, and the count of stale
workers (`readiness.py:119-124`), which only a successful probe would show.

Left out for good: serialization of rows to JSON, logging, the lots and snapshots
tables (nothing writes them), packaging.
